------------------------ MODULE Amqp091BrokerProofs ------------------------
(***************************************************************************)
(* Where every copy of a message is and in which order it waits, for any   *)
(* publishers, consumers, queues, topology and capacity.                   *)
(***************************************************************************)
EXTENDS Amqp091Broker, SequenceTheorems, FiniteSetTheorems, WellFoundedInduction, TLAPS

(* Induction over the naturals, for a set of them: a set of naturals that  *)
(* is not empty has a least member.                                        *)
LEMMA Least ==
  ASSUME NEW S \in SUBSET Nat, S # {}
  PROVE  \E m \in S : \A k \in S : m <= k
<1> DEFINE R == {ss \in Nat \X Nat : ss[1] < ss[2]}
<1>1. IsWellFoundedOn(R, Nat)
  BY NatLessThanWellFounded DEF OpToRel
<1> HIDE DEF R
<1>2. PICK m \in S : \A k \in S : ~(<<k, m>> \in R)
  BY <1>1, WFMin
<1>3. ASSUME NEW k \in S PROVE m <= k
  <2>1. k \in Nat /\ m \in Nat
    OBVIOUS
  <2>2. ~(k < m)
    BY <1>2, <2>1 DEF R
  <2>3. QED
    BY <2>1, <2>2
<1>4. QED
  BY <1>3

(* What holds of 0 and of every successor holds of every number.           *)
LEMMA Counting ==
  ASSUME NEW S, 0 \in S, \A n \in Nat : n \in S => n + 1 \in S
  PROVE  Nat \subseteq S
<1> SUFFICES ASSUME Nat \ S # {} PROVE FALSE
  OBVIOUS
<1>1. PICK m \in Nat \ S : \A k \in Nat \ S : m <= k
  BY Least
<1>2. m # 0 /\ m - 1 \in Nat
  BY <1>1
<1>3. m - 1 \in S
  BY <1>1, <1>2
<1>4. QED
  BY <1>1, <1>2, <1>3

(* What the loop over the bindings computes: a target that is not refused  *)
(* reaches a sequence of declared queues.                                  *)
LEMMA RoutesToQueues ==
  ASSUME Len(bindings) \in Nat,
         \A n \in 1 .. Len(bindings) : bindings[n].queue \in queues,
         NEW target, ~Refused(target)
  PROVE  routeTargets(target) \in Seq(queues)
<1>1. CASE target.exchange = DefaultExchange
  BY <1>1 DEF Refused, routeTargets
<1>2. CASE target.exchange # DefaultExchange
  <2> DEFINE last == Len(bindings)
             Loop(g, n) == IF n = 0 THEN <<>>
                           ELSE IF matches(bindings[n], target)
                                THEN Append(g[n - 1], bindings[n].queue)
                                ELSE g[n - 1]
             bound == CHOOSE g : g = [n \in 0 .. last |-> Loop(g, n)]
  <2>1. last \in Nat /\ \A n \in 1 .. last : bindings[n].queue \in queues
    OBVIOUS
  <2>2. routeTargets(target) = bound[last]
    BY <1>2 DEF routeTargets
  <2> HIDE DEF last
  <2>3. \E g : g = [n \in 0 .. last |-> Loop(g, n)]
    <3> DEFINE S == {m \in Nat : m <= last =>
                       \E g \in [0 .. m -> Seq(queues)] :
                         \A n \in 0 .. m : g[n] = Loop(g, n)}
    <3>1. 0 \in S
      <4> DEFINE g == [n \in 0 .. 0 |-> <<>>]
      <4>1. g \in [0 .. 0 -> Seq(queues)] /\ \A n \in 0 .. 0 : g[n] = Loop(g, n)
        OBVIOUS
      <4>2. QED
        BY <4>1
    <3>2. ASSUME NEW m \in Nat, m \in S PROVE m + 1 \in S
      <4> SUFFICES ASSUME m + 1 <= last
                   PROVE  \E g \in [0 .. m + 1 -> Seq(queues)] :
                            \A n \in 0 .. m + 1 : g[n] = Loop(g, n)
        <5>1. m + 1 \in Nat
          OBVIOUS
        <5> HIDE DEF Loop
        <5>2. QED
          BY <5>1
      <4>1. m + 1 <= last
        OBVIOUS
      <4>2. PICK f \in [0 .. m -> Seq(queues)] : \A n \in 0 .. m : f[n] = Loop(f, n)
        <5> HIDE DEF Loop
        <5>1. m <= last
          BY <2>1, <4>1
        <5>2. QED
          BY <3>2, <5>1
      <4> DEFINE g == [n \in 0 .. m + 1 |-> IF n = m + 1 THEN Loop(f, m + 1) ELSE f[n]]
      <4>3. Loop(f, m + 1) \in Seq(queues)
        <5>1. f[m] \in Seq(queues) /\ bindings[m + 1].queue \in queues
          BY <2>1, <4>1
        <5>2. Append(f[m], bindings[m + 1].queue) \in Seq(queues)
          BY <5>1, AppendProperties
        <5>3. QED
          BY <5>1, <5>2
      <4>4. g \in [0 .. m + 1 -> Seq(queues)]
        BY <4>3
      <4>5. ASSUME NEW n \in 0 .. m + 1 PROVE g[n] = Loop(g, n)
        <5>1. n # 0 => n - 1 \in 0 .. m /\ g[n - 1] = f[n - 1]
          OBVIOUS
        <5>2. Loop(g, n) = Loop(f, n)
          BY <5>1
        <5>3. g[n] = Loop(f, n)
          <6>1. CASE n = m + 1
            BY <6>1
          <6>2. CASE n \in 0 .. m
            <7>1. g[n] = f[n]
              BY <6>2
            <7>2. f[n] = Loop(f, n)
              BY <4>2, <6>2
            <7>3. QED
              BY <7>1, <7>2
          <6>3. QED
            BY <6>1, <6>2
        <5>4. QED
          BY <5>2, <5>3
      <4>6. QED
        BY <4>4, <4>5
    <3>3. last \in S
      <4> HIDE DEF S
      <4>1. Nat \subseteq S
        BY <3>1, <3>2, Counting
      <4>2. QED
        BY <2>1, <4>1
    <3>4. PICK g \in [0 .. last -> Seq(queues)] : \A n \in 0 .. last : g[n] = Loop(g, n)
      BY <2>1, <3>3, SMTT(20)
    <3>5. g = [n \in 0 .. last |-> Loop(g, n)]
      BY <3>4
    <3>6. QED
      BY <3>5
  <2>4. bound = [n \in 0 .. last |-> Loop(bound, n)]
    BY <2>3
  <2> HIDE DEF bound
  <2>5. \A n \in 0 .. last : bound[n] = Loop(bound, n)
    BY <2>4
  <2>6. last \in {m \in Nat : m <= last => bound[m] \in Seq(queues)}
    <3> DEFINE S == {m \in Nat : m <= last => bound[m] \in Seq(queues)}
    <3>1. 0 \in S
      <4>1. bound[0] = <<>>
        BY <2>1, <2>5
      <4>2. <<>> \in Seq(queues)
        OBVIOUS
      <4> HIDE DEF Loop
      <4>3. QED
        BY <4>1, <4>2
    <3>2. ASSUME NEW m \in Nat, m \in S PROVE m + 1 \in S
      <4>1. SUFFICES ASSUME m + 1 <= last PROVE bound[m + 1] \in Seq(queues)
        OBVIOUS
      <4>2. bound[m] \in Seq(queues) /\ bindings[m + 1].queue \in queues
        BY <2>1, <3>2, <4>1
      <4>3. Append(bound[m], bindings[m + 1].queue) \in Seq(queues)
        BY <4>2, AppendProperties
      <4>4. bound[m + 1] = Loop(bound, m + 1)
        BY <2>1, <2>5, <4>1
      <4>5. QED
        BY <4>2, <4>3, <4>4
    <3> HIDE DEF S
    <3>3. Nat \subseteq S
      BY <3>1, <3>2, Counting
    <3>4. QED
      BY <2>1, <3>3 DEF S
  <2>7. QED
    BY <2>1, <2>2, <2>6
<1>3. QED
  BY <1>1, <1>2

-----------------------------------------------------------------------------
(* What a binding may be: one of those the topology declares.              *)
Bound == {[exchange |-> Declarations[i].exchange, queue |-> Declarations[i].queue,
           key |-> Declarations[i].key] : i \in 1 .. Len(Declarations)}

Typed ==
  /\ queues \subseteq Queues
  /\ bindings \in Seq(Bound)
  /\ \A n \in 1 .. Len(bindings) : bindings[n].queue \in queues
  /\ tag \in 0 .. MaxTag
  /\ queueOf \in [Tags -> Queues \cup {NoQueue}]
  /\ \A t \in Tags : t <= tag => queueOf[t] \in Queues
  /\ DOMAIN sender = Tags
  /\ placements \in [Publishers -> Seq(Tags)]
  /\ backlog \in [Queues -> Seq(Tags)]
  /\ unsettled \in [Queues -> SUBSET Tags]
  /\ at \in [Consumers -> ConsumerStates]
  /\ source \in [Consumers -> Queues \cup {NoQueue}]
  /\ hand \in [Consumers -> Tags \cup {NoTag}]
  /\ acks \in [Tags -> Nat] /\ discards \in [Tags -> Nat]

(* What a consumer's state says of what it has in hand: it is recorded     *)
(* while it is held, also after Close, and nobody else has it.             *)
Engaged ==
  /\ \A c \in Consumers :
       /\ at[c] # "idle" => source[c] \in Queues
       /\ at[c] \in {"taken", "holding", "returning"} => hand[c] # NoTag
       /\ at[c] \in {"idle", "waiting"} => hand[c] = NoTag
       /\ at[c] \in {"holding", "closed"} /\ hand[c] # NoTag => hand[c] \in unsettled[source[c]]
       /\ at[c] = "returning" => hand[c] \in redelivered
  /\ \A c, d \in Consumers : hand[c] # NoTag /\ hand[c] = hand[d] => c = d

(* The parts of Places.                                                    *)
Placing(t) == {p \in Publishers : t \in ToSet(placements[p])}
Waiting(t) == {q \in Queues : t \in ToSet(backlog[q])}
Taken(t) == {c \in Consumers : at[c] = "taken" /\ hand[c] = t}
Held(t) == {q \in Queues : t \in unsettled[q]}
Returning(t) == {c \in Consumers : at[c] = "returning" /\ hand[c] = t}
Ended(t) == {x \in {"accepted", "discarded", "dropped"} :
               \/ x = "accepted" /\ acks[t] > 0
               \/ x = "discarded" /\ discards[t] > 0
               \/ x = "dropped" /\ t \in dropped}

Lone(S) == \E x : S = {x}

(* One copy, in one of six places.                                         *)
Somewhere(P, W, K, H, R, E) ==
  \/ Lone(P) /\ W = {} /\ K = {} /\ H = {} /\ R = {} /\ E = {}
  \/ P = {} /\ Lone(W) /\ K = {} /\ H = {} /\ R = {} /\ E = {}
  \/ P = {} /\ W = {} /\ Lone(K) /\ H = {} /\ R = {} /\ E = {}
  \/ P = {} /\ W = {} /\ K = {} /\ Lone(H) /\ R = {} /\ E = {}
  \/ P = {} /\ W = {} /\ K = {} /\ H = {} /\ Lone(R) /\ E = {}
  \/ P = {} /\ W = {} /\ K = {} /\ H = {} /\ R = {} /\ Lone(E)

Nowhere(P, W, K, H, R, E) ==
  P = {} /\ W = {} /\ K = {} /\ H = {} /\ R = {} /\ E = {}

Placed(t, last) ==
  IF t <= last
  THEN Somewhere(Placing(t), Waiting(t), Taken(t), Held(t), Returning(t), Ended(t))
  ELSE Nowhere(Placing(t), Waiting(t), Taken(t), Held(t), Returning(t), Ended(t))

Once ==
  /\ \A q \in Queues : IsInjective(backlog[q])
  /\ \A p \in Publishers : IsInjective(placements[p])

(* Invariant by induction.                                                 *)
BrokerInv == Typed /\ Engaged /\ Once /\ \A t \in Tags : Placed(t, tag)

(* What a publisher has still to place is newer than everything it has     *)
(* placed, and in the order it was given tags.                             *)
Sent ==
  \A p \in Publishers : \A i \in 1 .. Len(placements[p]) :
    /\ sender[placements[p][i]] = p
    /\ \A j \in 1 .. Len(placements[p]) : i < j => placements[p][i] < placements[p][j]
    /\ \A t \in 1 .. tag :
         sender[t] = p /\ t \notin ToSet(placements[p]) => t < placements[p][i]

-----------------------------------------------------------------------------
(* The parts say where a message is.                                       *)
LEMMA PartsAreAll ==
  ASSUME NEW t,
         Somewhere(Placing(t), Waiting(t), Taken(t), Held(t), Returning(t), Ended(t))
  PROVE  Lone(Places(t))
<1>1. \A x : x \in Places(t) <=>
        \/ \E p \in Placing(t) : x = <<"placing", p>>
        \/ \E q \in Waiting(t) : x = <<"backlog", q>>
        \/ \E c \in Taken(t) : x = <<"taken", c>>
        \/ \E q \in Held(t) : x = <<"unsettled", q>>
        \/ \E c \in Returning(t) : x = <<"returning", c>>
        \/ \E e \in Ended(t) : x = <<e>>
  BY DEF Places, Placing, Waiting, Taken, Held, Returning, Ended
<1>2. CASE Lone(Placing(t)) /\ Waiting(t) = {} /\ Taken(t) = {} /\ Held(t) = {}
           /\ Returning(t) = {} /\ Ended(t) = {}
  <2>1. PICK y : Placing(t) = {y}
    BY <1>2 DEF Lone
  <2>2. \A x : x \in Places(t) <=> x = <<"placing", y>>
    BY <1>1, <1>2, <2>1
  <2>3. Places(t) = {<<"placing", y>>}
    BY <2>2
  <2>4. QED
    BY <2>3 DEF Lone
<1>3. CASE Placing(t) = {} /\ Lone(Waiting(t)) /\ Taken(t) = {} /\ Held(t) = {}
           /\ Returning(t) = {} /\ Ended(t) = {}
  <2>1. PICK y : Waiting(t) = {y}
    BY <1>3 DEF Lone
  <2>2. \A x : x \in Places(t) <=> x = <<"backlog", y>>
    BY <1>1, <1>3, <2>1
  <2>3. Places(t) = {<<"backlog", y>>}
    BY <2>2
  <2>4. QED
    BY <2>3 DEF Lone
<1>4. CASE Placing(t) = {} /\ Waiting(t) = {} /\ Lone(Taken(t)) /\ Held(t) = {}
           /\ Returning(t) = {} /\ Ended(t) = {}
  <2>1. PICK y : Taken(t) = {y}
    BY <1>4 DEF Lone
  <2>2. \A x : x \in Places(t) <=> x = <<"taken", y>>
    BY <1>1, <1>4, <2>1
  <2>3. Places(t) = {<<"taken", y>>}
    BY <2>2
  <2>4. QED
    BY <2>3 DEF Lone
<1>5. CASE Placing(t) = {} /\ Waiting(t) = {} /\ Taken(t) = {} /\ Lone(Held(t))
           /\ Returning(t) = {} /\ Ended(t) = {}
  <2>1. PICK y : Held(t) = {y}
    BY <1>5 DEF Lone
  <2>2. \A x : x \in Places(t) <=> x = <<"unsettled", y>>
    BY <1>1, <1>5, <2>1
  <2>3. Places(t) = {<<"unsettled", y>>}
    BY <2>2
  <2>4. QED
    BY <2>3 DEF Lone
<1>6. CASE Placing(t) = {} /\ Waiting(t) = {} /\ Taken(t) = {} /\ Held(t) = {}
           /\ Lone(Returning(t)) /\ Ended(t) = {}
  <2>1. PICK y : Returning(t) = {y}
    BY <1>6 DEF Lone
  <2>2. \A x : x \in Places(t) <=> x = <<"returning", y>>
    BY <1>1, <1>6, <2>1
  <2>3. Places(t) = {<<"returning", y>>}
    BY <2>2
  <2>4. QED
    BY <2>3 DEF Lone
<1>7. CASE Placing(t) = {} /\ Waiting(t) = {} /\ Taken(t) = {} /\ Held(t) = {}
           /\ Returning(t) = {} /\ Lone(Ended(t))
  <2>1. PICK y : Ended(t) = {y}
    BY <1>7 DEF Lone
  <2>2. \A x : x \in Places(t) <=> x = <<y>>
    BY <1>1, <1>7, <2>1
  <2>3. Places(t) = {<<y>>}
    BY <2>2
  <2>4. QED
    BY <2>3 DEF Lone
<1>8. QED
  BY <1>2, <1>3, <1>4, <1>5, <1>6, <1>7 DEF Somewhere

(* A message no part knows of has no place.                                *)
LEMMA PartsAreNone ==
  ASSUME NEW t,
         Nowhere(Placing(t), Waiting(t), Taken(t), Held(t), Returning(t), Ended(t))
  PROVE  Places(t) = {}
BY DEF Nowhere, Places, Placing, Waiting, Taken, Held, Returning, Ended

(* No copy is lost or doubled, and a delivery that is held is its holder's. *)
LEMMA InvariantMeans == BrokerInv => OnePlace /\ HeldByOne
<1> SUFFICES ASSUME BrokerInv PROVE OnePlace /\ HeldByOne
  OBVIOUS
<1>1. ASSUME NEW t \in Tags PROVE Cardinality(Places(t)) = IF t <= tag THEN 1 ELSE 0
  <2>1. Placed(t, tag)
    BY DEF BrokerInv
  <2>2. CASE t <= tag
    <3>1. Lone(Places(t))
      BY <2>1, <2>2, PartsAreAll DEF Placed
    <3>2. QED
      BY <2>2, <3>1, FS_Singleton DEF Lone
  <2>3. CASE ~(t <= tag)
    <3>1. Places(t) = {}
      BY <2>1, <2>3, PartsAreNone DEF Placed
    <3>2. QED
      BY <2>3, <3>1, FS_EmptySet
  <2>4. QED
    BY <2>2, <2>3
<1>2. OnePlace
  BY <1>1 DEF OnePlace, BrokerInv, Once
<1>3. HeldByOne
  BY DEF HeldByOne, BrokerInv, Engaged
<1>4. QED
  BY <1>2, <1>3

(* Nothing is anywhere at first.                                           *)
LEMMA BrokerInitial == Init => BrokerInv
<1> SUFFICES ASSUME Init PROVE BrokerInv
  OBVIOUS
<1>1. Typed
  <2>1. /\ bindings \in Seq(Bound) /\ Len(bindings) = 0
        /\ placements \in [Publishers -> Seq(Tags)] /\ backlog \in [Queues -> Seq(Tags)]
    BY DEF Init
  <2>2. tag \in 0 .. MaxTag /\ \A t \in Tags : ~(t <= tag)
    BY BrokerAssumption DEF Init, Tags
  <2>3. QED
    BY <2>1, <2>2 DEF Init, Typed, ConsumerStates
<1>2. Engaged
  BY DEF Init, Engaged
<1>3. Once
  BY DEF Init, Once, IsInjective
<1>4. ASSUME NEW t \in Tags PROVE Placed(t, tag)
  <2>1. t \in Nat /\ ~(t <= tag)
    BY BrokerAssumption DEF Tags, Init
  <2>2. Placing(t) = {} /\ Waiting(t) = {}
    BY DEF Init, Placing, Waiting, ToSet
  <2>3. Taken(t) = {} /\ Held(t) = {} /\ Returning(t) = {} /\ Ended(t) = {}
    BY DEF Init, Taken, Held, Returning, Ended
  <2>4. QED
    BY <2>1, <2>2, <2>3 DEF Placed, Nowhere
<1>5. QED
  BY <1>1, <1>2, <1>3, <1>4 DEF BrokerInv

-----------------------------------------------------------------------------
(* A message put at the end of a sequence it is not in.                    *)
LEMMA Joined ==
  ASSUME NEW q \in Seq(Tags), NEW t \in Tags
  PROVE  /\ Append(q, t) \in Seq(Tags)
         /\ ToSet(Append(q, t)) = ToSet(q) \cup {t}
         /\ t \notin ToSet(q) /\ IsInjective(q) => IsInjective(Append(q, t))
<1> DEFINE s == Append(q, t)
<1>1. /\ s \in Seq(Tags) /\ Len(s) = Len(q) + 1 /\ Len(q) \in Nat
      /\ \A i \in 1 .. Len(q) : s[i] = q[i]
      /\ s[Len(q) + 1] = t
  BY AppendProperties, LenProperties
<1>2. DOMAIN s = 1 .. Len(q) + 1 /\ DOMAIN q = 1 .. Len(q)
  BY <1>1, LenProperties
<1> HIDE DEF s
<1>3. ToSet(s) = ToSet(q) \cup {t}
  BY <1>1, <1>2 DEF ToSet
<1>4. ASSUME t \notin ToSet(q), IsInjective(q) PROVE IsInjective(s)
  <2> SUFFICES ASSUME NEW i \in DOMAIN s, NEW j \in DOMAIN s, s[i] = s[j] PROVE i = j
    BY DEF IsInjective
  <2>1. CASE i \in 1 .. Len(q) /\ j \in 1 .. Len(q)
    BY <1>1, <1>2, <1>4, <2>1 DEF IsInjective
  <2>2. \A k \in 1 .. Len(q) : s[k] # t
    BY <1>1, <1>2, <1>4 DEF ToSet
  <2>3. QED
    BY <1>1, <1>2, <2>1, <2>2
<1>5. QED
  BY <1>1, <1>3, <1>4 DEF s

(* The first of a sequence that holds everything once leaves it.           *)
LEMMA Left ==
  ASSUME NEW q \in Seq(Tags), q # <<>>
  PROVE  /\ Head(q) \in Tags /\ Tail(q) \in Seq(Tags) /\ Head(q) \in ToSet(q)
         /\ IsInjective(q) => /\ IsInjective(Tail(q))
                              /\ ToSet(Tail(q)) = ToSet(q) \ {Head(q)}
<1> DEFINE s == Tail(q)
<1>1. /\ s \in Seq(Tags) /\ Len(s) = Len(q) - 1 /\ Len(q) \in Nat /\ Len(q) > 0
      /\ \A i \in 1 .. Len(s) : s[i] = q[i + 1]
      /\ Head(q) = q[1] /\ Head(q) \in Tags
  BY HeadTailProperties, EmptySeq, LenProperties
<1>2. DOMAIN s = 1 .. Len(q) - 1 /\ DOMAIN q = 1 .. Len(q)
  BY <1>1, LenProperties
<1> HIDE DEF s
<1>3. Head(q) \in ToSet(q)
  BY <1>1, <1>2 DEF ToSet
<1>4. ASSUME IsInjective(q) PROVE IsInjective(s)
  BY <1>1, <1>2, <1>4, SMTT(20) DEF IsInjective
<1>5. ASSUME IsInjective(q) PROVE ToSet(s) = ToSet(q) \ {Head(q)}
  <2>1. ASSUME NEW x \in ToSet(s) PROVE x \in ToSet(q) /\ x # Head(q)
    <3>1. PICK i \in 1 .. Len(q) - 1 : x = q[i + 1]
      BY <1>1, <1>2 DEF ToSet
    <3>2. i + 1 \in DOMAIN q /\ 1 \in DOMAIN q /\ i + 1 # 1
      BY <1>1, <1>2
    <3>3. QED
      BY <1>1, <1>5, <3>1, <3>2 DEF ToSet, IsInjective
  <2>2. ASSUME NEW x \in ToSet(q), x # Head(q) PROVE x \in ToSet(s)
    <3>1. PICK i \in 1 .. Len(q) : x = q[i]
      BY <1>2 DEF ToSet
    <3>2. i - 1 \in 1 .. Len(q) - 1 /\ (i - 1) + 1 = i
      BY <1>1, <2>2, <3>1
    <3>3. s[i - 1] = x
      BY <1>1, <3>1, <3>2
    <3>4. QED
      BY <1>2, <3>2, <3>3 DEF ToSet
  <2>3. QED
    BY <2>1, <2>2
<1>6. QED
  BY <1>1, <1>3, <1>4, <1>5 DEF s

(* A copy nobody placed before waits, once, where it was routed.           *)
LEMMA Offered ==
  ASSUME BrokerInv, NEW u \in Tags, u <= tag, Waiting(u) = {}, offer(u)
  PROVE  /\ backlog' \in [Queues -> Seq(Tags)] /\ UNCHANGED dropped
         /\ \A q \in Queues : IsInjective(backlog'[q])
         /\ \A t : Waiting(t)' = IF t = u THEN {queueOf[u]} ELSE Waiting(t)
<1> DEFINE r == queueOf[u]
<1>1. r \in Queues /\ backlog \in [Queues -> Seq(Tags)]
  BY DEF BrokerInv, Typed
<1>2. backlog' = [backlog EXCEPT ![r] = Append(@, u)] /\ UNCHANGED dropped
  BY DEF offer
<1> HIDE DEF r
<1>3. backlog'[r] = Append(backlog[r], u) /\ \A q \in Queues \ {r} : backlog'[q] = backlog[q]
  BY <1>1, <1>2
<1>4. u \notin ToSet(backlog[r]) /\ \A q \in Queues : IsInjective(backlog[q])
  BY <1>1 DEF Waiting, BrokerInv, Once
<1>5. /\ backlog'[r] \in Seq(Tags) /\ ToSet(backlog'[r]) = ToSet(backlog[r]) \cup {u}
      /\ IsInjective(backlog'[r])
  BY <1>1, <1>3, <1>4, Joined
<1>6. \A q \in Queues : IsInjective(backlog'[q])
  BY <1>3, <1>4, <1>5
<1>7. backlog' \in [Queues -> Seq(Tags)]
  BY <1>1, <1>2, <1>5
<1>8. \A t : Waiting(t)' = IF t = u THEN {r} ELSE Waiting(t)
  BY <1>1, <1>3, <1>5 DEF Waiting
<1>9. QED
  BY <1>2, <1>6, <1>7, <1>8 DEF r

(* A step that moves no copy.                                              *)
LEMMA NothingMoves ==
  ASSUME BrokerInv, Typed', Engaged',
         UNCHANGED <<tag, placements, backlog, unsettled, acks, discards, dropped>>,
         \A t : Taken(t)' = Taken(t) /\ Returning(t)' = Returning(t)
  PROVE  BrokerInv'
<1>1. \A t : /\ Placing(t)' = Placing(t) /\ Waiting(t)' = Waiting(t)
             /\ Held(t)' = Held(t) /\ Ended(t)' = Ended(t)
  BY DEF Placing, Waiting, Held, Ended
<1>2. \A t \in Tags : Placed(t, tag)'
  BY <1>1 DEF BrokerInv, Placed
<1>3. QED
  BY <1>2 DEF BrokerInv, Once

(* Declaring: only what was declared is bound.                             *)
LEMMA Declares == ASSUME BrokerInv, NEW p \in Programs, Declare(p) PROVE BrokerInv'
<1> DEFINE d == Declarations[step[p] + 1]
<1>1. /\ UNCHANGED <<tag, queueOf, sender, placements, backlog, unsettled, at, source, hand,
                     redelivered, acks, discards, requeues, dropped>>
      /\ step[p] \in 0 .. Len(Declarations) - 1
      /\ \/ d.op = "exchange" /\ DeclareExchange(d)
         \/ d.op = "queue" /\ DeclareQueue(d)
         \/ d.op = "bind" /\ Bind(d)
         \/ UNCHANGED <<exchanges, queues, bindings>>
  BY DEF Declare, publishVars, consumerVars, outcomeVars
<1>2. step[p] + 1 \in 1 .. Len(Declarations)
  BY <1>1, TopologyAssumption
<1>3. /\ d.op = "queue" => d.queue \in Queues
      /\ [exchange |-> d.exchange, queue |-> d.queue, key |-> d.key] \in Bound
  BY <1>2, TopologyAssumption DEF Bound
<1> HIDE DEF d
<1>4. /\ queues \subseteq queues' /\ queues' \subseteq Queues
      /\ bindings' \in Seq(Bound)
      /\ \A n \in 1 .. Len(bindings') : bindings'[n].queue \in queues'
  <2>1. CASE UNCHANGED bindings /\ queues \subseteq queues' /\ queues' \subseteq Queues
    BY <2>1 DEF BrokerInv, Typed
  <2>2. CASE Bind(d)
    <3> DEFINE b == [exchange |-> d.exchange, queue |-> d.queue, key |-> d.key]
    <3>1. b.queue \in queues /\ bindings' = Append(bindings, b) /\ UNCHANGED queues
      BY <2>2 DEF Bind
    <3>2. b \in Bound /\ bindings \in Seq(Bound)
      BY <1>3 DEF BrokerInv, Typed
    <3> HIDE DEF b
    <3>3. /\ bindings' \in Seq(Bound) /\ Len(bindings') = Len(bindings) + 1
          /\ \A n \in 1 .. Len(bindings) : bindings'[n] = bindings[n]
          /\ bindings'[Len(bindings) + 1] = b /\ Len(bindings) \in Nat
      BY <3>1, <3>2, AppendProperties, LenProperties
    <3>4. QED
      BY <3>1, <3>3 DEF BrokerInv, Typed
  <2>3. QED
    BY <1>1, <1>3, <2>1, <2>2 DEF DeclareExchange, DeclareQueue, BrokerInv, Typed
<1>5. Typed'
  BY <1>1, <1>4 DEF BrokerInv, Typed
<1>6. Engaged'
  BY <1>1 DEF BrokerInv, Engaged
<1>7. \A t : Taken(t)' = Taken(t) /\ Returning(t)' = Returning(t)
  BY <1>1 DEF Taken, Returning
<1>8. QED
  BY <1>1, <1>5, <1>6, <1>7, NothingMoves

(* Subscribing.                                                            *)
LEMMA Consumes ==
  ASSUME BrokerInv, NEW c \in Consumers, NEW q \in Queues, Consume(c, q) PROVE BrokerInv'
<1>1. /\ UNCHANGED <<queues, bindings, tag, queueOf, sender, placements, backlog, unsettled,
                     hand, redelivered, acks, discards, dropped>>
      /\ at[c] = "idle" /\ at' = [at EXCEPT ![c] = "waiting"]
      /\ source' = [source EXCEPT ![c] = q]
  BY DEF Consume, topologyVars, publishVars, outcomeVars
<1>2. Typed'
  BY <1>1 DEF BrokerInv, Typed, ConsumerStates
<1>3. /\ at'[c] = "waiting" /\ source'[c] = q
      /\ \A d \in Consumers \ {c} : at'[d] = at[d] /\ source'[d] = source[d]
  BY <1>1 DEF BrokerInv, Typed
<1>4. Engaged'
  BY <1>1, <1>3 DEF BrokerInv, Engaged
<1>5. \A t : Taken(t)' = Taken(t) /\ Returning(t)' = Returning(t)
  BY <1>1, <1>3 DEF Taken, Returning
<1>6. QED
  BY <1>1, <1>2, <1>4, <1>5, NothingMoves

(* Closing gives nothing back.                                             *)
LEMMA Closes == ASSUME BrokerInv, NEW c \in Consumers, Close(c) PROVE BrokerInv'
<1>1. /\ UNCHANGED <<queues, bindings, tag, queueOf, sender, placements, backlog, unsettled,
                     source, hand, redelivered, acks, discards, dropped>>
      /\ at[c] \in {"waiting", "holding"} /\ at' = [at EXCEPT ![c] = "closed"]
  BY DEF Close, topologyVars, publishVars, outcomeVars
<1>2. Typed'
  BY <1>1 DEF BrokerInv, Typed, ConsumerStates
<1>3. at'[c] = "closed" /\ \A d \in Consumers \ {c} : at'[d] = at[d]
  BY <1>1 DEF BrokerInv, Typed
<1>4. Engaged'
  BY <1>1, <1>3 DEF BrokerInv, Engaged
<1>5. \A t : Taken(t)' = Taken(t) /\ Returning(t)' = Returning(t)
  BY <1>1, <1>3 DEF Taken, Returning
<1>6. QED
  BY <1>1, <1>2, <1>4, <1>5, NothingMoves

(* A sequence of consecutive tags.                                         *)
LEMMA Consecutive ==
  ASSUME NEW first \in Nat, NEW n \in Nat, first + n <= MaxTag
  PROVE  LET s == [i \in 1 .. n |-> first + i] IN
         s \in Seq(Tags) /\ Len(s) = n /\ IsInjective(s) /\ ToSet(s) = first + 1 .. first + n
<1> DEFINE s == [i \in 1 .. n |-> first + i]
<1>1. \A i \in 1 .. n : first + i \in Tags
  BY BrokerAssumption DEF Tags
<1>2. s \in [1 .. n -> Tags]
  BY <1>1
<1>3. s \in Seq(Tags) /\ Len(s) = n
  BY <1>2, SeqDef, LenProperties
<1>4. IsInjective(s)
  BY DEF IsInjective
<1>5. ASSUME NEW t \in first + 1 .. first + n PROVE t \in ToSet(s)
  <2>1. t - first \in 1 .. n /\ s[t - first] = t
    OBVIOUS
  <2>2. QED
    BY <2>1 DEF ToSet
<1>6. ToSet(s) \subseteq first + 1 .. first + n
  BY DEF ToSet
<1>7. QED
  BY <1>3, <1>4, <1>5, <1>6

(* Routing: a new tag, and a copy on its way, for every queue reached.     *)
LEMMA Routes ==
  ASSUME BrokerInv, NEW p \in Publishers, NEW target \in Targets, Publish(p, target)
  PROVE  /\ BrokerInv'
         /\ tag \in Nat /\ tag' \in Nat /\ tag <= tag'
         /\ placements'[p] = [i \in 1 .. tag' - tag |-> tag + i]
         /\ \A r \in Publishers \ {p} : placements'[r] = placements[r]
<1> DEFINE names == routeTargets(target)
           n == Len(names)
<1>1. names \in Seq(queues)
  <2>1. Len(bindings) \in Nat
    BY LenProperties DEF BrokerInv, Typed
  <2>2. QED
    BY <2>1, RoutesToQueues DEF BrokerInv, Typed, Publish
<1>2. n \in Nat /\ DOMAIN names = 1 .. n /\ \A i \in 1 .. n : names[i] \in Queues
  BY <1>1, LenProperties, ElementOfSeq DEF BrokerInv, Typed
<1>3. /\ placements[p] = <<>> /\ tag + n <= MaxTag /\ tag' = tag + n
      /\ placements' = [placements EXCEPT ![p] = [i \in 1 .. n |-> tag + i]]
      /\ queueOf' = [t \in Tags |-> IF t \in tag + 1 .. tag' THEN names[t - tag] ELSE queueOf[t]]
      /\ sender' = [t \in Tags |-> IF t \in tag + 1 .. tag' THEN p ELSE sender[t]]
      /\ UNCHANGED <<queues, bindings, backlog, unsettled, at, source, hand,
                     redelivered, acks, discards, dropped>>
  BY <1>2 DEF Publish, topologyVars, consumerVars, outcomeVars
<1> HIDE DEF names, n
<1>4. tag \in Nat /\ tag' \in Nat /\ tag <= tag' /\ tag' \in 0 .. MaxTag
  BY <1>2, <1>3, BrokerAssumption DEF BrokerInv, Typed
<1>5. /\ placements'[p] \in Seq(Tags) /\ IsInjective(placements'[p])
      /\ ToSet(placements'[p]) = tag + 1 .. tag'
      /\ placements'[p] = [i \in 1 .. n |-> tag + i]
      /\ \A r \in Publishers \ {p} : placements'[r] = placements[r]
  <2>1. placements'[p] = [i \in 1 .. n |-> tag + i]
    BY <1>3 DEF BrokerInv, Typed
  <2>2. QED
    BY <1>2, <1>3, <1>4, <2>1, Consecutive DEF BrokerInv, Typed
<1>6. Typed'
  <2>1. placements' \in [Publishers -> Seq(Tags)]
    BY <1>3, <1>5 DEF BrokerInv, Typed
  <2>2. \A t \in Tags : t \in tag + 1 .. tag' => t - tag \in 1 .. n /\ queueOf'[t] \in Queues
    <3> SUFFICES ASSUME NEW t \in Tags, t \in tag + 1 .. tag'
                 PROVE  t - tag \in 1 .. n /\ queueOf'[t] \in Queues
      OBVIOUS
    <3>1. t - tag \in 1 .. n
      BY <1>2, <1>3, <1>4
    <3>2. QED
      BY <1>2, <1>3, <3>1
  <2>3. \A t \in Tags : t \notin tag + 1 .. tag' => queueOf'[t] = queueOf[t]
    BY <1>3
  <2>4. queueOf' \in [Tags -> Queues \cup {NoQueue}]
    BY <1>3, <2>2, <2>3 DEF BrokerInv, Typed
  <2>5. \A t \in Tags : t <= tag' => queueOf'[t] \in Queues
    BY <1>4, <2>2, <2>3, BrokerAssumption DEF BrokerInv, Typed, Tags
  <2>6. DOMAIN sender' = Tags
    BY <1>3
  <2>7. QED
    BY <1>3, <1>4, <2>1, <2>4, <2>5, <2>6 DEF BrokerInv, Typed
<1>7. Engaged'
  BY <1>3 DEF BrokerInv, Engaged
<1>8. Once'
  BY <1>3, <1>5 DEF BrokerInv, Once
<1>9. \A t : /\ Waiting(t)' = Waiting(t) /\ Taken(t)' = Taken(t) /\ Held(t)' = Held(t)
             /\ Returning(t)' = Returning(t) /\ Ended(t)' = Ended(t)
  BY <1>3 DEF Waiting, Taken, Held, Returning, Ended
<1>10. \A t : Placing(t)' = IF t \in tag + 1 .. tag' THEN Placing(t) \cup {p} ELSE Placing(t)
  <2>1. ToSet(placements[p]) = {}
    BY <1>3 DEF ToSet
  <2>2. QED
    BY <1>5, <2>1 DEF Placing
<1>11. ASSUME NEW t \in Tags PROVE Placed(t, tag)'
  <2>1. t \in Nat /\ Placed(t, tag)
    BY BrokerAssumption DEF BrokerInv, Tags
  <2>2. CASE t \in tag + 1 .. tag'
    <3>1. ~(t <= tag) /\ t <= tag'
      BY <1>4, <2>2
    <3>2. Nowhere(Placing(t), Waiting(t), Taken(t), Held(t), Returning(t), Ended(t))
      BY <2>1, <3>1 DEF Placed
    <3>3. Placing(t)' = {p}
      BY <1>10, <2>2, <3>2 DEF Nowhere
    <3>4. QED
      BY <1>9, <3>1, <3>2, <3>3 DEF Placed, Nowhere, Somewhere, Lone
  <2>3. CASE t \notin tag + 1 .. tag'
    <3>1. t <= tag' <=> t <= tag
      BY <1>4, <2>1, <2>3
    <3>2. QED
      BY <1>9, <1>10, <2>1, <2>3, <3>1 DEF Placed
  <2>4. QED
    BY <2>2, <2>3
<1>12. BrokerInv'
  BY <1>6, <1>7, <1>8, <1>11 DEF BrokerInv
<1>13. n = tag' - tag
  BY <1>2, <1>3, <1>4
<1>14. QED
  BY <1>4, <1>5, <1>12, <1>13

(* What a publisher is about to place.                                     *)
LEMMA NextCopy ==
  ASSUME BrokerInv, NEW p \in Publishers, NEW u \in ToSet(placements[p])
  PROVE  /\ u \in Tags /\ u <= tag /\ Placing(u) = {p}
         /\ Waiting(u) = {} /\ Taken(u) = {} /\ Held(u) = {} /\ Returning(u) = {} /\ Ended(u) = {}
<1>1. u \in Tags
  <2>1. placements[p] \in Seq(Tags)
    BY DEF BrokerInv, Typed
  <2>2. QED
    BY <2>1, LenProperties, ElementOfSeq DEF ToSet
<1>2. p \in Placing(u) /\ Placed(u, tag)
  BY <1>1 DEF Placing, BrokerInv
<1>3. QED
  BY <1>1, <1>2 DEF Placed, Somewhere, Nowhere, Lone

(* Placing one copy.                                                       *)
LEMMA PlacesNext == ASSUME BrokerInv, NEW p \in Publishers, PlaceNext(p) PROVE BrokerInv'
<1> DEFINE u == Head(placements[p])
<1>1. /\ placements[p] # <<>> /\ offer(u)
      /\ placements' = [placements EXCEPT ![p] = Tail(@)]
      /\ UNCHANGED <<queues, bindings, tag, queueOf, sender, unsettled, at, source, hand,
                     redelivered, acks, discards>>
  BY DEF PlaceNext, topologyVars, consumerVars, outcomeVars
<1>2. /\ u \in ToSet(placements[p]) /\ placements'[p] \in Seq(Tags)
      /\ IsInjective(placements'[p]) /\ ToSet(placements'[p]) = ToSet(placements[p]) \ {u}
      /\ \A r \in Publishers \ {p} : placements'[r] = placements[r]
  BY <1>1, Left DEF BrokerInv, Typed, Once
<1> HIDE DEF u
<1>3. /\ u \in Tags /\ u <= tag /\ Placing(u) = {p} /\ Waiting(u) = {} /\ Taken(u) = {}
      /\ Held(u) = {} /\ Returning(u) = {} /\ Ended(u) = {}
  BY <1>2, NextCopy
<1>4. /\ backlog' \in [Queues -> Seq(Tags)] /\ UNCHANGED dropped
      /\ \A q \in Queues : IsInjective(backlog'[q])
      /\ \A t : Waiting(t)' = IF t = u THEN {queueOf[u]} ELSE Waiting(t)
  BY <1>1, <1>3, Offered
<1>5. Typed'
  BY <1>1, <1>2, <1>4 DEF BrokerInv, Typed
<1>6. Engaged'
  BY <1>1 DEF BrokerInv, Engaged
<1>7. Once'
  BY <1>2, <1>4 DEF BrokerInv, Once
<1>8. \A t : /\ Taken(t)' = Taken(t) /\ Held(t)' = Held(t)
             /\ Returning(t)' = Returning(t) /\ Ended(t)' = Ended(t)
  BY <1>1, <1>4 DEF Taken, Held, Returning, Ended
<1>9. \A t : Placing(t)' = IF t = u THEN Placing(t) \ {p} ELSE Placing(t)
  BY <1>2 DEF Placing
<1>10. ASSUME NEW t \in Tags PROVE Placed(t, tag)'
  <2>1. CASE t = u
    BY <1>1, <1>3, <1>4, <1>8, <1>9, <2>1 DEF Placed, Somewhere, Lone
  <2>2. CASE t # u
    BY <1>1, <1>4, <1>8, <1>9, <2>2 DEF BrokerInv, Placed
  <2>3. QED
    BY <2>1, <2>2
<1>11. QED
  BY <1>5, <1>6, <1>7, <1>10 DEF BrokerInv

(* A full queue: this copy and the ones after it are not made.             *)
LEMMA PlacingFails == ASSUME BrokerInv, NEW p \in Publishers, PlaceFails(p) PROVE BrokerInv'
<1> DEFINE U == ToSet(placements[p])
<1>1. /\ dropped' = dropped \cup U /\ placements' = [placements EXCEPT ![p] = <<>>]
      /\ UNCHANGED <<queues, bindings, tag, queueOf, sender, backlog, unsettled, at, source,
                     hand, redelivered, acks, discards>>
  BY DEF PlaceFails, topologyVars, consumerVars, outcomeVars
<1>2. /\ placements'[p] = <<>> /\ ToSet(placements'[p]) = {}
      /\ placements'[p] \in Seq(Tags) /\ IsInjective(placements'[p])
      /\ \A r \in Publishers \ {p} : placements'[r] = placements[r]
  BY <1>1 DEF BrokerInv, Typed, ToSet, IsInjective
<1>3. \A t \in U : /\ t \in Tags /\ t <= tag /\ Placing(t) = {p} /\ Waiting(t) = {}
                   /\ Taken(t) = {} /\ Held(t) = {} /\ Returning(t) = {} /\ Ended(t) = {}
  BY NextCopy
<1>4. Typed'
  BY <1>1, <1>2 DEF BrokerInv, Typed
<1>5. Engaged'
  BY <1>1 DEF BrokerInv, Engaged
<1>6. Once'
  BY <1>1, <1>2 DEF BrokerInv, Once
<1>7. \A t : /\ Waiting(t)' = Waiting(t) /\ Taken(t)' = Taken(t) /\ Held(t)' = Held(t)
             /\ Returning(t)' = Returning(t)
  BY <1>1 DEF Waiting, Taken, Held, Returning
<1>8. \A t : Placing(t)' = IF t \in U THEN Placing(t) \ {p} ELSE Placing(t)
  BY <1>2 DEF Placing
<1>9. \A t : Ended(t)' = IF t \in U THEN Ended(t) \cup {"dropped"} ELSE Ended(t)
  BY <1>1 DEF Ended
<1> HIDE DEF U
<1>10. ASSUME NEW t \in Tags PROVE Placed(t, tag)'
  <2>1. CASE t \in U
    BY <1>1, <1>3, <1>7, <1>8, <1>9, <2>1 DEF Placed, Somewhere, Lone
  <2>2. CASE t \notin U
    BY <1>1, <1>7, <1>8, <1>9, <2>2 DEF BrokerInv, Placed
  <2>3. QED
    BY <2>1, <2>2
<1>11. QED
  BY <1>4, <1>5, <1>6, <1>10 DEF BrokerInv

(* A copy on a queue is in nobody's hand.                                  *)
LEMMA NobodyHas ==
  ASSUME BrokerInv, NEW q \in Queues, NEW u \in ToSet(backlog[q])
  PROVE  /\ u \in Tags /\ u <= tag /\ Waiting(u) = {q} /\ \A c \in Consumers : hand[c] # u
         /\ Placing(u) = {} /\ Taken(u) = {} /\ Held(u) = {} /\ Returning(u) = {} /\ Ended(u) = {}
<1>1. u \in Tags
  <2>1. backlog[q] \in Seq(Tags)
    BY DEF BrokerInv, Typed
  <2>2. QED
    BY <2>1, LenProperties, ElementOfSeq DEF ToSet
<1>2. q \in Waiting(u) /\ Placed(u, tag)
  BY <1>1 DEF Waiting, BrokerInv
<1>3. /\ u <= tag /\ Waiting(u) = {q} /\ Placing(u) = {} /\ Taken(u) = {}
      /\ Held(u) = {} /\ Returning(u) = {} /\ Ended(u) = {}
  BY <1>2 DEF Placed, Somewhere, Nowhere, Lone
<1>4. ASSUME NEW c \in Consumers, hand[c] = u PROVE FALSE
  <2>1. u # NoTag
    BY <1>1, BrokerAssumption DEF Tags
  <2>2. at[c] \in {"taken", "holding", "returning", "closed"} /\ source[c] \in Queues
    BY <1>4, <2>1 DEF BrokerInv, Typed, Engaged, ConsumerStates
  <2>3. at[c] \in {"holding", "closed"} => source[c] \in Held(u)
    BY <1>4, <2>1, <2>2 DEF BrokerInv, Engaged, Held
  <2>4. at[c] = "taken" => c \in Taken(u)
    BY <1>4 DEF Taken
  <2>5. at[c] = "returning" => c \in Returning(u)
    BY <1>4 DEF Returning
  <2>6. QED
    BY <1>3, <2>2, <2>3, <2>4, <2>5
<1>5. QED
  BY <1>1, <1>3, <1>4

(* Taking from the backlog.                                                *)
LEMMA Takes == ASSUME BrokerInv, NEW c \in Consumers, Take(c) PROVE BrokerInv'
<1> DEFINE q == source[c]
           u == Head(backlog[q])
<1>1. /\ at[c] = "waiting" /\ backlog[q] # <<>>
      /\ hand' = [hand EXCEPT ![c] = u] /\ backlog' = [backlog EXCEPT ![q] = Tail(@)]
      /\ at' = [at EXCEPT ![c] = "taken"]
      /\ UNCHANGED <<queues, bindings, tag, queueOf, sender, placements, unsettled, source,
                     redelivered, acks, discards, dropped>>
  BY DEF Take, topologyVars, publishVars, outcomeVars
<1>2. q \in Queues
  BY <1>1 DEF BrokerInv, Engaged
<1>3. /\ u \in ToSet(backlog[q]) /\ backlog'[q] \in Seq(Tags) /\ IsInjective(backlog'[q])
      /\ ToSet(backlog'[q]) = ToSet(backlog[q]) \ {u}
      /\ \A r \in Queues \ {q} : backlog'[r] = backlog[r]
  BY <1>1, <1>2, Left DEF BrokerInv, Typed, Once
<1> HIDE DEF q, u
<1>4. /\ u \in Tags /\ u <= tag /\ Waiting(u) = {q} /\ \A d \in Consumers : hand[d] # u
      /\ Placing(u) = {} /\ Taken(u) = {} /\ Held(u) = {} /\ Returning(u) = {} /\ Ended(u) = {}
  BY <1>2, <1>3, NobodyHas
<1>5. /\ at'[c] = "taken" /\ hand'[c] = u
      /\ \A d \in Consumers \ {c} : at'[d] = at[d] /\ hand'[d] = hand[d]
  BY <1>1 DEF BrokerInv, Typed
<1>6. Typed'
  BY <1>1, <1>2, <1>3, <1>4 DEF BrokerInv, Typed, ConsumerStates
<1>7. Engaged'
  <2>1. u # NoTag
    BY <1>4, BrokerAssumption DEF Tags
  <2>2. QED
    BY <1>1, <1>2, <1>4, <1>5, <2>1 DEF BrokerInv, Engaged, q
<1>8. Once'
  BY <1>1, <1>3 DEF BrokerInv, Once
<1>9. \A t : /\ Placing(t)' = Placing(t) /\ Held(t)' = Held(t) /\ Ended(t)' = Ended(t)
  BY <1>1 DEF Placing, Held, Ended
<1>10. \A t : Waiting(t)' = IF t = u THEN Waiting(t) \ {q} ELSE Waiting(t)
  BY <1>3 DEF Waiting
<1>11. \A t \in Tags : /\ Taken(t)' = IF t = u THEN Taken(t) \cup {c} ELSE Taken(t)
                       /\ Returning(t)' = Returning(t)
  BY <1>1, <1>5 DEF Taken, Returning
<1>12. ASSUME NEW t \in Tags PROVE Placed(t, tag)'
  <2>1. CASE t = u
    BY <1>1, <1>4, <1>9, <1>10, <1>11, <2>1 DEF Placed, Somewhere, Lone
  <2>2. CASE t # u
    BY <1>1, <1>9, <1>10, <1>11, <2>2 DEF BrokerInv, Placed
  <2>3. QED
    BY <2>1, <2>2
<1>13. QED
  BY <1>6, <1>7, <1>8, <1>12 DEF BrokerInv

(* Recording what was taken.                                               *)
LEMMA Records == ASSUME BrokerInv, NEW c \in Consumers, Record(c) PROVE BrokerInv'
<1> DEFINE q == source[c]
           u == hand[c]
<1>1. /\ at[c] = "taken" /\ unsettled' = [unsettled EXCEPT ![q] = @ \cup {u}]
      /\ at' = [at EXCEPT ![c] = "holding"]
      /\ UNCHANGED <<queues, bindings, tag, queueOf, sender, placements, backlog, source, hand,
                     redelivered, acks, discards, dropped>>
  BY DEF Record, topologyVars, publishVars, outcomeVars
<1>2. q \in Queues /\ u \in Tags
  BY <1>1 DEF BrokerInv, Typed, Engaged
<1>3. /\ u <= tag /\ Placing(u) = {} /\ Waiting(u) = {} /\ Taken(u) = {c}
      /\ Held(u) = {} /\ Returning(u) = {} /\ Ended(u) = {}
  <2>1. c \in Taken(u) /\ Placed(u, tag)
    BY <1>1, <1>2 DEF Taken, BrokerInv
  <2>2. QED
    BY <2>1 DEF Placed, Somewhere, Nowhere, Lone
<1>4. /\ at'[c] = "holding" /\ \A d \in Consumers \ {c} : at'[d] = at[d]
      /\ unsettled'[q] = unsettled[q] \cup {u}
      /\ \A r \in Queues \ {q} : unsettled'[r] = unsettled[r]
  BY <1>1, <1>2 DEF BrokerInv, Typed
<1>5. Typed'
  BY <1>1, <1>2 DEF BrokerInv, Typed, ConsumerStates
<1>6. Engaged'
  <2>1. \A r \in Queues : unsettled[r] \subseteq unsettled'[r]
    BY <1>4
  <2>2. QED
    BY <1>1, <1>2, <1>4, <2>1 DEF BrokerInv, Engaged
<1> HIDE DEF q, u
<1>7. Once'
  BY <1>1 DEF BrokerInv, Once
<1>8. \A t : /\ Placing(t)' = Placing(t) /\ Waiting(t)' = Waiting(t) /\ Ended(t)' = Ended(t)
  BY <1>1 DEF Placing, Waiting, Ended
<1>9. \A t : Held(t)' = IF t = u THEN Held(t) \cup {q} ELSE Held(t)
  BY <1>2, <1>4 DEF Held
<1>10. \A t : /\ Taken(t)' = IF t = u THEN Taken(t) \ {c} ELSE Taken(t)
              /\ Returning(t)' = Returning(t)
  BY <1>1, <1>4 DEF Taken, Returning, u
<1>11. ASSUME NEW t \in Tags PROVE Placed(t, tag)'
  <2>1. CASE t = u
    BY <1>1, <1>3, <1>8, <1>9, <1>10, <2>1 DEF Placed, Somewhere, Lone
  <2>2. CASE t # u
    BY <1>1, <1>8, <1>9, <1>10, <2>2 DEF BrokerInv, Placed
  <2>3. QED
    BY <2>1, <2>2
<1>12. QED
  BY <1>5, <1>6, <1>7, <1>11 DEF BrokerInv

(* What settle does under the lock, for each of the three outcomes.        *)
LEMMA Settled ==
  ASSUME BrokerInv, NEW c \in Consumers, NEW next \in {"waiting", "returning"}, settle(c, next)
  PROVE  /\ hand[c] \in Tags /\ hand[c] <= tag
         /\ Placing(hand[c]) = {} /\ Waiting(hand[c]) = {} /\ Taken(hand[c]) = {}
         /\ Held(hand[c]) = {source[c]} /\ Returning(hand[c]) = {} /\ Ended(hand[c]) = {}
         /\ unsettled' \in [Queues -> SUBSET Tags]
         /\ \A t : Held(t)' = IF t = hand[c] THEN {} ELSE Held(t)
         /\ at' \in [Consumers -> ConsumerStates]
         /\ at'[c] = next /\ \A d \in Consumers \ {c} : at'[d] = at[d]
         /\ source[c] \in Queues
         /\ \A d \in Consumers \ {c} : hand[d] # hand[c]
         /\ \A q \in Queues : unsettled[q] \ {hand[c]} \subseteq unsettled'[q]
<1> DEFINE q == source[c]
           u == hand[c]
<1>1. /\ at[c] = "holding" /\ u \in unsettled[q]
      /\ unsettled' = [unsettled EXCEPT ![q] = @ \ {u}]
      /\ at' = [at EXCEPT ![c] = next]
  BY DEF settle
<1>2. q \in Queues /\ u \in Tags /\ u # NoTag
  BY <1>1, BrokerAssumption DEF BrokerInv, Typed, Engaged, Tags
<1>3. \A d \in Consumers \ {c} : hand[d] # u
  BY <1>2 DEF BrokerInv, Engaged
<1>4. /\ at' \in [Consumers -> ConsumerStates]
      /\ at'[c] = next /\ \A d \in Consumers \ {c} : at'[d] = at[d]
  BY <1>1 DEF BrokerInv, Typed, ConsumerStates
<1>5. /\ unsettled' \in [Queues -> SUBSET Tags]
      /\ unsettled'[q] = unsettled[q] \ {u}
      /\ \A r \in Queues \ {q} : unsettled'[r] = unsettled[r]
  BY <1>1, <1>2 DEF BrokerInv, Typed
<1> HIDE DEF q, u
<1>6. /\ u <= tag /\ Placing(u) = {} /\ Waiting(u) = {} /\ Taken(u) = {}
      /\ Held(u) = {q} /\ Returning(u) = {} /\ Ended(u) = {}
  <2>1. q \in Held(u) /\ Placed(u, tag)
    BY <1>1, <1>2 DEF Held, BrokerInv
  <2>2. QED
    BY <2>1 DEF Placed, Somewhere, Nowhere, Lone
<1>7. \A t : Held(t)' = IF t = u THEN Held(t) \ {q} ELSE Held(t)
  BY <1>2, <1>5 DEF Held
<1>8. \A r \in Queues : unsettled[r] \ {u} \subseteq unsettled'[r]
  BY <1>5
<1>9. QED
  BY <1>2, <1>3, <1>4, <1>5, <1>6, <1>7, <1>8 DEF q, u

(* Accepting and discarding end a copy.                                    *)
LEMMA Ends ==
  ASSUME BrokerInv, NEW c \in Consumers, Ack(c) \/ Discard(c)
  PROVE  BrokerInv'
<1> DEFINE u == hand[c]
<1>1. /\ settle(c, "waiting") /\ hand' = [hand EXCEPT ![c] = NoTag]
      /\ \/ acks' = [acks EXCEPT ![u] = @ + 1] /\ UNCHANGED discards
         \/ discards' = [discards EXCEPT ![u] = @ + 1] /\ UNCHANGED acks
      /\ UNCHANGED <<queues, bindings, tag, queueOf, sender, placements, backlog, source,
                     redelivered, dropped>>
  BY DEF Ack, Discard, topologyVars, publishVars
<1>2. /\ u \in Tags /\ u <= tag /\ Placing(u) = {} /\ Waiting(u) = {} /\ Taken(u) = {}
      /\ Held(u) = {source[c]} /\ Returning(u) = {} /\ Ended(u) = {}
      /\ unsettled' \in [Queues -> SUBSET Tags]
      /\ \A t : Held(t)' = IF t = u THEN {} ELSE Held(t)
      /\ at' \in [Consumers -> ConsumerStates]
      /\ at'[c] = "waiting" /\ \A d \in Consumers \ {c} : at'[d] = at[d]
      /\ source[c] \in Queues
      /\ \A d \in Consumers \ {c} : hand[d] # u
      /\ \A q \in Queues : unsettled[q] \ {u} \subseteq unsettled'[q]
  BY <1>1, Settled
<1>3. hand'[c] = NoTag /\ \A d \in Consumers \ {c} : hand'[d] = hand[d]
  BY <1>1 DEF BrokerInv, Typed
<1>4. /\ acks' \in [Tags -> Nat] /\ discards' \in [Tags -> Nat]
      /\ \E x \in {"accepted", "discarded"} :
           \A t \in Tags : Ended(t)' = IF t = u THEN Ended(t) \cup {x} ELSE Ended(t)
  <2> HIDE DEF u
  <2>1. CASE acks' = [acks EXCEPT ![u] = @ + 1] /\ UNCHANGED discards
    <3>1. /\ acks' \in [Tags -> Nat] /\ acks'[u] > 0
          /\ \A t \in Tags \ {u} : acks'[t] = acks[t]
      BY <1>2, <2>1 DEF BrokerInv, Typed
    <3>2. \A t \in Tags : Ended(t)' = IF t = u THEN Ended(t) \cup {"accepted"} ELSE Ended(t)
      BY <1>1, <2>1, <3>1 DEF Ended
    <3>3. QED
      BY <2>1, <3>1, <3>2 DEF BrokerInv, Typed
  <2>2. CASE discards' = [discards EXCEPT ![u] = @ + 1] /\ UNCHANGED acks
    <3>1. /\ discards' \in [Tags -> Nat] /\ discards'[u] > 0
          /\ \A t \in Tags \ {u} : discards'[t] = discards[t]
      BY <1>2, <2>2 DEF BrokerInv, Typed
    <3>2. \A t \in Tags : Ended(t)' = IF t = u THEN Ended(t) \cup {"discarded"} ELSE Ended(t)
      BY <1>1, <2>2, <3>1 DEF Ended
    <3>3. QED
      BY <2>2, <3>1, <3>2 DEF BrokerInv, Typed
  <2>3. QED
    BY <1>1, <2>1, <2>2 DEF u
<1>5. Typed'
  BY <1>1, <1>2, <1>4 DEF BrokerInv, Typed
<1>6. Engaged'
  BY <1>1, <1>2, <1>3 DEF BrokerInv, Engaged
<1>7. Once'
  BY <1>1 DEF BrokerInv, Once
<1>8. \A t : /\ Placing(t)' = Placing(t) /\ Waiting(t)' = Waiting(t)
  BY <1>1 DEF Placing, Waiting
<1>9. \A t \in Tags : Taken(t)' = Taken(t) /\ Returning(t)' = Returning(t)
  <2>1. at[c] = "holding"
    BY <1>1 DEF settle
  <2>2. QED
    BY <1>2, <1>3, <2>1 DEF Taken, Returning
<1> HIDE DEF u
<1>10. ASSUME NEW t \in Tags PROVE Placed(t, tag)'
  <2>1. CASE t = u
    <3>1. PICK x : Ended(t)' = Ended(t) \cup {x}
      BY <1>4, <2>1
    <3>2. Ended(t)' = {x}
      BY <1>2, <2>1, <3>1
    <3>3. Lone(Ended(t)')
      BY <3>2 DEF Lone
    <3>4. QED
      BY <1>1, <1>2, <1>8, <1>9, <2>1, <3>3 DEF Placed, Somewhere
  <2>2. CASE t # u
    BY <1>1, <1>2, <1>4, <1>8, <1>9, <2>2 DEF BrokerInv, Placed
  <2>3. QED
    BY <2>1, <2>2
<1>11. QED
  BY <1>5, <1>6, <1>7, <1>10 DEF BrokerInv

(* Requeue's first half: the copy is the consumer's to put back.           *)
LEMMA Requeues == ASSUME BrokerInv, NEW c \in Consumers, Requeue(c) PROVE BrokerInv'
<1> DEFINE u == hand[c]
<1>1. /\ settle(c, "returning") /\ redelivered' = redelivered \cup {u}
      /\ UNCHANGED <<queues, bindings, tag, queueOf, sender, placements, backlog, source,
                     hand, acks, discards, dropped>>
  BY DEF Requeue, topologyVars, publishVars
<1>2. /\ u \in Tags /\ u <= tag /\ Placing(u) = {} /\ Waiting(u) = {} /\ Taken(u) = {}
      /\ Held(u) = {source[c]} /\ Returning(u) = {} /\ Ended(u) = {}
      /\ unsettled' \in [Queues -> SUBSET Tags]
      /\ \A t : Held(t)' = IF t = u THEN {} ELSE Held(t)
      /\ at' \in [Consumers -> ConsumerStates]
      /\ at'[c] = "returning" /\ \A d \in Consumers \ {c} : at'[d] = at[d]
      /\ source[c] \in Queues
      /\ \A d \in Consumers \ {c} : hand[d] # u
      /\ \A q \in Queues : unsettled[q] \ {u} \subseteq unsettled'[q]
  BY <1>1, Settled
<1>3. Typed'
  BY <1>1, <1>2 DEF BrokerInv, Typed
<1>4. Engaged'
  <2>1. u # NoTag
    BY <1>2, BrokerAssumption DEF Tags
  <2>2. QED
    BY <1>1, <1>2, <2>1 DEF BrokerInv, Engaged
<1>5. Once'
  BY <1>1 DEF BrokerInv, Once
<1>6. \A t : /\ Placing(t)' = Placing(t) /\ Waiting(t)' = Waiting(t) /\ Ended(t)' = Ended(t)
  BY <1>1 DEF Placing, Waiting, Ended
<1>7. \A t : /\ Taken(t)' = Taken(t)
             /\ Returning(t)' = IF t = u THEN Returning(t) \cup {c} ELSE Returning(t)
  <2>1. at[c] = "holding"
    BY <1>1 DEF settle
  <2>2. QED
    BY <1>1, <1>2, <2>1 DEF Taken, Returning
<1> HIDE DEF u
<1>8. ASSUME NEW t \in Tags PROVE Placed(t, tag)'
  <2>1. CASE t = u
    BY <1>1, <1>2, <1>6, <1>7, <2>1, SMTT(20) DEF Placed, Somewhere, Lone
  <2>2. CASE t # u
    BY <1>1, <1>2, <1>6, <1>7, <2>2 DEF BrokerInv, Placed
  <2>3. QED
    BY <2>1, <2>2
<1>9. QED
  BY <1>3, <1>4, <1>5, <1>8 DEF BrokerInv

(* What a consumer is about to put back.                                   *)
LEMMA ToPutBack ==
  ASSUME BrokerInv, NEW c \in Consumers, at[c] = "returning"
  PROVE  /\ hand[c] \in Tags /\ hand[c] <= tag /\ hand[c] \in redelivered
         /\ Placing(hand[c]) = {} /\ Waiting(hand[c]) = {} /\ Taken(hand[c]) = {}
         /\ Held(hand[c]) = {} /\ Returning(hand[c]) = {c} /\ Ended(hand[c]) = {}
<1>1. hand[c] \in Tags /\ hand[c] \in redelivered
  BY DEF BrokerInv, Typed, Engaged
<1>2. c \in Returning(hand[c]) /\ Placed(hand[c], tag)
  BY <1>1 DEF Returning, BrokerInv
<1>3. QED
  BY <1>1, <1>2 DEF Placed, Somewhere, Nowhere, Lone

(* Requeue's second half, whether the queue has room or not.               *)
LEMMA PutsBack ==
  ASSUME BrokerInv, NEW c \in Consumers, PutBack(c) \/ PutBackFails(c) PROVE BrokerInv'
<1>1. PICK u \in Tags : u = hand[c]
  BY ToPutBack DEF PutBack, PutBackFails
<1>2. /\ at[c] = "returning" /\ hand' = [hand EXCEPT ![c] = NoTag]
      /\ \E next \in {"waiting", "closed"} : at' = [at EXCEPT ![c] = next]
      /\ UNCHANGED <<queues, bindings, tag, queueOf, sender, placements, unsettled, source,
                     redelivered, acks, discards>>
      /\ \/ offer(u)
         \/ dropped' = dropped \cup {u} /\ UNCHANGED backlog
  BY <1>1 DEF PutBack, PutBackFails, topologyVars, publishVars, outcomeVars
<1>3. /\ u \in Tags /\ u <= tag /\ Placing(u) = {} /\ Waiting(u) = {} /\ Taken(u) = {}
      /\ Held(u) = {} /\ Returning(u) = {c} /\ Ended(u) = {}
  BY <1>1, <1>2, ToPutBack
<1>4. /\ hand'[c] = NoTag /\ \A d \in Consumers \ {c} : hand'[d] = hand[d] /\ at'[d] = at[d]
      /\ at'[c] \in {"waiting", "closed"} /\ at' \in [Consumers -> ConsumerStates]
  BY <1>2 DEF BrokerInv, Typed, ConsumerStates
<1>5. /\ backlog' \in [Queues -> Seq(Tags)]
      /\ \A q \in Queues : IsInjective(backlog'[q])
      /\ \A t \in Tags \ {u} : Waiting(t)' = Waiting(t) /\ Ended(t)' = Ended(t)
      /\ \/ Lone(Waiting(u)') /\ Ended(u)' = {}
         \/ Waiting(u)' = {} /\ Lone(Ended(u)')
  <2>1. CASE offer(u)
    <3>1. /\ backlog' \in [Queues -> Seq(Tags)] /\ UNCHANGED dropped
          /\ \A q \in Queues : IsInjective(backlog'[q])
          /\ \A t : Waiting(t)' = IF t = u THEN {queueOf[u]} ELSE Waiting(t)
      BY <1>3, <2>1, Offered
    <3>2. \A t : Ended(t)' = Ended(t)
      BY <1>2, <3>1 DEF Ended
    <3>3. Lone(Waiting(u)') /\ Ended(u)' = {}
      BY <1>3, <3>1, <3>2 DEF Lone
    <3>4. QED
      BY <3>1, <3>2, <3>3
  <2>2. CASE dropped' = dropped \cup {u} /\ UNCHANGED backlog
    <3>1. \A t : Waiting(t)' = Waiting(t)
      BY <2>2 DEF Waiting
    <3>2. \A t : Ended(t)' = IF t = u THEN Ended(t) \cup {"dropped"} ELSE Ended(t)
      BY <1>2, <2>2 DEF Ended
    <3>3. Waiting(u)' = {} /\ Lone(Ended(u)')
      BY <1>3, <3>1, <3>2 DEF Lone
    <3>4. QED
      BY <2>2, <3>1, <3>2, <3>3 DEF BrokerInv, Typed, Once
  <2>3. QED
    BY <1>2, <2>1, <2>2
<1>6. Typed'
  BY <1>2, <1>4, <1>5 DEF BrokerInv, Typed
<1>7. Engaged'
  BY <1>2, <1>4 DEF BrokerInv, Engaged
<1>8. Once'
  BY <1>2, <1>5 DEF BrokerInv, Once
<1>9. \A t : Placing(t)' = Placing(t) /\ Held(t)' = Held(t)
  BY <1>2 DEF Placing, Held
<1>10. \A t \in Tags : /\ Taken(t)' = Taken(t)
                      /\ Returning(t)' = IF t = u THEN Returning(t) \ {c} ELSE Returning(t)
  BY <1>1, <1>2, <1>4 DEF Taken, Returning
<1>11. ASSUME NEW t \in Tags PROVE Placed(t, tag)'
  <2>1. CASE t = u
    BY <1>2, <1>3, <1>5, <1>9, <1>10, <2>1 DEF Placed, Somewhere
  <2>2. CASE t # u
    BY <1>2, <1>5, <1>9, <1>10, <2>2 DEF BrokerInv, Placed
  <2>3. QED
    BY <2>1, <2>2
<1>12. QED
  BY <1>6, <1>7, <1>8, <1>11 DEF BrokerInv

(* Every step preserves the invariant.                                     *)
LEMMA BrokerStep == BrokerInv /\ [Next]_vars => BrokerInv'
<1> SUFFICES ASSUME BrokerInv, [Next]_vars PROVE BrokerInv'
  OBVIOUS
<1>1. CASE UNCHANGED vars
  <2>1. UNCHANGED <<queues, bindings, tag, queueOf, sender, placements, backlog, unsettled, at,
                    source, hand, redelivered, acks, discards, dropped>>
    BY <1>1 DEF vars, topologyVars, publishVars, consumerVars, outcomeVars
  <2>2. Typed'
    BY <2>1 DEF BrokerInv, Typed
  <2>3. Engaged'
    BY <2>1 DEF BrokerInv, Engaged
  <2>4. \A t : Taken(t)' = Taken(t) /\ Returning(t)' = Returning(t)
    BY <2>1 DEF Taken, Returning
  <2>5. QED
    BY <2>1, <2>2, <2>3, <2>4, NothingMoves
<1>2. QED
  BY <1>1, Declares, Routes, PlacesNext, PlacingFails, Consumes, Takes, Records, Ends,
     Requeues, PutsBack, Closes DEF Next

(* No message is lost or doubled in the gaps between the broker's lock and *)
(* the queues' Go channels (operations.go, subscription.go).               *)
THEOREM PlaceCorrect == Spec => []OnePlace
BY BrokerInitial, BrokerStep, InvariantMeans, PTL DEF Spec

(* A delivery a consumer holds is unsettled and its own, so its settlement *)
(* is never refused as an unknown tag (subscription.go).                   *)
THEOREM HolderCorrect == Spec => []HeldByOne
BY BrokerInitial, BrokerStep, InvariantMeans, PTL DEF Spec

-----------------------------------------------------------------------------
(* The order in which one publisher's messages wait.                       *)
Ordered(s) ==
  \A i, j \in 1 .. Len(s) :
    i < j /\ sender[s[i]] = sender[s[j]] /\ {s[i], s[j]} \cap redelivered = {} => s[i] < s[j]

(* Invariant by induction, beside BrokerInv.                               *)
OrderInv == Sent /\ \A q \in Queues : Ordered(backlog[q])

(* Nothing waits at first.                                                 *)
LEMMA OrderInitial == Init => OrderInv
BY DEF Init, OrderInv, Sent, Ordered

(* What is left when the first is taken is in order.                       *)
LEMMA TailOrdered ==
  ASSUME NEW s \in Seq(Tags), s # <<>>, Ordered(s)
  PROVE  Ordered(Tail(s))
<1>1. /\ Len(Tail(s)) = Len(s) - 1 /\ Len(s) \in Nat
      /\ \A i \in 1 .. Len(Tail(s)) : Tail(s)[i] = s[i + 1]
  BY HeadTailProperties, LenProperties, EmptySeq
<1>2. QED
  BY <1>1 DEF Ordered

(* So is a sequence that is joined by a message that was requeued, or one  *)
(* newer than all of its sender's.                                         *)
LEMMA AppendOrdered ==
  ASSUME NEW s \in Seq(Tags), NEW t \in Tags, Ordered(s),
         t \in redelivered \/ \A u \in ToSet(s) : sender[u] = sender[t] => u < t
  PROVE  Ordered(Append(s, t))
<1> DEFINE w == Append(s, t)
<1>1. /\ Len(w) = Len(s) + 1 /\ Len(s) \in Nat /\ DOMAIN s = 1 .. Len(s)
      /\ \A i \in 1 .. Len(s) : w[i] = s[i] /\ s[i] \in ToSet(s)
      /\ w[Len(s) + 1] = t
  BY AppendProperties, LenProperties DEF ToSet
<1> HIDE DEF w
<1>2. ASSUME NEW i \in 1 .. Len(w), NEW j \in 1 .. Len(w), i < j,
             sender[w[i]] = sender[w[j]], {w[i], w[j]} \cap redelivered = {}
      PROVE  w[i] < w[j]
  <2>1. i \in 1 .. Len(s) /\ w[i] = s[i]
    BY <1>1, <1>2
  <2>2. CASE j \in 1 .. Len(s)
    BY <1>1, <1>2, <2>1, <2>2 DEF Ordered
  <2>3. CASE j = Len(s) + 1
    BY <1>1, <1>2, <2>1, <2>3
  <2>4. QED
    BY <1>1, <2>2, <2>3
<1>3. Ordered(w)
  BY <1>2 DEF Ordered
<1>4. QED
  BY <1>3 DEF w

(* Every step preserves the order.                                         *)
LEMMA OrderStep == BrokerInv /\ BrokerInv' /\ OrderInv /\ [Next]_vars => OrderInv'
<1> SUFFICES ASSUME BrokerInv, BrokerInv', OrderInv, [Next]_vars PROVE OrderInv'
  OBVIOUS
<1> USE DEF topologyVars, publishVars, consumerVars, outcomeVars
<1>1. ASSUME UNCHANGED <<tag, sender, placements, backlog>>, redelivered \subseteq redelivered'
      PROVE  OrderInv'
  BY <1>1 DEF OrderInv, Sent, Ordered
<1>2. ASSUME NEW p \in Publishers, NEW target \in Targets, Publish(p, target)
      PROVE  OrderInv'
  <2>1. /\ tag \in Nat /\ tag' \in Nat /\ tag <= tag'
        /\ placements'[p] = [i \in 1 .. tag' - tag |-> tag + i]
        /\ \A r \in Publishers \ {p} : placements'[r] = placements[r]
    BY <1>2, Routes
  <2>2. /\ sender' = [t \in Tags |-> IF t \in tag + 1 .. tag' THEN p ELSE sender[t]]
        /\ UNCHANGED <<backlog, redelivered>>
    BY <1>2 DEF Publish
  <2>3. tag' \in 0 .. MaxTag
    BY DEF BrokerInv, Typed
  <2>4. \A t \in Tags : /\ t <= tag => sender'[t] = sender[t]
                        /\ t \in tag + 1 .. tag' => sender'[t] = p
    BY <2>1, <2>2
  <2>5. ASSUME NEW q \in Queues PROVE Ordered(backlog[q])'
    <3>1. \A i \in 1 .. Len(backlog[q]) :
            backlog[q][i] \in Tags /\ backlog[q][i] <= tag
      <4> SUFFICES ASSUME NEW i \in 1 .. Len(backlog[q])
                   PROVE  backlog[q][i] \in Tags /\ backlog[q][i] <= tag
        OBVIOUS
      <4>1. backlog[q][i] \in ToSet(backlog[q])
        BY LenProperties DEF ToSet, BrokerInv, Typed
      <4>2. QED
        BY <4>1, NobodyHas
    <3>2. Ordered(backlog[q])
      BY DEF OrderInv
    <3>3. QED
      BY <2>2, <2>4, <3>1, <3>2 DEF Ordered
  <2>6. ASSUME NEW r \in Publishers, NEW i \in 1 .. Len(placements'[r])
        PROVE  /\ sender'[placements'[r][i]] = r
               /\ \A j \in 1 .. Len(placements'[r]) :
                    i < j => placements'[r][i] < placements'[r][j]
               /\ \A t \in 1 .. tag' :
                    sender'[t] = r /\ t \notin ToSet(placements'[r]) => t < placements'[r][i]
    <3>1. CASE r = p
      <4>1. /\ Len(placements'[p]) = tag' - tag
            /\ ToSet(placements'[p]) = tag + 1 .. tag'
        <5>1. tag' - tag \in Nat /\ tag + (tag' - tag) = tag' /\ tag' <= MaxTag
          <6>1. tag \in Nat /\ tag' \in Nat /\ tag <= tag'
            BY <2>1
          <6>2. tag' <= MaxTag
            BY <2>3, BrokerAssumption
          <6>3. \A m, n \in Nat : m <= n => n - m \in Nat /\ m + (n - m) = n
            OBVIOUS
          <6>4. QED
            BY <6>1, <6>2, <6>3
        <5>2. QED
          BY <2>1, <5>1, Consecutive
      <4>2. \A j \in 1 .. Len(placements'[r]) : placements'[r][j] = tag + j
        BY <2>1, <3>1, <4>1
      <4>3. tag + i \in tag + 1 .. tag' /\ tag + i \in Tags
        BY <2>1, <2>3, <3>1, <4>1, BrokerAssumption DEF Tags
      <4>4. \A t \in 1 .. tag' : t \notin ToSet(placements'[r]) => t < tag + i
        BY <2>1, <3>1, <4>1
      <4>5. QED
        BY <2>1, <2>4, <3>1, <4>2, <4>3, <4>4
    <3>2. CASE r # p
      <4>1. placements'[r] = placements[r] /\ placements[r] \in Seq(Tags)
        BY <2>1, <3>2 DEF BrokerInv, Typed
      <4>2. \A j \in 1 .. Len(placements[r]) :
              placements[r][j] \in Tags /\ placements[r][j] <= tag
        <5> SUFFICES ASSUME NEW j \in 1 .. Len(placements[r])
                     PROVE  placements[r][j] \in Tags /\ placements[r][j] <= tag
          OBVIOUS
        <5>1. placements[r][j] \in ToSet(placements[r])
          BY <4>1, LenProperties DEF ToSet
        <5>2. QED
          BY <5>1, NextCopy
      <4>3. ASSUME NEW t \in 1 .. tag', sender'[t] = r, t \notin ToSet(placements[r])
            PROVE  t < placements[r][i]
        <5>1. t \in Tags /\ t \notin tag + 1 .. tag'
          BY <2>1, <2>3, <2>4, <3>2, <4>3, BrokerAssumption DEF Tags
        <5>2. t \in 1 .. tag /\ sender[t] = r
          BY <2>1, <2>4, <4>3, <5>1
        <5>3. QED
          BY <4>1, <4>3, <5>2 DEF OrderInv, Sent
      <4>4. QED
        BY <2>4, <4>1, <4>2, <4>3 DEF OrderInv, Sent
    <3>3. QED
      BY <3>1, <3>2
  <2>7. Sent'
    BY <2>6 DEF Sent
  <2>8. QED
    BY <2>5, <2>7 DEF OrderInv
<1>3. ASSUME NEW p \in Publishers, PlaceNext(p) PROVE OrderInv'
  <2> DEFINE s == placements[p]
             u == Head(s)
             q == queueOf[u]
  <2>1. /\ s # <<>> /\ backlog' = [backlog EXCEPT ![q] = Append(@, u)]
        /\ placements' = [placements EXCEPT ![p] = Tail(@)]
        /\ UNCHANGED <<tag, sender, redelivered>>
    BY <1>3 DEF PlaceNext, offer
  <2>2. s \in Seq(Tags) /\ IsInjective(s)
    BY DEF BrokerInv, Typed, Once
  <2>3. /\ u \in ToSet(s) /\ Tail(s) \in Seq(Tags) /\ ToSet(Tail(s)) = ToSet(s) \ {u}
        /\ u \in Tags
    BY <2>1, <2>2, Left
  <2>4. /\ Len(Tail(s)) = Len(s) - 1 /\ Len(s) \in Nat /\ Len(s) > 0 /\ u = s[1]
        /\ \A i \in 1 .. Len(Tail(s)) : Tail(s)[i] = s[i + 1]
    BY <2>1, <2>2, HeadTailProperties, LenProperties, EmptySeq
  <2>5. u <= tag /\ Placing(u) = {p} /\ Waiting(u) = {} /\ q \in Queues
    BY <2>3, NextCopy DEF BrokerInv, Typed
  <2>6. sender[u] = p /\ \A t \in 1 .. tag : sender[t] = p /\ t \notin ToSet(s) => t < u
    <3>1. 1 \in 1 .. Len(placements[p])
      BY <2>4
    <3>2. QED
      BY <2>4, <3>1 DEF OrderInv, Sent
  <2>7. \A t \in ToSet(backlog[q]) : sender[t] = sender[u] => t < u
    <3> SUFFICES ASSUME NEW t \in ToSet(backlog[q]), sender[t] = sender[u] PROVE t < u
      OBVIOUS
    <3>1. t \in Tags /\ t <= tag /\ Placing(t) = {}
      BY <2>5, NobodyHas
    <3>2. t \in 1 .. tag /\ t \notin ToSet(placements[p])
      BY <3>1, BrokerAssumption DEF Tags, Placing, BrokerInv, Typed
    <3>3. QED
      BY <2>6, <3>2
  <2> HIDE DEF u, q
  <2>8. ASSUME NEW r \in Queues PROVE Ordered(backlog[r])'
    <3>1. Ordered(backlog[r]) /\ backlog[r] \in Seq(Tags)
      BY DEF OrderInv, BrokerInv, Typed
    <3>2. CASE r = q
      <4>1. backlog'[r] = Append(backlog[r], u)
        BY <2>1, <2>5, <3>2 DEF BrokerInv, Typed
      <4>2. Ordered(Append(backlog[r], u))
        BY <2>3, <2>7, <3>1, <3>2, AppendOrdered
      <4>3. QED
        BY <2>1, <4>1, <4>2, SMTT(20) DEF Ordered
    <3>3. CASE r # q
      BY <2>1, <3>1, <3>3 DEF Ordered, BrokerInv, Typed
    <3>4. QED
      BY <3>2, <3>3
  <2>9. ASSUME NEW r \in Publishers, NEW i \in 1 .. Len(placements'[r])
        PROVE  /\ sender'[placements'[r][i]] = r
               /\ \A j \in 1 .. Len(placements'[r]) :
                    i < j => placements'[r][i] < placements'[r][j]
               /\ \A t \in 1 .. tag' :
                    sender'[t] = r /\ t \notin ToSet(placements'[r]) => t < placements'[r][i]
    <3>1. CASE r = p
      <4>1. placements'[r] = Tail(s)
        BY <2>1, <3>1 DEF BrokerInv, Typed
      <4>2. i + 1 \in 1 .. Len(s) /\ placements'[r][i] = s[i + 1] /\ 1 \in 1 .. Len(s)
        BY <2>4, <4>1
      <4>3. \A j \in 1 .. Len(Tail(s)) : i < j => s[i + 1] < s[j + 1]
        BY <2>4, <4>2 DEF OrderInv, Sent
      <4>4. u < s[i + 1]
        BY <2>4, <4>1, <4>2 DEF OrderInv, Sent
      <4>5. \A t \in 1 .. tag : sender[t] = p /\ t \notin ToSet(Tail(s)) => t < s[i + 1]
        BY <2>3, <4>2, <4>4 DEF OrderInv, Sent
      <4>6. sender[s[i + 1]] = p
        BY <4>2 DEF OrderInv, Sent
      <4>7. QED
        BY <2>1, <2>4, <3>1, <4>1, <4>2, <4>3, <4>5, <4>6
    <3>2. CASE r # p
      BY <2>1, <3>2 DEF OrderInv, Sent, BrokerInv, Typed
    <3>3. QED
      BY <3>1, <3>2
  <2>10. Sent'
    BY <2>9 DEF Sent
  <2>11. QED
    BY <2>8, <2>10 DEF OrderInv
<1>4. ASSUME NEW p \in Publishers, PlaceFails(p) PROVE OrderInv'
  <2>1. /\ placements' = [placements EXCEPT ![p] = <<>>]
        /\ UNCHANGED <<tag, sender, backlog, redelivered>>
    BY <1>4 DEF PlaceFails
  <2>2. placements'[p] = <<>> /\ \A r \in Publishers \ {p} : placements'[r] = placements[r]
    BY <2>1 DEF BrokerInv, Typed
  <2>3. Sent'
    BY <2>1, <2>2 DEF OrderInv, Sent
  <2>4. QED
    BY <2>1, <2>3 DEF OrderInv, Ordered
<1>5. ASSUME NEW c \in Consumers, Take(c) PROVE OrderInv'
  <2>1. /\ backlog[source[c]] # <<>> /\ backlog' = [backlog EXCEPT ![source[c]] = Tail(@)]
        /\ UNCHANGED <<tag, sender, placements, redelivered>> /\ source[c] \in Queues
    BY <1>5 DEF Take, BrokerInv, Engaged
  <2>2. ASSUME NEW r \in Queues PROVE Ordered(backlog[r])'
    <3>1. Ordered(backlog[r]) /\ backlog[r] \in Seq(Tags)
      BY DEF OrderInv, BrokerInv, Typed
    <3>2. backlog'[r] = IF r = source[c] THEN Tail(backlog[r]) ELSE backlog[r]
      BY <2>1 DEF BrokerInv, Typed
    <3>3. r = source[c] => Ordered(Tail(backlog[r]))
      BY <2>1, <3>1, TailOrdered
    <3>4. QED
      BY <2>1, <3>1, <3>2, <3>3 DEF Ordered
  <2>3. QED
    BY <2>1, <2>2 DEF OrderInv, Sent
<1>6. ASSUME NEW c \in Consumers, PutBack(c) PROVE OrderInv'
  <2> DEFINE u == hand[c]
             q == queueOf[u]
  <2>1. /\ backlog' = [backlog EXCEPT ![q] = Append(@, u)] /\ at[c] = "returning"
        /\ UNCHANGED <<tag, sender, placements, redelivered>>
    BY <1>6 DEF PutBack, offer
  <2>2. u \in Tags /\ u \in redelivered /\ q \in Queues
    BY <2>1, ToPutBack DEF BrokerInv, Typed
  <2> HIDE DEF u, q
  <2>3. ASSUME NEW r \in Queues PROVE Ordered(backlog[r])'
    <3>1. Ordered(backlog[r]) /\ backlog[r] \in Seq(Tags)
      BY DEF OrderInv, BrokerInv, Typed
    <3>2. backlog'[r] = IF r = q THEN Append(backlog[r], u) ELSE backlog[r]
      BY <2>1, <2>2 DEF BrokerInv, Typed
    <3>3. Ordered(Append(backlog[r], u))
      BY <2>2, <3>1, AppendOrdered
    <3>4. QED
      BY <2>1, <3>1, <3>2, <3>3 DEF Ordered
  <2>4. QED
    BY <2>1, <2>3 DEF OrderInv, Sent
<1>7. ASSUME \/ \E p \in Programs : Declare(p)
             \/ \E c \in Consumers, q \in Queues : Consume(c, q)
             \/ \E c \in Consumers : \/ Record(c) \/ Ack(c) \/ Discard(c) \/ Requeue(c)
                                     \/ PutBackFails(c) \/ Close(c)
             \/ UNCHANGED vars
      PROVE  OrderInv'
  BY <1>1, <1>7 DEF Declare, Consume, Record, Ack, Discard, Requeue, PutBackFails, Close, vars
<1>8. QED
  BY <1>2, <1>3, <1>4, <1>5, <1>6, <1>7 DEF Next

(* What one publisher sends to one queue waits there in the order it was   *)
(* sent, though placing happens outside the lock that gives the tags       *)
(* (operations.go), until a copy has been requeued.                        *)
THEOREM OrderCorrect == Spec => []PublisherOrder
<1>1. BrokerInv /\ OrderInv => PublisherOrder
  BY LenProperties DEF BrokerInv, Typed, OrderInv, Ordered, PublisherOrder
<1>2. QED
  BY <1>1, BrokerInitial, BrokerStep, OrderInitial, OrderStep, PTL DEF Spec
=============================================================================
