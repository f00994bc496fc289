---------------------------- MODULE Amqp10Broker ---------------------------
(***************************************************************************)
(* The in-process AMQP 1.0 broker (amqp10/inprocess) and the links attached*)
(* to its nodes.                                                           *)
(*                                                                         *)
(* There are two kinds of lock: the broker's, which guards the nodes and   *)
(* the recorded outcomes, and one per link, which guards whether it is     *)
(* detached and what it has handed out.  No operation holds both, so Send, *)
(* Receive and every disposition is two or three critical sections, and    *)
(* each is a step here.  A receiver's stream pulls one delivery at a time; *)
(* the deliveries it has handed out are settled in any order, by any       *)
(* number of fibers at once.                                               *)
(***************************************************************************)
EXTENDS Naturals, Sequences, SequencesExt, FiniteSets

CONSTANTS
  Senders, Receivers,  \* links
  Addresses,           \* where nodes are
  Changes,             \* what Modify is told: [failed, elsewhere]
  MaxTag,              \* bound: messages sent
  MaxReturns           \* bound: times one message is given back

ASSUME Amqp10Assumption ==
  /\ Changes \subseteq [failed : BOOLEAN, elsewhere : BOOLEAN]
  /\ MaxTag \in Nat /\ MaxReturns \in Nat

Tags == 1 .. MaxTag
Delivery == [tag : Tags, attempts : Nat]
Dispositions == {[kind |-> k] : k \in {"accept", "reject", "release"}}
                \cup {[kind |-> "modify", change |-> x] : x \in Changes}

VARIABLES
  nodes,      \* declared addresses
  backlog,    \* the deliveries waiting at each address
  tag,        \* the last tag given out
  address,    \* the node each link is attached to, as a set of at most one
  detached,   \* the links that were closed
  checked,    \* links whose Send or Receive has found them attached
  taken,      \* the delivery each receiver took and has not recorded
  unsettled,  \* what each receiver has handed out
  deciding,   \* dispositions past the link's lock, before the broker's
  records,    \* the outcomes, in the order they were recorded
  handed,     \* how often each tag was handed out
  returned    \* tags given back at least once

nodeVars == <<nodes, backlog, tag>>
linkVars == <<address, detached, checked, taken, unsettled>>
vars == <<nodeVars, linkVars, deciding, records, handed, returned>>

Links == Senders \cup Receivers
Attached(l, a) == address[l] = {a}

TypeOK ==
  /\ nodes \subseteq Addresses
  /\ backlog \in [Addresses -> Seq(Delivery)]
  /\ tag \in 0 .. MaxTag
  /\ address \in [Links -> SUBSET Addresses]
  /\ \A l \in Links : Cardinality(address[l]) <= 1 /\ address[l] \subseteq nodes
  /\ detached \subseteq Links /\ checked \subseteq Links
  /\ taken \in [Receivers -> SUBSET Delivery]
  /\ unsettled \in [Receivers -> SUBSET Delivery]
  /\ \A e \in deciding : e.link \in Receivers /\ e.delivery \in Delivery
                         /\ e.disposition \in Dispositions
  /\ \A i \in DOMAIN records : records[i].tag \in Tags
                               /\ records[i].disposition \in Dispositions
  /\ handed \in [Tags -> Nat]
  /\ returned \subseteq Tags

Init ==
  /\ nodes = {} /\ backlog = [a \in Addresses |-> <<>>] /\ tag = 0
  /\ address = [l \in Links |-> {}]
  /\ detached = {} /\ checked = {}
  /\ taken = [r \in Receivers |-> {}]
  /\ unsettled = [r \in Receivers |-> {}]
  /\ deciding = {} /\ records = <<>>
  /\ handed = [t \in Tags |-> 0] /\ returned = {}

-----------------------------------------------------------------------------
(* Nodes and links.                                                        *)

(* A node that is there already keeps what it holds.                       *)
Declare(a) ==
  /\ a \notin nodes
  /\ nodes' = nodes \cup {a}
  /\ UNCHANGED <<backlog, tag, linkVars, deciding, records, handed, returned>>

(* Sender and Receiver: refused where no node has been declared.           *)
Attach(l, a) ==
  /\ address[l] = {} /\ a \in nodes
  /\ address' = [address EXCEPT ![l] = {a}]
  /\ UNCHANGED <<nodeVars, detached, checked, taken, unsettled, deciding,
                 records, handed, returned>>

(* Close: only marks the link; what it has handed out stays handed out.    *)
Detach(l) ==
  /\ address[l] # {} /\ l \notin detached
  /\ detached' = detached \cup {l}
  /\ UNCHANGED <<nodeVars, address, checked, taken, unsettled, deciding,
                 records, handed, returned>>

(* The first section of Send and of Receive, under the link's lock.  A     *)
(* detached link's Send fails and its Receive ends the stream here.        *)
CheckAttached(l) ==
  /\ address[l] # {} /\ l \notin detached \cup checked
  /\ l \in Receivers => taken[l] = {}
  /\ checked' = checked \cup {l}
  /\ UNCHANGED <<nodeVars, address, detached, taken, unsettled, deciding,
                 records, handed, returned>>

-----------------------------------------------------------------------------
(* Sending.                                                                *)

(* Under the broker's lock: the tag is given where the message is appended.*)
Send(s) ==
  /\ s \in checked /\ tag < MaxTag
  /\ tag' = tag + 1
  /\ \E a \in address[s] :
       backlog' = [backlog EXCEPT ![a] = Append(@, [tag |-> tag + 1, attempts |-> 0])]
  /\ checked' = checked \ {s}
  /\ UNCHANGED <<nodes, address, detached, taken, unsettled, deciding,
                 records, handed, returned>>

-----------------------------------------------------------------------------
(* Receiving.                                                              *)

(* A wrong variant: the newest message is taken.                           *)
TakeLast(r) ==
  /\ r \in checked
  /\ \E a \in address[r] :
       /\ backlog[a] # <<>>
       /\ taken' = [taken EXCEPT ![r] = {Last(backlog[a])}]
       /\ backlog' = [backlog EXCEPT ![a] = Front(@)]
  /\ checked' = checked \ {r}
  /\ UNCHANGED <<nodes, tag, address, detached, unsettled, deciding,
                 records, handed, returned>>

(* Under the broker's lock: the oldest message leaves the node.            *)
Take(r) ==
  /\ r \in checked
  /\ \E a \in address[r] :
       /\ backlog[a] # <<>>
       /\ taken' = [taken EXCEPT ![r] = {Head(backlog[a])}]
       /\ backlog' = [backlog EXCEPT ![a] = Tail(@)]
  /\ checked' = checked \ {r}
  /\ UNCHANGED <<nodes, tag, address, detached, unsettled, deciding,
                 records, handed, returned>>

(* Under the broker's lock: an empty node is the end of the messages.      *)
EndOfMessages(r) ==
  /\ r \in checked
  /\ \A a \in address[r] : backlog[a] = <<>>
  /\ checked' = checked \ {r}
  /\ UNCHANGED <<nodeVars, address, detached, taken, unsettled, deciding,
                 records, handed, returned>>

(* Under the link's lock again: the delivery is unsettled, and handed out. *)
HandOut(r) ==
  /\ taken[r] # {}
  /\ unsettled' = [unsettled EXCEPT ![r] = @ \cup taken[r]]
  /\ handed' = [t \in Tags |-> IF \E d \in taken[r] : d.tag = t
                               THEN handed[t] + 1 ELSE handed[t]]
  /\ taken' = [taken EXCEPT ![r] = {}]
  /\ UNCHANGED <<nodeVars, address, detached, checked, deciding, records, returned>>

-----------------------------------------------------------------------------
(* Settling.                                                               *)

(* A wrong variant: the delivery is looked up and not forgotten.           *)
settleKeeping(r, d, disposition) ==
  /\ d \in unsettled[r]
  /\ deciding' = deciding \cup
       {[link |-> r, delivery |-> d, disposition |-> disposition]}
  /\ UNCHANGED <<nodeVars, linkVars, records, handed, returned>>

(* settle's first section, under the link's lock: the delivery is found    *)
(* and forgotten, so a second disposition of it finds nothing.  A detached *)
(* link settles like any other.                                            *)
settle(r, d, disposition) ==
  /\ d \in unsettled[r]
  /\ disposition.kind \in {"release", "modify"} =>
       Cardinality({i \in DOMAIN records : records[i].tag = d.tag}) < MaxReturns
  /\ unsettled' = [unsettled EXCEPT ![r] = @ \ {d}]
  /\ deciding' = deciding \cup
       {[link |-> r, delivery |-> d, disposition |-> disposition]}
  /\ UNCHANGED <<nodeVars, address, detached, checked, taken, records, handed, returned>>

(* redeliver: back at the end of the node the link is attached to.         *)
redeliver(r, d) ==
  /\ backlog' = [a \in Addresses |->
                   IF Attached(r, a) THEN Append(backlog[a], d) ELSE backlog[a]]
  /\ returned' = returned \cup {d.tag}

(* Modify: the count moves unless the message is undeliverable here; the   *)
(* other flag is recorded and not looked at.                               *)
Modified(d, change) ==
  IF change.elsewhere THEN d ELSE [d EXCEPT !.attempts = @ + 1]

(* A wrong variant: a release is recorded and the message forgotten.       *)
decideNoReturn(e) ==
  /\ records' = Append(records, [tag |-> e.delivery.tag, disposition |-> e.disposition])
  /\ deciding' = deciding \ {e}
  /\ UNCHANGED <<nodeVars, returned, linkVars, handed>>

(* settle's second section, under the broker's lock: the outcome is        *)
(* recorded and a message given back is redelivered.                       *)
decide(e) ==
  /\ records' = Append(records, [tag |-> e.delivery.tag, disposition |-> e.disposition])
  /\ deciding' = deciding \ {e}
  /\ \/ /\ e.disposition.kind \in {"accept", "reject"}
        /\ UNCHANGED <<backlog, returned>>
     \/ /\ e.disposition.kind = "release"
        /\ redeliver(e.link, e.delivery)
     \/ /\ e.disposition.kind = "modify"
        /\ redeliver(e.link, Modified(e.delivery, e.disposition.change))
  /\ UNCHANGED <<nodes, tag, linkVars, handed>>

-----------------------------------------------------------------------------
Next ==
  \/ \E a \in Addresses : Declare(a)
  \/ \E l \in Links, a \in Addresses : Attach(l, a)
  \/ \E l \in Links : Detach(l) \/ CheckAttached(l)
  \/ \E s \in Senders : Send(s)
  \/ \E r \in Receivers : Take(r) \/ EndOfMessages(r) \/ HandOut(r)
  \/ \E r \in Receivers : \E d \in unsettled[r], x \in Dispositions : settle(r, d, x)
  \/ \E e \in deciding : decide(e)

Spec == Init /\ [][Next]_vars

-----------------------------------------------------------------------------
(* Properties.                                                             *)

Final(t) == {i \in DOMAIN records : /\ records[i].tag = t
                                    /\ records[i].disposition.kind \in {"accept", "reject"}}

(* What receivers have handed out, each with its receiver.                 *)
Unsettled == UNION {{r} \X unsettled[r] : r \in Receivers}

(* How many copies of a message there are, wherever they are.              *)
Copies(t) ==
  Cardinality({at \in UNION {{a} \X DOMAIN backlog[a] : a \in Addresses} :
                 backlog[at[1]][at[2]].tag = t})
  + Cardinality({r \in Receivers : \E d \in taken[r] : d.tag = t})
  + Cardinality({held \in Unsettled : held[2].tag = t})
  + Cardinality({e \in deciding : e.delivery.tag = t})

(* No message is lost or doubled between the two locks: one that was sent  *)
(* is waiting, being taken, unsettled or being decided, once, until it is  *)
(* accepted or rejected, and then it is nowhere.                           *)
OneCopy ==
  \A t \in Tags :
    Copies(t) + Cardinality(Final(t)) = IF t <= tag THEN 1 ELSE 0

(* Every time a message is handed out it is answered once at most: the     *)
(* outcomes a test reads are one per delivery, none for a delivery still   *)
(* in a receiver's hands.                                                  *)
AnsweredOnce ==
  \A t \in Tags :
    Cardinality({i \in DOMAIN records : records[i].tag = t})
      + Cardinality({held \in Unsettled : held[2].tag = t})
      + Cardinality({e \in deciding : e.delivery.tag = t})
    = handed[t]

(* A message first reaches a receiver in the order it was sent: nothing    *)
(* taken for the first time overtakes an older message still untouched.    *)
FirstComeFirstTaken ==
  [][\A r \in Receivers : \A d \in taken'[r] \ taken[r] :
       d.tag \notin returned =>
         \A a \in address[r] : \A i \in DOMAIN backlog[a] :
           backlog[a][i].tag \in returned \/ backlog[a][i].tag >= d.tag]_vars
=============================================================================
