---------------------------- MODULE SurfaceProofs --------------------------
(***************************************************************************)
(* Which surfaces are refused, which route answers a request and what it   *)
(* captures, for any patterns, methods and paths; and above it which       *)
(* codecs are usable, what their readers find, and where a call arrives.   *)
(***************************************************************************)
EXTENDS Endpoint, SequenceTheorems, WellFoundedInduction, TLAPS

Kinds == {"literal", "capture", "wildcard"}

-----------------------------------------------------------------------------
(* Patterns and nodes.                                                     *)

(* What a sequence of bounded length is.                                   *)
LEMMA ShortSeq ==
  ASSUME NEW S, NEW n \in Nat, NEW s \in SeqsUpTo(S, n)
  PROVE  /\ s \in Seq(S)
         /\ Len(s) \in Nat \ {0}
         /\ Len(s) <= n
         /\ DOMAIN s = 1 .. Len(s)
         /\ \A i \in 1 .. Len(s) : s[i] \in S
<1>1. PICK k \in 1 .. n : s \in [1 .. k -> S]
  BY DEF SeqsUpTo
<1>2. s \in Seq(S) /\ Len(s) = k
  BY <1>1, SeqDef, LenProperties
<1>3. QED
  BY <1>1, <1>2

(* A segment is of one of three kinds.                                     *)
LEMMA SegmentKinds == \A segment \in Segments : segment.kind \in Kinds
BY DEF Segments, Kinds

(* A pattern is a sequence of segments that is not empty.                  *)
LEMMA PatternIs ==
  ASSUME NEW route \in Routes
  PROVE  /\ route.segments \in Seq(Segments)
         /\ Len(route.segments) \in Nat \ {0}
         /\ DOMAIN route.segments = 1 .. Len(route.segments)
         /\ \A i \in 1 .. Len(route.segments) :
              route.segments[i] \in Segments /\ route.segments[i].kind \in Kinds
         /\ route.method \in Methods
<1>1. route.segments \in SeqsUpTo(Segments, MaxPattern) /\ route.method \in Methods
  BY DEF Routes, Patterns
<1>2. MaxPattern \in Nat
  BY RouteAssumption
<1>3. QED
  BY <1>1, <1>2, ShortSeq, SegmentKinds

(* A path a request can have: that of a caller may be longer than MaxPath. *)
AnyPath == {path \in Seq(Parts \cup Texts) : Len(path) > 0}

(* The paths the properties range over are among them.                     *)
LEMMA PathsAre == Paths \subseteq AnyPath
<1> SUFFICES ASSUME NEW path \in Paths PROVE path \in AnyPath
  OBVIOUS
<1>1. path \in SeqsUpTo(Parts, MaxPath) /\ MaxPath \in Nat
  BY RouteAssumption DEF Paths
<1>2. /\ path \in Seq(Parts) /\ Len(path) \in Nat \ {0} /\ DOMAIN path = 1 .. Len(path)
      /\ \A i \in 1 .. Len(path) : path[i] \in Parts
  BY <1>1, ShortSeq
<1>3. path \in Seq(Parts \cup Texts)
  BY <1>2, SeqDef
<1>4. QED
  BY <1>2, <1>3 DEF AnyPath

(* A request path is a sequence of parts that is not empty.                *)
LEMMA PathIs ==
  ASSUME NEW path \in AnyPath
  PROVE  /\ path \in Seq(Parts \cup Texts)
         /\ Len(path) \in Nat \ {0}
         /\ DOMAIN path = 1 .. Len(path)
BY LenProperties DEF AnyPath

(* The edges of two segments are one when no request tells them apart.     *)
LEMMA EdgesAre ==
  ASSUME NEW s \in Segments, NEW t \in Segments
  PROVE  /\ Edge(s).kind = s.kind
         /\ s.kind = "literal" => Edge(s) = s /\ Edge(s).text = s.text
         /\ s.kind # "literal" => Edge(s) = [kind |-> s.kind]
         /\ Edge(s) = Edge(t) <=> /\ s.kind = t.kind
                                  /\ s.kind = "literal" => s.text = t.text
<1>1. Edge(s).kind = s.kind /\ Edge(t).kind = t.kind
  BY DEF Edge
<1>2. s.kind = "literal" => Edge(s) = s
  BY DEF Edge
<1>3. s.kind # "literal" => Edge(s) = [kind |-> s.kind]
  BY DEF Edge
<1>4. t.kind = "literal" => Edge(t) = t
  BY DEF Edge
<1>5. t.kind # "literal" => Edge(t) = [kind |-> t.kind]
  BY DEF Edge
<1>6. ASSUME s.kind = "literal", t.kind = "literal", s.text = t.text PROVE s = t
  <2>1. s = [kind |-> "literal", text |-> s.text]
    BY <1>6 DEF Segments
  <2>2. t = [kind |-> "literal", text |-> t.text]
    BY <1>6 DEF Segments
  <2>3. QED
    BY <1>6, <2>1, <2>2
<1>7. QED
  BY <1>1, <1>2, <1>3, <1>4, <1>5, <1>6

(* The node of the first i segments.                                       *)
LEMMA NodeIs ==
  ASSUME NEW route \in Routes, NEW i \in 0 .. Len(route.segments)
  PROVE  /\ DOMAIN Node(route.segments, i) = 1 .. i
         /\ Len(Node(route.segments, i)) = i
         /\ \A j \in 1 .. i : Node(route.segments, i)[j] = Edge(route.segments[j])
         /\ Node(route.segments, i) \in Seq({Edge(segment) : segment \in Segments})
<1> DEFINE edges == {Edge(segment) : segment \in Segments}
           node == Node(route.segments, i)
<1>1. Len(route.segments) \in Nat /\ \A j \in 1 .. Len(route.segments) : route.segments[j] \in Segments
  BY PatternIs
<1>2. i \in Nat /\ i <= Len(route.segments)
  BY <1>1
<1>3. node \in [1 .. i -> edges]
  BY <1>1, <1>2 DEF Node
<1>4. node \in Seq(edges) /\ Len(node) = i
  BY <1>2, <1>3, SeqDef, LenProperties
<1>5. DOMAIN node = 1 .. i /\ \A j \in 1 .. i : node[j] = Edge(route.segments[j])
  BY DEF Node
<1>6. QED
  BY <1>4, <1>5

(* No segment leads to the root.                                           *)
LEMMA NodeOfNone == ASSUME NEW r \in Routes PROVE Node(r.segments, 0) = Root
<1> DEFINE edges == {Edge(segment) : segment \in Segments}
<1>1. 0 \in 0 .. Len(r.segments)
  BY PatternIs
<1>2. Node(r.segments, 0) \in Seq(edges) /\ Len(Node(r.segments, 0)) = 0
  BY <1>1, NodeIs
<1>3. QED
  BY <1>2, EmptySeq DEF Root

(* Two nodes are one exactly when the same edges lead to them.             *)
LEMMA NodesAgree ==
  ASSUME NEW r \in Routes, NEW i \in 0 .. Len(r.segments),
         NEW s \in Routes, NEW j \in 0 .. Len(s.segments)
  PROVE  Node(r.segments, i) = Node(s.segments, j)
           <=> i = j /\ \A k \in 1 .. i : Edge(r.segments[k]) = Edge(s.segments[k])
<1>1. /\ Len(Node(r.segments, i)) = i
      /\ \A k \in 1 .. i : Node(r.segments, i)[k] = Edge(r.segments[k])
  BY NodeIs
<1>2. /\ Len(Node(s.segments, j)) = j
      /\ \A k \in 1 .. j : Node(s.segments, j)[k] = Edge(s.segments[k])
  BY NodeIs
<1>3. ASSUME Node(r.segments, i) = Node(s.segments, j)
      PROVE  i = j /\ \A k \in 1 .. i : Edge(r.segments[k]) = Edge(s.segments[k])
  <2>1. i = j
    BY <1>1, <1>2, <1>3
  <2>2. QED
    BY <1>1, <1>2, <1>3, <2>1
<1>4. ASSUME i = j, \A k \in 1 .. i : Edge(r.segments[k]) = Edge(s.segments[k])
      PROVE  Node(r.segments, i) = Node(s.segments, j)
  BY <1>4 DEF Node
<1>5. QED
  BY <1>3, <1>4

(* One segment further.                                                    *)
LEMMA NodeFurther ==
  ASSUME NEW r \in Routes, NEW i \in Nat, i < Len(r.segments)
  PROVE  Append(Node(r.segments, i), Edge(r.segments[i + 1])) = Node(r.segments, i + 1)
<1> DEFINE edges == {Edge(segment) : segment \in Segments}
           node == Node(r.segments, i)
           edge == Edge(r.segments[i + 1])
           further == Node(r.segments, i + 1)
<1>1. /\ Len(r.segments) \in Nat
      /\ i \in 0 .. Len(r.segments) /\ i + 1 \in 1 .. Len(r.segments)
      /\ i + 1 \in 0 .. Len(r.segments)
  BY PatternIs
<1>2. /\ node \in Seq(edges) /\ Len(node) = i
      /\ \A j \in 1 .. i : node[j] = Edge(r.segments[j])
  BY <1>1, NodeIs
<1>3. /\ further \in Seq(edges) /\ Len(further) = i + 1
      /\ \A j \in 1 .. i + 1 : further[j] = Edge(r.segments[j])
  BY <1>1, NodeIs
<1>4. edge \in edges
  BY <1>1, PatternIs
<1> HIDE DEF node, edge, further, edges
<1>5. /\ Append(node, edge) \in Seq(edges) /\ Len(Append(node, edge)) = i + 1
      /\ \A j \in 1 .. i : Append(node, edge)[j] = node[j]
      /\ Append(node, edge)[i + 1] = edge
  BY <1>2, <1>4, AppendProperties
<1>6. edge = Edge(r.segments[i + 1])
  BY DEF edge
<1>7. \A j \in 1 .. i + 1 : Append(node, edge)[j] = further[j]
  BY <1>2, <1>3, <1>5, <1>6
<1>8. Append(node, edge) = further
  BY <1>3, <1>5, <1>7, SeqEqual
<1>9. QED
  BY <1>8 DEF node, edge, further

(* The nodes on the way to a node.                                         *)
LEMMA NodeBefore ==
  ASSUME NEW r \in Routes, NEW i \in 0 .. Len(r.segments), NEW j \in 0 .. i
  PROVE  SubSeq(Node(r.segments, i), 1, j) = Node(r.segments, j)
<1> DEFINE edges == {Edge(segment) : segment \in Segments}
           node == Node(r.segments, i)
           before == Node(r.segments, j)
<1>1. Len(r.segments) \in Nat
  BY PatternIs
<1>2. i \in Nat /\ j \in Nat /\ j <= i /\ i \in 0 .. Len(r.segments) /\ j \in 0 .. Len(r.segments)
  BY <1>1
<1>3. /\ node \in Seq(edges) /\ Len(node) = i
      /\ \A k \in 1 .. i : node[k] = Edge(r.segments[k])
  BY <1>1, NodeIs
<1>4. /\ before \in Seq(edges) /\ Len(before) = j
      /\ \A k \in 1 .. j : before[k] = Edge(r.segments[k])
  BY <1>2, NodeIs
<1> HIDE DEF node, before, edges
<1>5. /\ SubSeq(node, 1, j) \in Seq(edges) /\ Len(SubSeq(node, 1, j)) = j
      /\ \A k \in 1 .. j : SubSeq(node, 1, j)[k] = node[k]
  <2>1. 1 \in 1 .. i + 1 /\ j \in 0 .. i
    BY <1>2
  <2>2. QED
    BY <1>2, <1>3, <2>1, SubSeqProperties
<1>6. SubSeq(node, 1, j) = before
  BY <1>2, <1>3, <1>4, <1>5, SeqEqual
<1>7. QED
  BY <1>6 DEF node, before

-----------------------------------------------------------------------------
(* Assembly.                                                               *)

End(route) == Node(route.segments, Len(route.segments))
NodesOf(route) == {Node(route.segments, i) : i \in DOMAIN route.segments}

(* The tree has the nodes its routes need and no others, holds each route  *)
(* at its end, and binds what each of them captures under its own name.    *)
Grown == DOMAIN tree = {Root} \cup UNION {NodesOf(r) : r \in Served}
NodesTyped == \A id \in DOMAIN tree : tree[id] \in [name : Names \cup {""}, routes : SUBSET Routes]
Kept == \A id \in DOMAIN tree : tree[id].routes = {r \in Served : End(r) = id}
Named == \A r \in Served : \A i \in DOMAIN r.segments :
           r.segments[i].kind # "literal" => tree[Node(r.segments, i)].name = r.segments[i].text
TreeHolds == Grown /\ NodesTyped /\ Kept /\ Named

(* Every pattern is well formed and no two routes clash.                   *)
Sound ==
  /\ \A r \in Served : parsePattern(r.segments)
  /\ \A i, j \in DOMAIN declared : i # j => ~Clash(declared[i], declared[j])

(* Invariant by induction.                                                 *)
TreeInv ==
  /\ declared \in Seq(Routes)
  /\ status # "refused" <=> Sound
  /\ status = "assembling" => TreeHolds

(* What is declared are routes.                                            *)
LEMMA ServedRoutes ==
  ASSUME declared \in Seq(Routes)
  PROVE  /\ Len(declared) \in Nat /\ DOMAIN declared = 1 .. Len(declared)
         /\ Served \subseteq Routes
         /\ \A r \in Served : \E i \in 1 .. Len(declared) : declared[i] = r
         /\ \A i \in 1 .. Len(declared) : declared[i] \in Served
<1>1. Len(declared) \in Nat /\ DOMAIN declared = 1 .. Len(declared)
  BY LenProperties
<1>2. \A i \in 1 .. Len(declared) : declared[i] \in Routes
  BY ElementOfSeq
<1>3. QED
  BY <1>1, <1>2 DEF Served, ToSet

(* One more is declared.                                                   *)
LEMMA ServedMore ==
  ASSUME declared \in Seq(Routes), NEW route \in Routes,
         declared' = Append(declared, route)
  PROVE  /\ declared' \in Seq(Routes)
         /\ Len(declared') = Len(declared) + 1
         /\ \A i \in 1 .. Len(declared) : declared'[i] = declared[i]
         /\ declared'[Len(declared) + 1] = route
         /\ Served' = Served \cup {route}
<1>1. Len(declared) \in Nat /\ DOMAIN declared = 1 .. Len(declared)
  BY LenProperties
<1>2. /\ declared' \in Seq(Routes) /\ Len(declared') = Len(declared) + 1
      /\ \A i \in 1 .. Len(declared) : declared'[i] = declared[i]
      /\ declared'[Len(declared) + 1] = route
  BY AppendProperties
<1>3. DOMAIN declared' = 1 .. Len(declared) + 1
  BY <1>2, LenProperties
<1>4. Served' = Served \cup {route}
  <2>1. Served' = {declared'[i] : i \in 1 .. Len(declared) + 1}
    BY <1>3 DEF Served, ToSet
  <2>2. Served = {declared[i] : i \in 1 .. Len(declared)}
    BY <1>1 DEF Served, ToSet
  <2>3. 1 .. Len(declared) + 1 = (1 .. Len(declared)) \cup {Len(declared) + 1}
    BY <1>1
  <2>4. QED
    BY <1>2, <2>1, <2>2, <2>3
<1>5. QED
  BY <1>2, <1>4

(* Membership in the tree.                                                 *)
LEMMA InTree ==
  ASSUME declared \in Seq(Routes), Grown, NEW route \in Routes,
         NEW i \in 1 .. Len(route.segments)
  PROVE  Node(route.segments, i) \in DOMAIN tree
           <=> \E r \in Served : /\ i \in 1 .. Len(r.segments)
                                 /\ Node(r.segments, i) = Node(route.segments, i)
<1>1. Len(route.segments) \in Nat /\ i \in 0 .. Len(route.segments)
  BY PatternIs
<1>2. Len(Node(route.segments, i)) = i
  BY <1>1, NodeIs
<1>3. Node(route.segments, i) # Root
  BY <1>1, <1>2 DEF Root
<1>4. ASSUME NEW r \in Served, NEW j \in DOMAIN r.segments,
             Node(r.segments, j) = Node(route.segments, i)
      PROVE  j = i /\ i \in 1 .. Len(r.segments)
  <2>1. r \in Routes
    BY ServedRoutes
  <2>2. DOMAIN r.segments = 1 .. Len(r.segments) /\ Len(r.segments) \in Nat
    BY <2>1, PatternIs
  <2>3. j \in 0 .. Len(r.segments)
    BY <2>2
  <2>4. Len(Node(r.segments, j)) = j
    BY <2>1, <2>3, NodeIs
  <2>5. QED
    BY <1>2, <1>4, <2>2, <2>4
<1>5. ASSUME Node(route.segments, i) \in DOMAIN tree
      PROVE  \E r \in Served : /\ i \in 1 .. Len(r.segments)
                               /\ Node(r.segments, i) = Node(route.segments, i)
  <2>1. PICK r \in Served : Node(route.segments, i) \in NodesOf(r)
    BY <1>3, <1>5 DEF Grown
  <2>2. PICK j \in DOMAIN r.segments : Node(route.segments, i) = Node(r.segments, j)
    BY <2>1 DEF NodesOf
  <2>3. QED
    BY <1>4, <2>2
<1>6. ASSUME NEW r \in Served, i \in 1 .. Len(r.segments),
             Node(r.segments, i) = Node(route.segments, i)
      PROVE  Node(route.segments, i) \in DOMAIN tree
  <2>1. DOMAIN r.segments = 1 .. Len(r.segments)
    BY ServedRoutes, PatternIs
  <2>2. Node(r.segments, i) \in NodesOf(r)
    BY <1>6, <2>1 DEF NodesOf
  <2>3. QED
    BY <1>6, <2>2 DEF Grown
<1>7. QED
  BY <1>5, <1>6

(* The nodes of the routes that are there.                                 *)
LEMMA OwnNodes ==
  ASSUME declared \in Seq(Routes), Grown, NEW r \in Served,
         NEW i \in 0 .. Len(r.segments)
  PROVE  Node(r.segments, i) \in DOMAIN tree
<1>1. r \in Routes /\ Len(r.segments) \in Nat
  BY ServedRoutes, PatternIs
<1>2. CASE i = 0
  <2>1. Node(r.segments, 0) = Root
    BY <1>1, NodeOfNone
  <2>2. QED
    BY <1>2, <2>1 DEF Grown
<1>3. CASE i # 0
  <2>1. i \in 1 .. Len(r.segments)
    BY <1>1, <1>3
  <2>2. QED
    BY <1>1, <2>1, InTree
<1>4. QED
  BY <1>2, <1>3

(* The tree once a route is in it.                                         *)
LEMMA InsertedIs ==
  ASSUME declared \in Seq(Routes), Grown, NodesTyped, NEW route \in Routes
  PROVE  /\ DOMAIN inserted(route) = DOMAIN tree \cup NodesOf(route)
         /\ \A id \in DOMAIN tree : inserted(route)[id].name = tree[id].name
         /\ \A id \in DOMAIN tree \ {End(route)} : inserted(route)[id] = tree[id]
         /\ \A i \in 1 .. Len(route.segments) :
              Node(route.segments, i) \notin DOMAIN tree =>
                inserted(route)[Node(route.segments, i)].name =
                  IF route.segments[i].kind = "literal" THEN "" ELSE route.segments[i].text
         /\ \A id \in NodesOf(route) \ (DOMAIN tree \cup {End(route)}) :
              inserted(route)[id].routes = {}
         /\ inserted(route)[End(route)].routes =
              {route} \cup IF End(route) \in DOMAIN tree THEN tree[End(route)].routes ELSE {}
         /\ \A id \in DOMAIN inserted(route) :
              inserted(route)[id] \in [name : Names \cup {""}, routes : SUBSET Routes]
<1> DEFINE s == route.segments
           last == End(route)
           NameOf(id) == IF s[Len(id)].kind = "literal" THEN "" ELSE s[Len(id)].text
           fresh(id) == [name |-> NameOf(id), routes |-> {}]
           all == DOMAIN tree \cup NodesOf(route)
           grown == [id \in all |-> IF id \in DOMAIN tree THEN tree[id] ELSE fresh(id)]
           T == [name : Names \cup {""}, routes : SUBSET Routes]
<1>1. inserted(route) = [grown EXCEPT ![last].routes = @ \cup {route}]
  <2>1. DOMAIN tree \cup (NodesOf(route) \ DOMAIN tree) = all
    OBVIOUS
  <2>2. QED
    BY <2>1 DEF inserted, newTreeNode, NodesOf, End
<1>2. /\ Len(s) \in Nat \ {0} /\ DOMAIN s = 1 .. Len(s)
      /\ \A i \in 1 .. Len(s) : s[i] \in Segments
  BY PatternIs
<1>3. ASSUME NEW i \in 1 .. Len(s) PROVE Len(Node(s, i)) = i
  <2>1. i \in 0 .. Len(s)
    BY <1>2
  <2>2. QED
    BY <2>1, NodeIs
<1>4. last \in NodesOf(route) /\ last \in all
  <2>1. Len(s) \in DOMAIN s
    BY <1>2
  <2>2. QED
    BY <2>1 DEF End, NodesOf
<1>5. \A i \in 1 .. Len(s) : NameOf(Node(s, i)) \in Names \cup {""}
  BY <1>2, <1>3 DEF Segments
<1>6. \A id \in NodesOf(route) : fresh(id) \in T
  <2>1. \A id \in NodesOf(route) : NameOf(id) \in Names \cup {""}
    BY <1>2, <1>5 DEF NodesOf
  <2> HIDE DEF NameOf
  <2>2. QED
    BY <2>1
<1>7. \A id \in all : grown[id] \in T
  BY <1>6 DEF NodesTyped
<1>8. \A id \in all : grown[id] = IF id \in DOMAIN tree THEN tree[id] ELSE fresh(id)
  OBVIOUS
<1>8a. ASSUME NEW id PROVE fresh(id).routes = {} /\ fresh(id).name = NameOf(id)
  <2> HIDE DEF NameOf
  <2>1. QED
    OBVIOUS
<1> HIDE DEF all, fresh, last
<1>9. DOMAIN grown = all
  OBVIOUS
<1> HIDE DEF grown
<1>10. /\ DOMAIN inserted(route) = all
       /\ \A id \in all \ {last} : inserted(route)[id] = grown[id]
       /\ inserted(route)[last] = [grown[last] EXCEPT !.routes = @ \cup {route}]
  BY <1>1, <1>4, <1>9
<1>11. /\ inserted(route)[last].name = grown[last].name
       /\ inserted(route)[last].routes = grown[last].routes \cup {route}
       /\ inserted(route)[last] \in T
  <2>1. ASSUME NEW g \in T
        PROVE  /\ [g EXCEPT !.routes = @ \cup {route}].name = g.name
               /\ [g EXCEPT !.routes = @ \cup {route}].routes = g.routes \cup {route}
               /\ [g EXCEPT !.routes = @ \cup {route}] \in T
    <3>1. g.routes \cup {route} \in SUBSET Routes
      OBVIOUS
    <3>2. QED
      BY <3>1
  <2> HIDE DEF T
  <2>2. QED
    BY <1>4, <1>7, <1>10, <2>1
<1>12. DOMAIN inserted(route) = DOMAIN tree \cup NodesOf(route)
  BY <1>10 DEF all
<1>13. ASSUME NEW id \in DOMAIN tree
       PROVE  inserted(route)[id].name = tree[id].name
  <2>1. id \in all /\ grown[id] = tree[id]
    BY <1>8 DEF all
  <2>2. QED
    BY <1>10, <1>11, <2>1
<1>14. ASSUME NEW id \in DOMAIN tree \ {last}
       PROVE  inserted(route)[id] = tree[id]
  <2>1. id \in all /\ grown[id] = tree[id]
    BY <1>8 DEF all
  <2>2. QED
    BY <1>10, <2>1
<1>15. ASSUME NEW i \in 1 .. Len(s), Node(s, i) \notin DOMAIN tree
       PROVE  inserted(route)[Node(s, i)].name = IF s[i].kind = "literal" THEN "" ELSE s[i].text
  <2>1. Node(s, i) \in all
    BY <1>2 DEF all, NodesOf
  <2>2. grown[Node(s, i)] = fresh(Node(s, i))
    BY <1>8, <1>15, <2>1
  <2>3. fresh(Node(s, i)).name = NameOf(Node(s, i))
    BY <1>8a
  <2>4. Len(Node(s, i)) = i
    BY <1>3
  <2>5. NameOf(Node(s, i)) = IF s[i].kind = "literal" THEN "" ELSE s[i].text
    BY <2>4
  <2>6. inserted(route)[Node(s, i)].name = grown[Node(s, i)].name
    BY <1>10, <1>11, <2>1
  <2>7. QED
    BY <2>2, <2>3, <2>5, <2>6
<1>16. ASSUME NEW id \in NodesOf(route) \ (DOMAIN tree \cup {last})
       PROVE  inserted(route)[id].routes = {}
  <2>1. id \in all
    BY DEF all
  <2>2. inserted(route)[id] = fresh(id)
    BY <1>8, <1>10, <2>1
  <2>3. QED
    BY <1>8a, <2>2
<1>17. inserted(route)[last].routes =
         {route} \cup IF last \in DOMAIN tree THEN tree[last].routes ELSE {}
  <2>1. CASE last \in DOMAIN tree
    BY <1>4, <1>8, <1>11, <2>1
  <2>2. CASE last \notin DOMAIN tree
    <3>1. grown[last] = fresh(last)
      BY <1>4, <1>8, <2>2
    <3>2. grown[last].routes = {}
      BY <1>8a, <3>1
    <3>3. QED
      BY <1>11, <2>2, <3>2
  <2>3. QED
    BY <2>1, <2>2
<1>18. \A id \in DOMAIN inserted(route) : inserted(route)[id] \in T
  BY <1>7, <1>10, <1>11
<1>19. QED
  BY <1>12, <1>13, <1>14, <1>15, <1>16, <1>17, <1>18 DEF last

(* What it is for two segments to share a node.                            *)
LEMMA SharedNode ==
  ASSUME NEW r \in Routes, NEW s \in Routes,
         NEW i \in 1 .. Len(r.segments), i \in 1 .. Len(s.segments),
         Node(r.segments, i) = Node(s.segments, i)
  PROVE  /\ \A k \in 1 .. i : /\ Edge(r.segments[k]) = Edge(s.segments[k])
                              /\ r.segments[k].kind = s.segments[k].kind
                              /\ r.segments[k].kind = "literal" => r.segments[k].text = s.segments[k].text
<1>1. Len(r.segments) \in Nat /\ Len(s.segments) \in Nat
  BY PatternIs
<1>2. i \in 0 .. Len(r.segments) /\ i \in 0 .. Len(s.segments)
  BY <1>1
<1>3. \A k \in 1 .. i : Edge(r.segments[k]) = Edge(s.segments[k])
  BY <1>2, NodesAgree
<1>4. ASSUME NEW k \in 1 .. i
      PROVE  /\ r.segments[k].kind = s.segments[k].kind
             /\ r.segments[k].kind = "literal" => r.segments[k].text = s.segments[k].text
  <2>1. k \in 1 .. Len(r.segments) /\ k \in 1 .. Len(s.segments)
    BY <1>1
  <2>2. r.segments[k] \in Segments /\ s.segments[k] \in Segments
    BY <2>1, PatternIs
  <2>3. QED
    BY <1>3, <2>2, EdgesAre
<1>5. QED
  BY <1>3, <1>4

(* A clash, in terms of numbers.                                           *)
LEMMA ClashIs ==
  ASSUME NEW r \in Routes, NEW s \in Routes
  PROVE  Clash(r, s) <=>
           \/ r.method = s.method /\ End(r) = End(s)
           \/ \E i \in 1 .. Len(r.segments) :
                /\ i \in 1 .. Len(s.segments)
                /\ Node(r.segments, i) = Node(s.segments, i)
                /\ r.segments[i].kind # "literal"
                /\ r.segments[i].text # s.segments[i].text
<1>1. /\ Len(r.segments) \in Nat /\ DOMAIN r.segments = 1 .. Len(r.segments)
      /\ Len(s.segments) \in Nat /\ DOMAIN s.segments = 1 .. Len(s.segments)
  BY PatternIs
<1>2. Len(r.segments) \in 0 .. Len(r.segments) /\ Len(s.segments) \in 0 .. Len(s.segments)
  BY <1>1
<1>3. End(r) = End(s) => Len(r.segments) = Len(s.segments)
  BY <1>2, NodesAgree DEF End
<1>4. QED
  BY <1>1, <1>3 DEF Clash, End

(* Whichever comes first.                                                  *)
LEMMA ClashBack ==
  ASSUME NEW r \in Routes, NEW s \in Routes, Clash(r, s)
  PROVE  Clash(s, r)
<1>1. CASE r.method = s.method /\ End(r) = End(s)
  BY <1>1, ClashIs
<1>2. CASE \E i \in 1 .. Len(r.segments) :
             /\ i \in 1 .. Len(s.segments)
             /\ Node(r.segments, i) = Node(s.segments, i)
             /\ r.segments[i].kind # "literal"
             /\ r.segments[i].text # s.segments[i].text
  <2>1. PICK i \in 1 .. Len(r.segments) :
          /\ i \in 1 .. Len(s.segments)
          /\ Node(r.segments, i) = Node(s.segments, i)
          /\ r.segments[i].kind # "literal"
          /\ r.segments[i].text # s.segments[i].text
    BY <1>2
  <2>2. i \in 1 .. i
    BY <2>1, PatternIs
  <2>3. s.segments[i].kind # "literal"
    BY <2>1, <2>2, SharedNode
  <2>4. QED
    BY <2>1, <2>3, ClashIs
<1>3. QED
  BY <1>1, <1>2, ClashIs

(* What the tree does not refuse clashes with nothing in it.               *)
LEMMA InsertableFits ==
  ASSUME declared \in Seq(Routes), TreeHolds, NEW route \in Routes, insertable(route),
         NEW r \in Served
  PROVE  ~Clash(route, r)
<1>1. /\ r \in Routes /\ Len(r.segments) \in Nat \ {0} /\ DOMAIN r.segments = 1 .. Len(r.segments)
      /\ Len(route.segments) \in Nat \ {0} /\ DOMAIN route.segments = 1 .. Len(route.segments)
  BY ServedRoutes, PatternIs
<1>2. ASSUME route.method = r.method, End(route) = End(r) PROVE FALSE
  <2>1. End(r) \in DOMAIN tree
    <3>1. Len(r.segments) \in 0 .. Len(r.segments)
      BY <1>1
    <3>2. QED
      BY <3>1, OwnNodes DEF End, TreeHolds
  <2>2. r \in tree[End(r)].routes
    BY <2>1 DEF TreeHolds, Kept
  <2>3. QED
    BY <1>2, <2>1, <2>2 DEF insertable, End
<1>3. ASSUME NEW i \in 1 .. Len(route.segments), i \in 1 .. Len(r.segments),
             Node(route.segments, i) = Node(r.segments, i),
             route.segments[i].kind # "literal",
             route.segments[i].text # r.segments[i].text
      PROVE  FALSE
  <2>1. i \in 1 .. i /\ i \in 0 .. Len(r.segments)
    BY <1>1, <1>3
  <2>2. r.segments[i].kind # "literal"
    BY <1>1, <1>3, <2>1, SharedNode
  <2>3. Node(r.segments, i) \in DOMAIN tree
    BY <2>1, OwnNodes DEF TreeHolds
  <2>4. tree[Node(r.segments, i)].name = r.segments[i].text
    BY <1>1, <1>3, <2>2 DEF TreeHolds, Named
  <2>5. claimSlot(route.segments, i)
    BY <1>1 DEF insertable
  <2>6. QED
    BY <1>3, <2>3, <2>4, <2>5 DEF claimSlot
<1>4. QED
  BY <1>1, <1>2, <1>3, ClashIs

(* What the tree refuses clashes with something in it.                     *)
LEMMA RefusedClashes ==
  ASSUME declared \in Seq(Routes), TreeHolds, NEW route \in Routes, ~insertable(route)
  PROVE  \E r \in Served : Clash(route, r)
<1>1. Len(route.segments) \in Nat \ {0} /\ DOMAIN route.segments = 1 .. Len(route.segments)
  BY PatternIs
<1>2. CASE \E i \in DOMAIN route.segments : ~claimSlot(route.segments, i)
  <2>1. PICK i \in 1 .. Len(route.segments) : ~claimSlot(route.segments, i)
    BY <1>1, <1>2
  <2>2. /\ route.segments[i].kind # "literal"
        /\ Node(route.segments, i) \in DOMAIN tree
        /\ tree[Node(route.segments, i)].name # route.segments[i].text
    BY <2>1 DEF claimSlot
  <2>3. PICK r \in Served : /\ i \in 1 .. Len(r.segments)
                            /\ Node(r.segments, i) = Node(route.segments, i)
    BY <2>2, InTree DEF TreeHolds
  <2>4. r \in Routes /\ DOMAIN r.segments = 1 .. Len(r.segments)
    BY ServedRoutes, PatternIs
  <2>5. r.segments[i].kind = route.segments[i].kind
    <3>1. i \in 1 .. i
      BY <1>1
    <3>2. QED
      BY <2>3, <2>4, <3>1, SharedNode
  <2>6. tree[Node(r.segments, i)].name = r.segments[i].text
    BY <2>2, <2>3, <2>4, <2>5 DEF TreeHolds, Named
  <2>7. QED
    BY <2>2, <2>3, <2>4, <2>6, ClashIs
<1>3. CASE /\ End(route) \in DOMAIN tree
           /\ \E r \in tree[End(route)].routes : r.method = route.method
  <2>1. PICK r \in tree[End(route)].routes : r.method = route.method
    BY <1>3
  <2>2. r \in Served /\ End(r) = End(route)
    BY <1>3, <2>1 DEF TreeHolds, Kept
  <2>3. QED
    BY <2>1, <2>2, ServedRoutes, ClashIs
<1>4. QED
  BY <1>2, <1>3 DEF insertable, End

(* One more route that fits, and soundness is kept.                        *)
LEMMA SoundMore ==
  ASSUME declared \in Seq(Routes), NEW route \in Routes,
         declared' = Append(declared, route), Sound
  PROVE  Sound' <=> /\ parsePattern(route.segments)
                    /\ \A r \in Served : ~Clash(route, r)
<1>1. /\ Len(declared) \in Nat /\ DOMAIN declared = 1 .. Len(declared)
      /\ Served \subseteq Routes
      /\ \A r \in Served : \E i \in 1 .. Len(declared) : declared[i] = r
      /\ \A i \in 1 .. Len(declared) : declared[i] \in Served
  BY ServedRoutes
<1>2. /\ declared' \in Seq(Routes)
      /\ Len(declared') = Len(declared) + 1
      /\ \A i \in 1 .. Len(declared) : declared'[i] = declared[i]
      /\ declared'[Len(declared) + 1] = route
      /\ Served' = Served \cup {route}
  BY ServedMore
<1>3. DOMAIN declared' = 1 .. Len(declared) + 1
  BY <1>2, LenProperties
<1> DEFINE n == Len(declared) + 1
<1>4. (\A r \in Served' : parsePattern(r.segments)) <=> parsePattern(route.segments)
  BY <1>2 DEF Sound
<1>5. ASSUME \A r \in Served : ~Clash(route, r),
             NEW i \in 1 .. n, NEW j \in 1 .. n, i # j
      PROVE  ~Clash(declared'[i], declared'[j])
  <2>1. CASE i \in 1 .. Len(declared) /\ j \in 1 .. Len(declared)
    <3>1. ~Clash(declared[i], declared[j])
      BY <1>1, <1>5, <2>1 DEF Sound
    <3>2. QED
      BY <1>2, <2>1, <3>1
  <2>2. CASE i = n /\ j \in 1 .. Len(declared)
    BY <1>1, <1>2, <1>5, <2>2
  <2>3. CASE i \in 1 .. Len(declared) /\ j = n
    <3>1. declared[i] \in Served /\ declared[i] \in Routes /\ declared'[i] = declared[i] /\ declared'[j] = route
      BY <1>1, <1>2, <2>3
    <3>2. QED
      BY <1>5, <3>1, ClashBack
  <2>4. QED
    BY <1>1, <1>5, <2>1, <2>2, <2>3
<1>6. ASSUME NEW r \in Served, Clash(route, r)
      PROVE  \E i, j \in 1 .. n : i # j /\ Clash(declared'[i], declared'[j])
  <2>1. PICK j \in 1 .. Len(declared) : declared[j] = r
    BY <1>1
  <2>2. n \in 1 .. n /\ j \in 1 .. n /\ n # j
    BY <1>1
  <2>3. Clash(declared'[n], declared'[j])
    BY <1>2, <1>6, <2>1
  <2>4. QED
    BY <2>2, <2>3
<1>7. (\A i, j \in DOMAIN declared' : i # j => ~Clash(declared'[i], declared'[j]))
        <=> \A r \in Served : ~Clash(route, r)
  BY <1>3, <1>5, <1>6
<1>8. Sound' <=> /\ \A r \in Served' : parsePattern(r.segments)
                 /\ \A i, j \in DOMAIN declared' : i # j => ~Clash(declared'[i], declared'[j])
  BY DEF Sound, parsePattern, Clash, Node, Edge
<1>9. QED
  BY <1>4, <1>7, <1>8

(* Inserting keeps the tree what its routes make of it.                    *)
LEMMA TreeGrows ==
  ASSUME declared \in Seq(Routes), TreeHolds, NEW route \in Routes, insertable(route),
         tree' = inserted(route), declared' = Append(declared, route)
  PROVE  TreeHolds'
<1>1. Served' = Served \cup {route} /\ Served \subseteq Routes
  BY ServedMore, ServedRoutes
<1>2. /\ Len(route.segments) \in Nat \ {0}
      /\ DOMAIN route.segments = 1 .. Len(route.segments)
  BY PatternIs
<1>3. End(route) \in NodesOf(route)
  <2>1. Len(route.segments) \in DOMAIN route.segments
    BY <1>2
  <2>2. QED
    BY <2>1 DEF End, NodesOf
<1>4. /\ DOMAIN tree' = DOMAIN tree \cup NodesOf(route)
      /\ \A id \in DOMAIN tree : tree'[id].name = tree[id].name
      /\ \A id \in DOMAIN tree \ {End(route)} : tree'[id] = tree[id]
      /\ \A i \in 1 .. Len(route.segments) :
           Node(route.segments, i) \notin DOMAIN tree =>
             tree'[Node(route.segments, i)].name =
               IF route.segments[i].kind = "literal" THEN "" ELSE route.segments[i].text
      /\ \A id \in NodesOf(route) \ (DOMAIN tree \cup {End(route)}) : tree'[id].routes = {}
      /\ tree'[End(route)].routes =
           {route} \cup IF End(route) \in DOMAIN tree THEN tree[End(route)].routes ELSE {}
      /\ \A id \in DOMAIN tree' : tree'[id] \in [name : Names \cup {""}, routes : SUBSET Routes]
  BY InsertedIs DEF TreeHolds
<1>5. Grown'
  <2>1. UNION {NodesOf(r) : r \in Served'} = (UNION {NodesOf(r) : r \in Served}) \cup NodesOf(route)
    <3>1. {NodesOf(r) : r \in Served'} = {NodesOf(r) : r \in Served} \cup {NodesOf(route)}
      BY <1>1
    <3>2. ASSUME NEW A, NEW b PROVE UNION (A \cup {b}) = (UNION A) \cup b
      OBVIOUS
    <3>3. QED
      BY <3>1, <3>2
  <2>2. DOMAIN tree' = {Root} \cup UNION {NodesOf(r) : r \in Served'}
    <3>1. DOMAIN tree = {Root} \cup UNION {NodesOf(r) : r \in Served}
      BY DEF TreeHolds, Grown
    <3>2. DOMAIN tree' = DOMAIN tree \cup NodesOf(route)
      BY <1>4
    <3>3. QED
      BY <2>1, <3>1, <3>2
  <2>3. QED
    BY <2>2 DEF Grown, NodesOf, Node, Edge, Root
<1>6. NodesTyped'
  BY <1>4 DEF NodesTyped
<1>7. \A r \in Served : End(r) \in DOMAIN tree
  <2> SUFFICES ASSUME NEW r \in Served PROVE End(r) \in DOMAIN tree
    OBVIOUS
  <2>1. Len(r.segments) \in 0 .. Len(r.segments)
    BY <1>1, PatternIs
  <2>2. QED
    BY <2>1, OwnNodes DEF TreeHolds, End
<1>8. Kept'
  <2>1. ASSUME NEW id \in DOMAIN tree'
        PROVE  tree'[id].routes = {r \in Served' : End(r) = id}
    <3>1. id \in DOMAIN tree => tree[id].routes = {r \in Served : End(r) = id}
      BY DEF TreeHolds, Kept
    <3>2. id \notin DOMAIN tree => {r \in Served : End(r) = id} = {}
      BY <1>7
    <3>3. CASE id = End(route)
      <4>1. {r \in Served' : End(r) = id} = {route} \cup {r \in Served : End(r) = id}
        BY <1>1, <3>3
      <4>2. QED
        BY <1>4, <3>1, <3>2, <3>3, <4>1
    <3>4. CASE id # End(route)
      <4>1. {r \in Served' : End(r) = id} = {r \in Served : End(r) = id}
        BY <1>1, <3>4
      <4>2. CASE id \in DOMAIN tree
        BY <1>4, <3>1, <3>4, <4>1, <4>2
      <4>3. CASE id \notin DOMAIN tree
        BY <1>4, <3>2, <3>4, <4>1, <4>3
      <4>4. QED
        BY <4>2, <4>3
    <3>5. QED
      BY <3>3, <3>4
  <2>2. QED
    BY <2>1 DEF Kept, End, Node, Edge
<1>9. Named'
  <2>1. ASSUME NEW r \in Served', NEW i \in DOMAIN r.segments, r.segments[i].kind # "literal"
        PROVE  tree'[Node(r.segments, i)].name = r.segments[i].text
    <3>1. CASE r \in Served
      <4>1. i \in 0 .. Len(r.segments)
        BY <1>1, <3>1, PatternIs
      <4>2. Node(r.segments, i) \in DOMAIN tree
        BY <3>1, <4>1, OwnNodes DEF TreeHolds
      <4>3. tree[Node(r.segments, i)].name = r.segments[i].text
        BY <2>1, <3>1 DEF TreeHolds, Named
      <4>4. QED
        BY <1>4, <4>2, <4>3
    <3>2. CASE r = route
      <4>1. i \in 1 .. Len(route.segments)
        BY <1>2, <3>2
      <4>2. CASE Node(route.segments, i) \in DOMAIN tree
        <5>1. claimSlot(route.segments, i)
          BY <1>2, <4>1 DEF insertable
        <5>2. tree[Node(route.segments, i)].name = route.segments[i].text
          BY <2>1, <3>2, <4>2, <5>1 DEF claimSlot
        <5>3. QED
          BY <1>4, <3>2, <4>2, <5>2
      <4>3. CASE Node(route.segments, i) \notin DOMAIN tree
        BY <1>4, <2>1, <3>2, <4>1, <4>3
      <4>4. QED
        BY <4>2, <4>3
    <3>3. QED
      BY <1>1, <3>1, <3>2
  <2>2. QED
    BY <2>1 DEF Named, Node, Edge
<1>10. QED
  BY <1>5, <1>6, <1>8, <1>9 DEF TreeHolds

(* The empty tree is that of no routes.                                    *)
LEMMA TreeInitial == Init => TreeInv
<1> SUFFICES ASSUME Init PROVE TreeInv
  OBVIOUS
<1>1. declared = <<>> /\ status = "assembling" /\ tree = EmptyTree
  BY DEF Init
<1>2. declared \in Seq(Routes) /\ DOMAIN declared = {} /\ Served = {}
  BY <1>1 DEF Served, ToSet
<1>3. DOMAIN tree = {Root} /\ tree[Root] = [name |-> "", routes |-> {}]
  BY <1>1 DEF EmptyTree, newTreeNode
<1>4. TreeHolds
  <2>1. Grown
    BY <1>2, <1>3 DEF Grown
  <2>1a. \A id \in DOMAIN tree : tree[id] = [name |-> "", routes |-> {}]
    BY <1>3
  <2>2. NodesTyped
    <3>1. {} \in SUBSET Routes /\ "" \in Names \cup {""}
      OBVIOUS
    <3>2. [name |-> "", routes |-> {}] \in [name : Names \cup {""}, routes : SUBSET Routes]
      BY <3>1
    <3>3. QED
      BY <2>1a, <3>2 DEF NodesTyped
  <2>3. Kept
    <3>1. \A id \in DOMAIN tree : tree[id].routes = {}
      <4>1. ASSUME NEW none PROVE [name |-> "", routes |-> none].routes = none
        OBVIOUS
      <4>2. QED
        BY <2>1a, <4>1
    <3>2. QED
      BY <1>2, <3>1 DEF Kept
  <2>4. Named
    BY <1>2 DEF Named
  <2>5. QED
    BY <2>1, <2>2, <2>3, <2>4 DEF TreeHolds
<1>5. Sound
  BY <1>2 DEF Sound
<1>6. QED
  BY <1>1, <1>2, <1>4, <1>5 DEF TreeInv

(* A route is inserted.                                                    *)
LEMMA InsertKeeps ==
  ASSUME TreeInv, NEW route \in Routes, Insert(route)
  PROVE  TreeInv'
<1>1. /\ status = "assembling" /\ status' = "assembling"
      /\ parsePattern(route.segments) /\ insertable(route)
      /\ tree' = inserted(route) /\ declared' = Append(declared, route)
  BY DEF Insert
<1>2. declared \in Seq(Routes) /\ Sound /\ TreeHolds
  BY <1>1 DEF TreeInv
<1>3. declared' \in Seq(Routes)
  BY <1>1, <1>2, ServedMore
<1>4. TreeHolds'
  BY <1>1, <1>2, TreeGrows
<1>5. Sound'
  BY <1>1, <1>2, SoundMore, InsertableFits
<1>6. QED
  BY <1>1, <1>3, <1>4, <1>5 DEF TreeInv

(* A route is refused, and the surface with it.                            *)
LEMMA RefuseKeeps ==
  ASSUME TreeInv, NEW route \in Routes, Refuse(route)
  PROVE  TreeInv'
<1>1. /\ status = "assembling" /\ status' = "refused"
      /\ ~(parsePattern(route.segments) /\ insertable(route))
      /\ declared' = Append(declared, route)
  BY DEF Refuse
<1>2. declared \in Seq(Routes) /\ Sound /\ TreeHolds
  BY <1>1 DEF TreeInv
<1>3. declared' \in Seq(Routes)
  BY <1>1, <1>2, ServedMore
<1>4. ~Sound'
  BY <1>1, <1>2, SoundMore, RefusedClashes
<1>5. QED
  BY <1>1, <1>3, <1>4 DEF TreeInv

(* Nothing is changed.                                                     *)
LEMMA StutterKeeps ==
  ASSUME TreeInv, UNCHANGED vars
  PROVE  TreeInv'
<1>1. declared' = declared /\ tree' = tree /\ status' = status
  BY DEF vars
<1>2. Served' = Served
  BY <1>1 DEF Served
<1>3. Sound' <=> Sound
  BY <1>1, <1>2 DEF Sound, parsePattern, Clash, Node, Edge
<1>4. TreeHolds' <=> TreeHolds
  BY <1>1, <1>2 DEF TreeHolds, Grown, NodesTyped, Kept, Named, NodesOf, End, Node, Edge, Root
<1>5. QED
  BY <1>1, <1>3, <1>4 DEF TreeInv

(* Every reachable surface: the tree is the one its routes make.           *)
LEMMA TreeAlways == Spec => []TreeInv
<1>1. TreeInv /\ [Next]_vars => TreeInv'
  BY InsertKeeps, RefuseKeeps, StutterKeeps DEF Next
<1>2. QED
  BY <1>1, TreeInitial, PTL DEF Spec

(* RefusedIffClash, read off the invariant.                                *)
LEMMA RefusalIs == TreeInv => RefusedIffClash
BY DEF TreeInv, Sound, RefusedIffClash

(* NewRoutes (routes.go) refuses a surface exactly when a pattern is       *)
(* malformed or two of its routes clash, for any number of routes in any   *)
(* order: what childFor, claimSlot and insert see of the tree is enough.   *)
THEOREM RefusalCorrect == Spec => []RefusedIffClash
BY TreeAlways, RefusalIs, PTL

-----------------------------------------------------------------------------
(* The walk down the tree, defined by recursion over what is left of the   *)
(* path.                                                                   *)

Edges == {Edge(segment) : segment \in Segments}
Below(path) == {id \in DOMAIN tree : Len(id) <= Len(path)}
Branch(g, id, edge, path, method) ==
  IF edge.kind = "wildcard" THEN here(Append(id, edge), path, method)
  ELSE g[Append(id, edge)]
Results(g, id, path, method) ==
  [edge \in branches(id, path[Len(id) + 1]) |-> Branch(g, id, edge, path, method)]
Walk(g, id, path, method) ==
  IF Len(id) = Len(path) THEN here(id, path, method)
  ELSE firstFound(Results(g, id, path, method), id, path)
Walked(path, method) == CHOOSE g : g = [id \in Below(path) |-> Walk(g, id, path, method)]

(* resolve starts the walk at the root.                                    *)
LEMMA ResolveIs ==
  ASSUME NEW path, NEW method
  PROVE  resolve(path, method) = Walked(path, method)[Root]
BY DEF resolve, Walked, Walk, Results, Branch, Below

(* What holds of 0 and of every successor holds of every number.           *)
LEMMA Counting ==
  ASSUME NEW S, 0 \in S, \A n \in Nat : n \in S => n + 1 \in S
  PROVE  Nat \subseteq S
<1> SUFFICES ASSUME Nat \ S # {} PROVE FALSE
  OBVIOUS
<1> DEFINE R == {ss \in Nat \X Nat : ss[1] < ss[2]}
           T == Nat \ S
<1>1. IsWellFoundedOn(R, Nat)
  BY NatLessThanWellFounded DEF OpToRel
<1>2. T \subseteq Nat /\ T # {}
  OBVIOUS
<1> HIDE DEF R, T
<1>3. PICK m \in T : \A k \in T : ~(<<k, m>> \in R)
  BY <1>1, <1>2, WFMin
<1>4. m \in Nat /\ m \notin S
  BY DEF T
<1>5. m # 0 /\ m - 1 \in Nat /\ m - 1 < m /\ (m - 1) + 1 = m
  BY <1>4
<1>6. <<m - 1, m>> \in R
  BY <1>4, <1>5 DEF R
<1>7. m - 1 \in S
  BY <1>3, <1>5, <1>6 DEF T
<1>8. QED
  BY <1>4, <1>5, <1>7

(* The nodes of the tree are sequences of edges.                           *)
LEMMA TreeNodes ==
  ASSUME declared \in Seq(Routes), TreeHolds, NEW id \in DOMAIN tree
  PROVE  id \in Seq(Edges) /\ Len(id) \in Nat /\ DOMAIN id = 1 .. Len(id)
<1>1. CASE id = Root
  BY <1>1 DEF Root
<1>2. CASE id # Root
  <2>1. PICK r \in Served : id \in NodesOf(r)
    BY <1>2 DEF TreeHolds, Grown
  <2>2. r \in Routes /\ DOMAIN r.segments = 1 .. Len(r.segments) /\ Len(r.segments) \in Nat
    BY ServedRoutes, PatternIs
  <2>3. PICK i \in 1 .. Len(r.segments) : id = Node(r.segments, i)
    BY <2>1, <2>2 DEF NodesOf
  <2>4. i \in 0 .. Len(r.segments)
    BY <2>2
  <2>5. id \in Seq(Edges)
    BY <2>2, <2>3, <2>4, NodeIs DEF Edges
  <2>6. QED
    BY <2>5, LenProperties
<1>3. QED
  BY <1>1, <1>2

(* One edge more.                                                          *)
LEMMA OneFurther ==
  ASSUME NEW S, NEW id \in Seq(S), NEW edge
  PROVE  /\ Len(Append(id, edge)) = Len(id) + 1
         /\ \A i \in 1 .. Len(id) : Append(id, edge)[i] = id[i]
         /\ Append(id, edge)[Len(id) + 1] = edge
         /\ DOMAIN Append(id, edge) = 1 .. Len(id) + 1
<1>1. id \in Seq(S \cup {edge})
  BY ElementOfSeq, SeqDef, LenProperties
<1>2. QED
  BY <1>1, AppendProperties

(* One edge more, and back again.                                          *)
LEMMA BackAgain ==
  ASSUME NEW S, NEW id \in Seq(S), NEW edge
  PROVE  SubSeq(Append(id, edge), 1, Len(id)) = id
<1> DEFINE longer == Append(id, edge)
<1>1. Len(id) \in Nat /\ \A i \in 1 .. Len(id) : longer[i] = id[i] /\ id[i] \in S
  BY OneFurther, LenProperties, ElementOfSeq
<1> HIDE DEF longer
<1>2. /\ SubSeq(longer, 1, Len(id)) \in Seq(S)
      /\ Len(SubSeq(longer, 1, Len(id))) = Len(id)
      /\ \A i \in 1 .. Len(id) : SubSeq(longer, 1, Len(id))[i] = longer[i]
  BY <1>1, SubSeqProperties
<1>3. SubSeq(longer, 1, Len(id)) = id
  BY <1>1, <1>2, SeqEqual
<1>4. QED
  BY <1>3 DEF longer

(* A step of the walk depends only on the nodes further down.              *)
LEMMA WalkSame ==
  ASSUME declared \in Seq(Routes), TreeHolds, NEW path \in AnyPath, NEW method,
         NEW id \in Below(path), NEW g, NEW h,
         \A x \in Below(path) : Len(x) > Len(id) => g[x] = h[x]
  PROVE  Walk(g, id, path, method) = Walk(h, id, path, method)
<1>1. id \in Seq(Edges) /\ Len(id) \in Nat /\ Len(path) \in Nat /\ Len(id) <= Len(path)
  BY TreeNodes, PathIs DEF Below
<1>2. CASE Len(id) = Len(path)
  BY <1>2 DEF Walk
<1>3. CASE Len(id) # Len(path)
  <2>1. ASSUME NEW edge \in branches(id, path[Len(id) + 1])
        PROVE  g[Append(id, edge)] = h[Append(id, edge)]
    <3>1. Append(id, edge) \in DOMAIN tree
      BY <2>1 DEF branches
    <3>2. Len(Append(id, edge)) = Len(id) + 1
      BY <1>1, OneFurther
    <3>3. Append(id, edge) \in Below(path) /\ Len(Append(id, edge)) > Len(id)
      BY <1>1, <1>3, <3>1, <3>2 DEF Below
    <3>4. QED
      BY <3>3
  <2>2. \A edge \in branches(id, path[Len(id) + 1]) :
          Branch(g, id, edge, path, method) = Branch(h, id, edge, path, method)
    BY <2>1 DEF Branch
  <2>3. Results(g, id, path, method) = Results(h, id, path, method)
    BY <2>2 DEF Results
  <2>4. QED
    BY <2>3 DEF Walk
<1>4. QED
  BY <1>2, <1>3

(* The recursion is well founded: it defines a function, whatever the tree.*)
LEMMA WalkedIs ==
  ASSUME declared \in Seq(Routes), TreeHolds, NEW path \in AnyPath, NEW method
  PROVE  \A id \in Below(path) :
           Walked(path, method)[id] = Walk(Walked(path, method), id, path, method)
<1> DEFINE Left(id) == Len(path) - Len(id)
           D == Below(path)
           W(g, id) == Walk(g, id, path, method)
<1>1. Len(path) \in Nat
  BY PathIs
<1>2. \A id \in D : Len(id) \in Nat /\ Left(id) \in Nat /\ Left(id) < Len(path) + 1
  BY <1>1, TreeNodes DEF Below
<1>3. ASSUME NEW id \in D, NEW g, NEW h,
             \A x \in D : Left(x) < Left(id) => g[x] = h[x]
      PROVE  W(g, id) = W(h, id)
  <2>1. \A x \in D : Len(x) > Len(id) => g[x] = h[x]
    BY <1>1, <1>2, <1>3
  <2>2. QED
    BY <2>1, WalkSame
<1> HIDE DEF D, W, Left
<1>4. \E g : \A id \in D : g[id] = W(g, id)
  <2> DEFINE S == {n \in Nat : \E g : \A id \in D : Left(id) < n => g[id] = W(g, id)}
  <2>1. 0 \in S
    BY <1>2
  <2>2. ASSUME NEW n \in Nat, n \in S PROVE n + 1 \in S
    <3>1. PICK g : \A id \in D : Left(id) < n => g[id] = W(g, id)
      BY <2>2
    <3> DEFINE h == [id \in D |-> IF Left(id) < n THEN g[id] ELSE W(g, id)]
    <3>2. ASSUME NEW id \in D, Left(id) < n + 1 PROVE h[id] = W(h, id)
      <4>1. \A x \in D : Left(x) < Left(id) => g[x] = h[x]
        BY <1>2, <3>2
      <4>2. W(g, id) = W(h, id)
        BY <1>3, <4>1
      <4>3. h[id] = W(g, id)
        BY <3>1
      <4>4. QED
        BY <4>2, <4>3
    <3>3. \E f : \A id \in D : Left(id) < n + 1 => f[id] = W(f, id)
      <4> HIDE DEF h
      <4>1. QED
        BY <3>2
    <3>4. QED
      BY <3>3
  <2>3. Len(path) + 1 \in S
    <3>1. Nat \subseteq S
      <4> HIDE DEF S
      <4>1. QED
        BY <2>1, <2>2, Counting
    <3>2. QED
      BY <1>1, <3>1
  <2>4. QED
    BY <1>2, <2>3
<1>5. \E g : g = [id \in D |-> W(g, id)]
  <2>1. PICK g : \A id \in D : g[id] = W(g, id)
    BY <1>4
  <2> DEFINE h == [id \in D |-> W(g, id)]
  <2>2. ASSUME NEW id \in D PROVE W(g, id) = W(h, id)
    <3>1. \A x \in D : g[x] = h[x]
      BY <2>1
    <3> HIDE DEF h
    <3>2. QED
      BY <1>3, <3>1
  <2>3. h = [id \in D |-> W(h, id)]
    BY <2>2
  <2>4. QED
    <3> HIDE DEF h
    <3>1. QED
      BY <2>3
<1>6. Walked(path, method) = CHOOSE g : g = [id \in D |-> W(g, id)]
  BY DEF Walked, D, W
<1>7. Walked(path, method) = [id \in D |-> W(Walked(path, method), id)]
  BY <1>5, <1>6
<1>8. \A id \in D : Walked(path, method)[id] = W(Walked(path, method), id)
  <2>1. PICK f : f = Walked(path, method)
    OBVIOUS
  <2>2. f = [id \in D |-> W(f, id)]
    BY <1>7, <2>1
  <2>3. \A id \in D : f[id] = W(f, id)
    BY <2>2
  <2>4. QED
    BY <2>1, <2>3
<1>9. QED
  BY <1>8 DEF D, W

-----------------------------------------------------------------------------
(* Dispatch.                                                               *)

(* The routes a node leads to, and those of them that match the path.      *)
Through(id, r) == Len(id) <= Len(r.segments) /\ Node(r.segments, Len(id)) = id
Reach(id, path) == {r \in Served : Through(id, r) /\ Matches(r, path)}

(* The edges taken are ones the path's segments allow.                     *)
Follows(id, path) ==
  \A i \in 1 .. Len(id) :
    id[i].kind = "capture" \/ (id[i].kind = "literal" /\ id[i].text = path[i])

(* An answer is the right one among some routes: the most specific that    *)
(* serves the method with its own captures, or what the others allow.      *)
Right(result, routes, path, method) ==
  LET serving == {r \in routes : r.method = method} IN
  IF serving = {}
  THEN result.found = {} /\ result.methods = {r.method : r \in routes}
  ELSE \E best \in serving :
         /\ result.found = {best}
         /\ result.captures = Captures(best, path)
         /\ \A s \in serving \ {best} : MoreSpecific(best, s)

(* A segment at a node that follows the path.                              *)
LEMMA SegmentFollows ==
  ASSUME declared \in Seq(Routes), NEW path, NEW id, NEW r \in Served,
         Len(id) \in Nat, Follows(id, path), Through(id, r), NEW i \in 1 .. Len(id)
  PROVE  /\ i \in 1 .. Len(r.segments)
         /\ r.segments[i].kind # "wildcard"
         /\ Fits(r.segments[i], path[i])
         /\ r.segments[i].kind = id[i].kind
<1>1. r \in Routes /\ Len(r.segments) \in Nat
  BY ServedRoutes, PatternIs
<1>2. i \in 1 .. Len(r.segments) /\ Len(id) \in 0 .. Len(r.segments)
  BY <1>1 DEF Through
<1>3. r.segments[i] \in Segments
  BY <1>1, <1>2, PatternIs
<1>4. id[i] = Edge(r.segments[i])
  BY <1>1, <1>2, NodeIs DEF Through
<1>5. /\ id[i].kind = r.segments[i].kind
      /\ r.segments[i].kind = "literal" => id[i].text = r.segments[i].text
  BY <1>3, <1>4, EdgesAre
<1>6. QED
  BY <1>2, <1>5 DEF Follows, Fits

(* The length of what matches.                                             *)
LEMMA MatchLength ==
  ASSUME NEW r \in Routes, NEW path \in AnyPath
  PROVE  Matches(r, path) <=>
           /\ \A i \in 1 .. Len(r.segments) :
                \/ r.segments[i].kind = "wildcard" /\ i = Len(r.segments)
                \/ i <= Len(path) /\ Fits(r.segments[i], path[i])
           /\ IF r.segments[Len(r.segments)].kind = "wildcard"
              THEN Len(r.segments) <= Len(path)
              ELSE Len(r.segments) = Len(path)
<1>1. Len(r.segments) \in Nat \ {0} /\ Len(path) \in Nat
  BY PatternIs, PathIs
<1> DEFINE n == Len(r.segments)
<1>2. CASE r.segments[n].kind = "wildcard"
  <2>1. Matches(r, path) <=> Len(path) >= n /\ \A i \in 1 .. n - 1 : Fits(r.segments[i], path[i])
    BY <1>2 DEF Matches
  <2>2. \A i \in 1 .. n : i \in 1 .. n - 1 \/ i = n
    BY <1>1
  <2>3. ASSUME Matches(r, path), NEW i \in 1 .. n
        PROVE  \/ r.segments[i].kind = "wildcard" /\ i = n
               \/ i <= Len(path) /\ Fits(r.segments[i], path[i])
    <3>1. CASE i = n
      BY <1>2, <3>1
    <3>2. CASE i \in 1 .. n - 1
      BY <1>1, <2>1, <2>3, <3>2
    <3>3. QED
      BY <2>2, <3>1, <3>2
  <2>4. ASSUME \A i \in 1 .. n : \/ r.segments[i].kind = "wildcard" /\ i = n
                                 \/ i <= Len(path) /\ Fits(r.segments[i], path[i]),
               NEW i \in 1 .. n - 1
        PROVE  Fits(r.segments[i], path[i])
    <3>1. i \in 1 .. n /\ i # n
      BY <1>1
    <3>2. QED
      BY <2>4, <3>1
  <2>5. QED
    BY <1>1, <1>2, <2>1, <2>3, <2>4
<1>3. CASE r.segments[n].kind # "wildcard"
  <2>1. Matches(r, path) <=> Len(path) = n /\ \A i \in 1 .. n : Fits(r.segments[i], path[i])
    BY <1>3 DEF Matches
  <2>2. QED
    BY <1>1, <1>3, <2>1
<1>4. QED
  BY <1>2, <1>3

(* At the end of the path a node leads to the routes it holds.             *)
LEMMA AtTheEnd ==
  ASSUME declared \in Seq(Routes), TreeHolds, NEW path \in AnyPath, NEW id \in DOMAIN tree,
         Len(id) = Len(path), Follows(id, path)
  PROVE  Reach(id, path) = {r \in Served : End(r) = id}
<1>1. Len(id) \in Nat \ {0} /\ Len(path) \in Nat
  BY PathIs
<1>2. ASSUME NEW r \in Served
      PROVE  Through(id, r) /\ Matches(r, path) <=> End(r) = id
  <2>1. r \in Routes /\ Len(r.segments) \in Nat \ {0} /\ Len(r.segments) \in 0 .. Len(r.segments)
    BY ServedRoutes, PatternIs
  <2>2. ASSUME Through(id, r), Matches(r, path) PROVE End(r) = id
    <3>1. Len(r.segments) <= Len(path)
      BY <1>1, <2>1, <2>2, MatchLength
    <3>2. Len(r.segments) = Len(id)
      BY <1>1, <2>1, <2>2, <3>1 DEF Through
    <3>3. QED
      BY <2>2, <3>2 DEF Through, End
  <2>3. ASSUME End(r) = id PROVE Through(id, r) /\ Matches(r, path)
    <3>1. Len(id) = Len(r.segments)
      BY <2>1, <2>3, NodeIs DEF End
    <3>2. Through(id, r)
      BY <2>1, <2>3, <3>1 DEF Through, End
    <3>3. \A i \in 1 .. Len(id) : r.segments[i].kind # "wildcard" /\ Fits(r.segments[i], path[i])
      BY <1>1, <3>2, SegmentFollows
    <3>4. Matches(r, path)
      <4>1. Len(r.segments) \in 1 .. Len(id)
        BY <1>1, <3>1
      <4>2. r.segments[Len(r.segments)].kind # "wildcard"
        BY <3>3, <4>1
      <4>3. QED
        BY <3>1, <3>3, <4>2 DEF Matches
    <3>5. QED
      BY <3>2, <3>4
  <2>4. QED
    BY <2>2, <2>3
<1>3. QED
  BY <1>2 DEF Reach

(* A wildcard leads to the routes it holds: it comes last in each of them. *)
LEMMA AtTheWildcard ==
  ASSUME declared \in Seq(Routes), TreeHolds, Sound, NEW path \in AnyPath, NEW id \in DOMAIN tree,
         Len(id) < Len(path), Follows(id, path),
         NEW wild, wild = Append(id, [kind |-> "wildcard"])
  PROVE  Reach(wild, path) = {r \in Served : End(r) = wild}
<1> DEFINE n == Len(id) + 1
<1>1. id \in Seq(Edges) /\ Len(id) \in Nat /\ Len(path) \in Nat /\ n \in Nat \ {0} /\ n <= Len(path)
  BY TreeNodes, PathIs
<1>2. /\ Len(wild) = n
      /\ \A i \in 1 .. Len(id) : wild[i] = id[i]
      /\ wild[n] = [kind |-> "wildcard"]
  BY <1>1, OneFurther
<1>3. ASSUME NEW r \in Served, Through(wild, r)
      PROVE  /\ r \in Routes /\ Len(r.segments) = n
             /\ r.segments[n].kind = "wildcard"
             /\ Through(id, r)
  <2>1. r \in Routes /\ Len(r.segments) \in Nat /\ DOMAIN r.segments = 1 .. Len(r.segments)
    BY ServedRoutes, PatternIs
  <2>2. n \in 1 .. Len(r.segments) /\ n \in 0 .. Len(r.segments) /\ Len(id) \in 0 .. n
    BY <1>1, <1>2, <1>3, <2>1 DEF Through
  <2>3. Node(r.segments, n) = wild
    BY <1>2, <1>3 DEF Through
  <2>4. wild[n] = Edge(r.segments[n])
    <3>1. n \in 1 .. n
      BY <1>1
    <3>2. QED
      BY <2>1, <2>2, <2>3, <3>1, NodeIs
  <2>5. r.segments[n].kind = "wildcard"
    <3>1. r.segments[n] \in Segments
      BY <2>1, <2>2, PatternIs
    <3>2. Edge(r.segments[n]).kind = r.segments[n].kind
      BY <3>1, EdgesAre
    <3>3. QED
      BY <1>2, <2>4, <3>2
  <2>6. n = Len(r.segments)
    BY <2>1, <2>2, <2>5 DEF Sound, parsePattern
  <2>7. Node(r.segments, Len(id)) = id
    <3>1. SubSeq(wild, 1, Len(id)) = Node(r.segments, Len(id))
      BY <2>1, <2>2, <2>3, NodeBefore
    <3>2. SubSeq(wild, 1, Len(id)) = id
      BY <1>1, BackAgain
    <3>3. QED
      BY <3>1, <3>2
  <2>8. QED
    BY <1>1, <2>1, <2>2, <2>5, <2>6, <2>7 DEF Through
<1>4. ASSUME NEW r \in Served
      PROVE  Through(wild, r) /\ Matches(r, path) <=> End(r) = wild
  <2>1. r \in Routes /\ Len(r.segments) \in Nat \ {0} /\ Len(r.segments) \in 0 .. Len(r.segments)
    BY ServedRoutes, PatternIs
  <2>2. ASSUME Through(wild, r) PROVE End(r) = wild
    <3>1. Len(r.segments) = n
      BY <1>3, <2>2
    <3>2. QED
      BY <1>2, <2>2, <3>1 DEF Through, End
  <2>3. ASSUME End(r) = wild PROVE Through(wild, r) /\ Matches(r, path)
    <3>1. Len(r.segments) = n
      <4>1. Len(Node(r.segments, Len(r.segments))) = Len(r.segments)
        BY <2>1, NodeIs
      <4>2. QED
        BY <1>2, <2>3, <4>1 DEF End
    <3>2. Through(wild, r)
      BY <1>2, <2>1, <2>3, <3>1 DEF Through, End
    <3>3. r.segments[n].kind = "wildcard" /\ Through(id, r)
      BY <1>3, <3>2
    <3>4. \A i \in 1 .. Len(id) : Fits(r.segments[i], path[i])
      BY <1>1, <3>3, SegmentFollows
    <3>5. Len(id) = n - 1
      BY <1>1
    <3>6. Matches(r, path)
      BY <1>1, <3>1, <3>3, <3>4, <3>5 DEF Matches
    <3>7. QED
      BY <3>2, <3>6
  <2>4. QED
    BY <2>2, <2>3
<1>5. QED
  BY <1>4 DEF Reach

(* What is bound on the way to the end of a route is what it captures.     *)
LEMMA BindIs ==
  ASSUME declared \in Seq(Routes), TreeHolds, NEW path, NEW r \in Served
  PROVE  bind(End(r), path) = Captures(r, path)
<1> DEFINE n == Len(r.segments)
           s == r.segments
           id == End(r)
<1>1. r \in Routes /\ n \in Nat \ {0} /\ DOMAIN s = 1 .. n /\ n \in 0 .. n
  BY ServedRoutes, PatternIs
<1>2. DOMAIN id = 1 .. n /\ \A i \in 1 .. n : id[i] = Edge(s[i])
  BY <1>1, NodeIs DEF End
<1>3. ASSUME NEW i \in 1 .. n
      PROVE  /\ id[i].kind = s[i].kind
             /\ s[i].kind # "literal" => tree[SubSeq(id, 1, i)].name = s[i].text
  <2>1. s[i] \in Segments /\ i \in 0 .. n
    BY <1>1, PatternIs
  <2>2. id[i].kind = s[i].kind
    BY <1>2, <2>1, EdgesAre
  <2>3. SubSeq(id, 1, i) = Node(s, i)
    BY <1>1, <2>1, NodeBefore DEF End
  <2>4. s[i].kind # "literal" => tree[Node(s, i)].name = s[i].text
    BY <1>1 DEF TreeHolds, Named
  <2>5. QED
    BY <2>2, <2>3, <2>4
<1> DEFINE bound == {i \in 1 .. n : s[i].kind # "literal"}
           Value(i) == IF s[i].kind = "wildcard" THEN SubSeq(path, i, Len(path)) ELSE <<path[i]>>
<1>4. bind(id, path) =
        {[name |-> tree[SubSeq(id, 1, i)].name,
          value |-> IF id[i].kind = "wildcard" THEN SubSeq(path, i, Len(path)) ELSE <<path[i]>>]
            : i \in {j \in DOMAIN id : id[j].kind # "literal"}}
  BY DEF bind
<1>5. {j \in DOMAIN id : id[j].kind # "literal"} = bound
  BY <1>2, <1>3
<1>6. \A i \in bound : tree[SubSeq(id, 1, i)].name = s[i].text /\ id[i].kind = s[i].kind
  BY <1>3
<1>7. Captures(r, path) = {[name |-> s[i].text, value |-> Value(i)] : i \in bound}
  BY <1>1 DEF Captures
<1> HIDE DEF bound, id
<1>8. bind(id, path) = {[name |-> s[i].text, value |-> Value(i)] : i \in bound}
  BY <1>4, <1>5, <1>6
<1>9. QED
  BY <1>7, <1>8 DEF id

(* A node answers right for the routes it holds: at most one a method.     *)
LEMMA HereRight ==
  ASSUME declared \in Seq(Routes), TreeHolds, Sound, NEW path, NEW method,
         NEW id \in DOMAIN tree, Reach(id, path) = {r \in Served : End(r) = id}
  PROVE  Right(here(id, path, method), Reach(id, path), path, method)
<1> DEFINE held == {r \in Served : End(r) = id}
           serving == {r \in held : r.method = method}
<1>1. tree[id].routes = held
  BY DEF TreeHolds, Kept
<1>2. /\ here(id, path, method).found = serving
      /\ here(id, path, method).captures = bind(id, path)
      /\ serving = {} => here(id, path, method).methods = {r.method : r \in held}
  BY <1>1 DEF here
<1>3. ASSUME NEW r \in serving, NEW s \in serving PROVE r = s
  <2>1. r \in Served /\ s \in Served /\ End(r) = End(s) /\ r.method = s.method
    OBVIOUS
  <2>2. r \in Routes /\ s \in Routes
    BY <2>1, ServedRoutes
  <2>3. Clash(r, s)
    BY <2>1, <2>2, ClashIs
  <2>4. PICK i \in DOMAIN declared, j \in DOMAIN declared : declared[i] = r /\ declared[j] = s
    BY <2>1, ServedRoutes
  <2>5. i = j
    BY <2>3, <2>4 DEF Sound
  <2>6. QED
    BY <2>4, <2>5
<1>4. CASE serving = {}
  BY <1>2, <1>4 DEF Right
<1>5. CASE serving # {}
  <2>1. PICK best \in serving : TRUE
    BY <1>5
  <2>2. serving = {best}
    BY <1>3, <2>1
  <2>3. bind(id, path) = Captures(best, path)
    BY BindIs
  <2>4. /\ here(id, path, method).found = {best}
        /\ here(id, path, method).captures = Captures(best, path)
        /\ \A s \in serving \ {best} : MoreSpecific(best, s)
    BY <1>2, <2>2, <2>3
  <2>5. QED
    BY <1>5, <2>1, <2>4 DEF Right
<1>6. QED
  BY <1>4, <1>5

(* The branches of a node.                                                 *)
LEMMA BranchesAre ==
  ASSUME NEW id, NEW part
  PROVE  /\ \A edge \in branches(id, part) :
              /\ Append(id, edge) \in DOMAIN tree
              /\ edge.kind \in Kinds
              /\ edge.kind = "literal" => edge.text = part
              /\ edge.kind = "wildcard" => edge = [kind |-> "wildcard"]
         /\ \A e, f \in branches(id, part) : e.kind = f.kind => e = f
<1> DEFINE literal == [kind |-> "literal", text |-> part]
           capture == [kind |-> "capture"]
           wildcard == [kind |-> "wildcard"]
<1>1. \A edge \in branches(id, part) :
        Append(id, edge) \in DOMAIN tree /\ (edge = literal \/ edge = capture \/ edge = wildcard)
  BY DEF branches
<1>2. /\ literal.kind = "literal" /\ literal.text = part
      /\ capture.kind = "capture" /\ wildcard.kind = "wildcard"
  OBVIOUS
<1> HIDE DEF literal, capture
<1>3. QED
  BY <1>1, <1>2 DEF Kinds

(* The routes a node leads to are divided among its branches.              *)
LEMMA Branching ==
  ASSUME declared \in Seq(Routes), TreeHolds, NEW path \in AnyPath, NEW id \in DOMAIN tree,
         Len(id) < Len(path), Follows(id, path),
         NEW n, n = Len(id) + 1
  PROVE  /\ \A r \in Reach(id, path) : \E edge \in branches(id, path[n]) :
              r \in Reach(Append(id, edge), path)
         /\ \A edge \in branches(id, path[n]) : \A r \in Reach(Append(id, edge), path) :
              /\ r \in Reach(id, path)
              /\ n \in 1 .. Len(r.segments)
              /\ r.segments[n].kind = edge.kind
<1>1. id \in Seq(Edges) /\ Len(id) \in Nat /\ Len(path) \in Nat /\ n \in Nat \ {0} /\ n <= Len(path)
  BY TreeNodes, PathIs
<1>2. ASSUME NEW r \in Reach(id, path)
      PROVE  \E edge \in branches(id, path[n]) : r \in Reach(Append(id, edge), path)
  <2>1. /\ r \in Served /\ r \in Routes /\ Len(r.segments) \in Nat \ {0}
        /\ DOMAIN r.segments = 1 .. Len(r.segments)
        /\ Through(id, r) /\ Matches(r, path)
    BY ServedRoutes, PatternIs DEF Reach
  <2>2. Len(id) < Len(r.segments)
    <3>1. Len(id) <= Len(r.segments)
      BY <2>1 DEF Through
    <3>2. ASSUME Len(id) = Len(r.segments) PROVE FALSE
      <4>1. Len(id) \in 1 .. Len(id)
        BY <2>1, <3>2
      <4>2. r.segments[Len(id)].kind # "wildcard"
        BY <1>1, <2>1, <4>1, SegmentFollows
      <4>3. Len(r.segments) = Len(path)
        BY <2>1, <3>2, <4>2, MatchLength
      <4>4. QED
        BY <1>1, <3>2, <4>3
    <3>3. QED
      BY <1>1, <2>1, <3>1, <3>2
  <2>3. n \in 1 .. Len(r.segments)
    BY <1>1, <2>1, <2>2
  <2> DEFINE edge == Edge(r.segments[n])
  <2>4. r.segments[n] \in Segments /\ r.segments[n].kind \in Kinds
    BY <2>1, <2>3, PatternIs
  <2>5. Append(id, edge) = Node(r.segments, n)
    BY <1>1, <2>1, <2>2, NodeFurther DEF Through
  <2>6. Append(id, edge) \in DOMAIN tree
    <3>1. n \in 0 .. Len(r.segments)
      BY <2>1, <2>3
    <3>2. QED
      BY <2>1, <2>5, <3>1, OwnNodes DEF TreeHolds
  <2>7. Len(Append(id, edge)) = n
    BY <1>1, OneFurther
  <2>8. Through(Append(id, edge), r)
    BY <2>1, <2>3, <2>5, <2>7 DEF Through
  <2>9. edge = [kind |-> "literal", text |-> path[n]] \/ edge = [kind |-> "capture"] \/ edge = [kind |-> "wildcard"]
    <3>1. CASE r.segments[n].kind = "literal"
      <4>1. Fits(r.segments[n], path[n])
        BY <2>1, <2>3, <3>1, MatchLength
      <4>2. r.segments[n].text = path[n]
        BY <3>1, <4>1 DEF Fits
      <4>3. r.segments[n] = [kind |-> "literal", text |-> r.segments[n].text]
        BY <2>4, <3>1 DEF Segments
      <4>4. edge = r.segments[n]
        BY <2>4, <3>1, EdgesAre
      <4>5. QED
        BY <4>2, <4>3, <4>4
    <3>2. CASE r.segments[n].kind # "literal"
      BY <2>4, <3>2, EdgesAre DEF Kinds
    <3>3. QED
      BY <3>1, <3>2
  <2> HIDE DEF edge
  <2>10. edge \in branches(id, path[n])
    BY <2>6, <2>9 DEF branches
  <2>11. r \in Reach(Append(id, edge), path)
    BY <2>1, <2>8 DEF Reach
  <2>12. QED
    BY <2>10, <2>11
<1>3. ASSUME NEW edge \in branches(id, path[n]), NEW r \in Reach(Append(id, edge), path)
      PROVE  /\ r \in Reach(id, path)
             /\ n \in 1 .. Len(r.segments)
             /\ r.segments[n].kind = edge.kind
  <2>1. /\ r \in Served /\ r \in Routes /\ Len(r.segments) \in Nat \ {0}
        /\ Through(Append(id, edge), r) /\ Matches(r, path)
    BY ServedRoutes, PatternIs DEF Reach
  <2>2. Len(Append(id, edge)) = n /\ Append(id, edge)[n] = edge
    BY <1>1, OneFurther
  <2>3. n \in 1 .. Len(r.segments) /\ n \in 0 .. Len(r.segments) /\ Len(id) \in 0 .. n /\ n \in 1 .. n
    BY <1>1, <2>1, <2>2 DEF Through
  <2>4. Node(r.segments, n) = Append(id, edge)
    BY <2>1, <2>2 DEF Through
  <2>5. edge = Edge(r.segments[n])
    <3>1. \A j \in 1 .. n : Node(r.segments, n)[j] = Edge(r.segments[j])
      BY <2>1, <2>3, NodeIs
    <3>2. QED
      BY <2>2, <2>3, <2>4, <3>1
  <2>6. r.segments[n].kind = edge.kind
    BY <2>1, <2>3, <2>5, PatternIs, EdgesAre
  <2>7. Node(r.segments, Len(id)) = id
    <3>1. SubSeq(Node(r.segments, n), 1, Len(id)) = Node(r.segments, Len(id))
      BY <2>1, <2>3, NodeBefore
    <3>2. SubSeq(Append(id, edge), 1, Len(id)) = id
      BY <1>1, BackAgain
    <3>3. QED
      BY <2>4, <3>1, <3>2
  <2>8. Through(id, r)
    BY <1>1, <2>1, <2>3, <2>7 DEF Through
  <2>9. QED
    BY <2>1, <2>3, <2>6, <2>8 DEF Reach
<1>4. QED
  BY <1>2, <1>3

(* When a branch is tried is how specific the segments on it are.          *)
LEMMA TurnIsRank ==
  ASSUME NEW edge, NEW segment, edge.kind \in Kinds, segment.kind = edge.kind
  PROVE  turn(edge) = Rank(segment) /\ turn(edge) \in 1 .. 3
<1>1. edge.kind = "literal" \/ edge.kind = "capture" \/ edge.kind = "wildcard"
  BY DEF Kinds
<1>2. CASE edge.kind = "literal"
  BY <1>2 DEF turn, Rank
<1>3. CASE edge.kind = "capture"
  BY <1>3 DEF turn, Rank
<1>4. CASE edge.kind = "wildcard"
  BY <1>4 DEF turn, Rank
<1>5. QED
  BY <1>1, <1>2, <1>3, <1>4

(* Some branch comes first, and each has a turn of its own.                *)
LEMMA FirstOfBranches ==
  ASSUME NEW id, NEW part, NEW hits \in SUBSET branches(id, part), hits # {}
  PROVE  /\ \E edge \in hits : \A other \in hits : turn(edge) <= turn(other)
         /\ \A e, f \in hits : turn(e) = turn(f) => e = f
         /\ \A e \in hits : turn(e) \in 1 .. 3
<1>1. \A edge \in hits :
        \/ edge.kind = "literal" /\ turn(edge) = 1
        \/ edge.kind = "capture" /\ turn(edge) = 2
        \/ edge.kind = "wildcard" /\ turn(edge) = 3
  <2> SUFFICES ASSUME NEW edge \in hits
               PROVE  \/ edge.kind = "literal" /\ turn(edge) = 1
                      \/ edge.kind = "capture" /\ turn(edge) = 2
                      \/ edge.kind = "wildcard" /\ turn(edge) = 3
    OBVIOUS
  <2>1. edge.kind \in Kinds
    BY BranchesAre
  <2>2. edge.kind = "literal" \/ edge.kind = "capture" \/ edge.kind = "wildcard"
    BY <2>1 DEF Kinds
  <2>3. edge.kind = "literal" => turn(edge) = 1
    BY DEF turn
  <2>4. edge.kind = "capture" => turn(edge) = 2
    BY DEF turn
  <2>5. edge.kind = "wildcard" => turn(edge) = 3
    BY DEF turn
  <2>6. QED
    BY <2>2, <2>3, <2>4, <2>5
<1>2. \A e, f \in hits : e.kind = f.kind => e = f
  BY BranchesAre
<1>3. \E edge \in hits : \A other \in hits : turn(edge) <= turn(other)
  <2>1. CASE \E edge \in hits : turn(edge) = 1
    BY <1>1, <2>1
  <2>2. CASE (\A edge \in hits : turn(edge) # 1) /\ \E edge \in hits : turn(edge) = 2
    BY <1>1, <2>2
  <2>3. CASE \A edge \in hits : turn(edge) = 3
    BY <2>3
  <2>4. QED
    BY <1>1, <2>1, <2>2, <2>3
<1>4. QED
  BY <1>1, <1>2, <1>3

(* Where two routes part at a node, the one whose branch is tried first is *)
(* the more specific.                                                      *)
LEMMA PartingWays ==
  ASSUME declared \in Seq(Routes), NEW id, Len(id) \in Nat, NEW n, n = Len(id) + 1,
         NEW r \in Served, NEW s \in Served, Through(id, r), Through(id, s),
         n \in 1 .. Len(r.segments), n \in 1 .. Len(s.segments),
         Rank(r.segments[n]) < Rank(s.segments[n])
  PROVE  MoreSpecific(r, s)
<1>1. /\ r \in Routes /\ Len(r.segments) \in Nat /\ DOMAIN r.segments = 1 .. Len(r.segments)
      /\ s \in Routes /\ Len(s.segments) \in Nat /\ DOMAIN s.segments = 1 .. Len(s.segments)
  BY ServedRoutes, PatternIs
<1>2. ASSUME NEW j \in 1 .. Len(id) PROVE Rank(r.segments[j]) = Rank(s.segments[j])
  <2>1. Node(r.segments, Len(id)) = Node(s.segments, Len(id))
    BY DEF Through
  <2>2. Len(id) \in 1 .. Len(r.segments) /\ Len(id) \in 1 .. Len(s.segments)
    BY <1>1
  <2>3. r.segments[j].kind = s.segments[j].kind
    BY <1>1, <2>1, <2>2, SharedNode
  <2>4. QED
    BY <2>3 DEF Rank
<1>3. n - 1 = Len(id)
  OBVIOUS
<1>4. n \in DOMAIN r.segments \cap DOMAIN s.segments
  BY <1>1
<1>5. QED
  BY <1>2, <1>3, <1>4 DEF MoreSpecific

(* Taking the first branch that found a route is right for the node when   *)
(* every branch is right for its own.                                      *)
LEMMA FirstRight ==
  ASSUME declared \in Seq(Routes), TreeHolds, NEW path \in AnyPath, NEW method,
         NEW id \in DOMAIN tree, Len(id) < Len(path), Follows(id, path),
         NEW results, DOMAIN results = branches(id, path[Len(id) + 1]),
         \A edge \in DOMAIN results :
           Right(results[edge], Reach(Append(id, edge), path), path, method)
  PROVE  Right(firstFound(results, id, path), Reach(id, path), path, method)
<1> DEFINE n == Len(id) + 1
           At(edge) == Reach(Append(id, edge), path)
           Serving(routes) == {r \in routes : r.method = method}
           B == DOMAIN results
           hits == {edge \in B : results[edge].found # {}}
           answer == firstFound(results, id, path)
           all == Reach(id, path)
<1>1. Len(id) \in Nat /\ \A edge \in B : edge.kind \in Kinds
  BY TreeNodes, BranchesAre
<1>2. /\ \A r \in all : \E edge \in B : r \in At(edge)
      /\ \A edge \in B : \A r \in At(edge) :
           r \in all /\ n \in 1 .. Len(r.segments) /\ r.segments[n].kind = edge.kind
  BY Branching
<1>3. \A r \in all : r \in Served /\ Through(id, r)
  BY DEF Reach
<1> HIDE DEF At, B, all
<1>4. \A edge \in B : Right(results[edge], At(edge), path, method)
  BY DEF At, B
<1>5. \A edge \in B : Serving(At(edge)) = {} =>
        results[edge].found = {} /\ results[edge].methods = {r.method : r \in At(edge)}
  BY <1>4 DEF Right
<1>6. \A edge \in B : Serving(At(edge)) # {} =>
        \E best \in Serving(At(edge)) :
          /\ results[edge].found = {best}
          /\ results[edge].captures = Captures(best, path)
          /\ \A s \in Serving(At(edge)) \ {best} : MoreSpecific(best, s)
  BY <1>4 DEF Right
<1>7. \A edge \in B : edge \in hits <=> Serving(At(edge)) # {}
  BY <1>5, <1>6
<1>8. CASE hits = {}
  <2>1. Serving(all) = {}
    BY <1>2, <1>7, <1>8
  <2>2. answer.found = {} /\ answer.methods = UNION {results[edge].methods : edge \in B}
    BY <1>8 DEF firstFound, B
  <2>3. \A edge \in B : results[edge].methods = {r.method : r \in At(edge)}
    BY <1>5, <1>7, <1>8
  <2> HIDE DEF hits
  <2>4. UNION {results[edge].methods : edge \in B} = {r.method : r \in all}
    <3>1. ASSUME NEW m \in UNION {results[edge].methods : edge \in B}
          PROVE  m \in {r.method : r \in all}
      <4>1. PICK edge \in B : m \in results[edge].methods
        BY <3>1
      <4>2. PICK r \in At(edge) : m = r.method
        BY <2>3, <4>1
      <4>3. QED
        BY <1>2, <4>2
    <3>2. ASSUME NEW r \in all
          PROVE  r.method \in UNION {results[edge].methods : edge \in B}
      <4>1. PICK edge \in B : r \in At(edge)
        BY <1>2
      <4>2. r.method \in results[edge].methods
        BY <2>3, <4>1
      <4>3. QED
        BY <4>2
    <3>3. QED
      BY <3>1, <3>2
  <2> HIDE DEF answer
  <2>5. answer.methods = {r.method : r \in all}
    BY <2>2, <2>4
  <2>6. QED
    BY <2>1, <2>2, <2>5 DEF Right, answer, all
<1>9. CASE hits # {}
  <2> DEFINE first == CHOOSE edge \in hits : \A other \in hits : turn(edge) <= turn(other)
  <2>1. hits \in SUBSET branches(id, path[n])
    BY DEF B
  <2>2. answer = results[first]
    BY <1>9 DEF firstFound, B
  <2> HIDE DEF hits, answer
  <2>3. /\ \E edge \in hits : \A other \in hits : turn(edge) <= turn(other)
        /\ \A e, f \in hits : turn(e) = turn(f) => e = f
        /\ \A e \in hits : turn(e) \in 1 .. 3
    <3>1. PICK part : part = path[n]
      OBVIOUS
    <3>2. hits \in SUBSET branches(id, part)
      BY <2>1, <3>1
    <3>3. QED
      BY <1>9, <3>2, FirstOfBranches
  <2>4. first \in hits /\ \A other \in hits : turn(first) <= turn(other)
    BY <2>3
  <2> HIDE DEF first
  <2>5. first \in B
    BY <2>4 DEF hits
  <2>6. PICK best \in Serving(At(first)) :
          /\ results[first].found = {best}
          /\ results[first].captures = Captures(best, path)
          /\ \A s \in Serving(At(first)) \ {best} : MoreSpecific(best, s)
    BY <1>6, <1>7, <2>4, <2>5
  <2>7. /\ best \in Serving(all) /\ best \in At(first) /\ best \in all
        /\ n \in 1 .. Len(best.segments) /\ best.segments[n].kind = first.kind
    BY <1>2, <2>5, <2>6
  <2>8. ASSUME NEW s \in Serving(all) \ {best} PROVE MoreSpecific(best, s)
    <3>1. s \in all /\ s.method = method
      OBVIOUS
    <3>2. PICK edge \in B : s \in At(edge)
      BY <1>2, <3>1
    <3>3. edge \in hits
      BY <1>7, <3>1, <3>2
    <3>4. CASE edge = first
      BY <2>6, <2>8, <3>1, <3>2, <3>4
    <3>5. CASE edge # first
      <4>1. turn(first) < turn(edge)
        BY <2>3, <2>4, <3>3, <3>5
      <4>2. n \in 1 .. Len(s.segments) /\ s.segments[n].kind = edge.kind
        BY <1>2, <3>2
      <4>3. Rank(best.segments[n]) < Rank(s.segments[n])
        BY <1>1, <2>5, <2>7, <4>1, <4>2, TurnIsRank
      <4>4. QED
        BY <1>1, <1>3, <2>7, <3>1, <4>2, <4>3, PartingWays
    <3>6. QED
      BY <3>4, <3>5
  <2>9. answer.found = {best} /\ answer.captures = Captures(best, path)
    BY <2>2, <2>6
  <2>10. QED
    BY <2>7, <2>8, <2>9 DEF Right, answer, all
<1>10. QED
  BY <1>8, <1>9

(* The walk is right at every node that follows the path, by induction on  *)
(* what is left of the path.                                               *)
LEMMA WalkRight ==
  ASSUME declared \in Seq(Routes), TreeHolds, Sound, NEW path \in AnyPath, NEW method,
         NEW id \in Below(path), Follows(id, path)
  PROVE  Right(Walked(path, method)[id], Reach(id, path), path, method)
<1> DEFINE g == Walked(path, method)
           Good(x) == Right(g[x], Reach(x, path), path, method)
           S == {n \in Nat : \A x \in Below(path) :
                               Len(path) - Len(x) = n /\ Follows(x, path) => Good(x)}
<1>1. Len(path) \in Nat /\ \A x \in Below(path) : /\ x \in DOMAIN tree /\ x \in Seq(Edges)
                                                  /\ Len(x) \in Nat /\ Len(x) <= Len(path)
  BY PathIs, TreeNodes DEF Below
<1>2. \A x \in Below(path) : g[x] = Walk(g, x, path, method)
  BY WalkedIs
<1> HIDE DEF g
<1>3. 0 \in S
  <2> SUFFICES ASSUME NEW x \in Below(path), Len(path) - Len(x) = 0, Follows(x, path)
               PROVE  Good(x)
    OBVIOUS
  <2>1. Len(x) = Len(path) /\ x \in DOMAIN tree
    BY <1>1
  <2>2. g[x] = here(x, path, method)
    BY <1>2, <2>1 DEF Walk
  <2>3. Reach(x, path) = {r \in Served : End(r) = x}
    BY <2>1, AtTheEnd
  <2>4. QED
    BY <2>1, <2>2, <2>3, HereRight
<1>4. ASSUME NEW n \in Nat, n \in S PROVE n + 1 \in S
  <2> SUFFICES ASSUME NEW x \in Below(path), Len(path) - Len(x) = n + 1, Follows(x, path)
               PROVE  Good(x)
    OBVIOUS
  <2>1. Len(x) < Len(path) /\ x \in DOMAIN tree /\ x \in Seq(Edges) /\ Len(x) \in Nat
    BY <1>1
  <2> DEFINE part == path[Len(x) + 1]
             results == Results(g, x, path, method)
  <2>2. g[x] = firstFound(results, x, path)
    BY <1>1, <1>2, <2>1 DEF Walk
  <2>3. /\ DOMAIN results = branches(x, part)
        /\ \A edge \in branches(x, part) : results[edge] = Branch(g, x, edge, path, method)
    BY DEF Results
  <2> HIDE DEF results
  <2>4. ASSUME NEW edge \in branches(x, part)
        PROVE  Right(results[edge], Reach(Append(x, edge), path), path, method)
    <3>1. /\ Append(x, edge) \in DOMAIN tree /\ edge.kind \in Kinds
          /\ edge.kind = "literal" => edge.text = part
          /\ edge.kind = "wildcard" => edge = [kind |-> "wildcard"]
      BY BranchesAre
    <3>2. /\ Len(Append(x, edge)) = Len(x) + 1
          /\ \A i \in 1 .. Len(x) : Append(x, edge)[i] = x[i]
          /\ Append(x, edge)[Len(x) + 1] = edge
      BY <2>1, OneFurther
    <3>3. CASE edge.kind = "wildcard"
      <4>1. Reach(Append(x, edge), path) = {r \in Served : End(r) = Append(x, edge)}
        BY <2>1, <3>1, <3>3, AtTheWildcard
      <4>2. results[edge] = here(Append(x, edge), path, method)
        BY <2>3, <3>3 DEF Branch
      <4>3. QED
        BY <3>1, <4>1, <4>2, HereRight
    <3>4. CASE edge.kind # "wildcard"
      <4>1. results[edge] = g[Append(x, edge)]
        BY <2>3, <3>4 DEF Branch
      <4>2. Append(x, edge) \in Below(path) /\ Len(path) - Len(Append(x, edge)) = n
        BY <1>1, <2>1, <3>1, <3>2 DEF Below
      <4>3. Follows(Append(x, edge), path)
        <5>1. ASSUME NEW i \in 1 .. Len(x) + 1
              PROVE  LET e == Append(x, edge)[i] IN
                     e.kind = "capture" \/ (e.kind = "literal" /\ e.text = path[i])
          <6>1. CASE i \in 1 .. Len(x)
            BY <3>2, <6>1 DEF Follows
          <6>2. CASE i = Len(x) + 1
            BY <3>1, <3>2, <3>4, <6>2 DEF Kinds
          <6>3. QED
            BY <2>1, <6>1, <6>2
        <5>2. QED
          BY <3>2, <5>1 DEF Follows
      <4>4. Good(Append(x, edge))
        BY <1>4, <4>2, <4>3
      <4>5. QED
        BY <4>1, <4>4
    <3>5. QED
      BY <3>3, <3>4
  <2>5. Right(firstFound(results, x, path), Reach(x, path), path, method)
    BY <2>1, <2>3, <2>4, FirstRight
  <2>6. QED
    BY <2>2, <2>5
<1>5. Len(path) - Len(id) \in S
  <2>1. Nat \subseteq S
    <3> HIDE DEF S
    <3>1. QED
      BY <1>3, <1>4, Counting
  <2>2. Len(path) - Len(id) \in Nat
    BY <1>1
  <2>3. QED
    BY <2>1, <2>2
<1>6. QED
  BY <1>5 DEF g

(* What resolve finds for a path among all the routes that match it.       *)
LEMMA ResolveRight ==
  ASSUME declared \in Seq(Routes), TreeHolds, Sound, NEW path \in AnyPath, NEW method
  PROVE  Right(resolve(path, method), {r \in Served : Matches(r, path)}, path, method)
<1>1. Len(path) \in Nat
  BY PathIs
<1>2. Root \in Below(path)
  BY <1>1 DEF TreeHolds, Grown, Below, Root
<1>3. Follows(Root, path)
  BY DEF Follows, Root
<1>4. Reach(Root, path) = {r \in Served : Matches(r, path)}
  <2>1. ASSUME NEW r \in Served PROVE Through(Root, r)
    <3>1. r \in Routes /\ Len(r.segments) \in Nat
      BY ServedRoutes, PatternIs
    <3>2. Node(r.segments, 0) = Root
      BY <3>1, NodeOfNone
    <3>3. Len(Root) = 0
      BY DEF Root
    <3>4. QED
      BY <3>1, <3>2, <3>3 DEF Through
  <2>2. QED
    BY <2>1 DEF Reach
<1>5. QED
  BY <1>2, <1>3, <1>4, WalkRight, ResolveIs

(* Of two routes at most one is the more specific.                         *)
LEMMA OneWay ==
  ASSUME NEW r \in Routes, NEW s \in Routes, MoreSpecific(r, s)
  PROVE  ~MoreSpecific(s, r)
<1>1. /\ DOMAIN r.segments = 1 .. Len(r.segments) /\ Len(r.segments) \in Nat
      /\ DOMAIN s.segments = 1 .. Len(s.segments) /\ Len(s.segments) \in Nat
      /\ \A i \in DOMAIN r.segments : Rank(r.segments[i]) \in Nat
      /\ \A i \in DOMAIN s.segments : Rank(s.segments[i]) \in Nat
  <2>1. ASSUME NEW segment, segment.kind \in Kinds PROVE Rank(segment) \in Nat
    BY <2>1, TurnIsRank
  <2>2. QED
    BY <2>1, PatternIs
<1>2. PICK i \in DOMAIN r.segments \cap DOMAIN s.segments :
        /\ Rank(r.segments[i]) < Rank(s.segments[i])
        /\ \A j \in 1 .. i - 1 : Rank(r.segments[j]) = Rank(s.segments[j])
  BY DEF MoreSpecific
<1>3. SUFFICES ASSUME NEW k \in DOMAIN s.segments \cap DOMAIN r.segments,
                      Rank(s.segments[k]) < Rank(r.segments[k]),
                      \A j \in 1 .. k - 1 : Rank(s.segments[j]) = Rank(r.segments[j])
               PROVE  FALSE
  BY DEF MoreSpecific
<1>4. i \in Nat /\ k \in Nat /\ i >= 1 /\ k >= 1
  BY <1>1
<1>5. CASE i < k
  BY <1>1, <1>2, <1>3, <1>4, <1>5
<1>6. CASE k < i
  BY <1>1, <1>2, <1>3, <1>4, <1>6
<1>7. CASE i = k
  BY <1>1, <1>2, <1>3, <1>7
<1>8. QED
  BY <1>4, <1>5, <1>6, <1>7

(* The routes whose patterns match a path, and those for the method too.   *)
Matching(path) == {r \in Served : Matches(r, path)}
Fitting(path, method) == {r \in Matching(path) : r.method = method}
Allowed(path) == {r.method : r \in Matching(path)}
MostSpecificOf(routes) == CHOOSE r \in routes : \A s \in routes \ {r} : MoreSpecific(r, s)

(* What Handler says of a request.                                         *)
LEMMA HandlerSays ==
  ASSUME TreeInv, status = "assembling", NEW path \in AnyPath, NEW method
  PROVE  /\ Fitting(path, method) # {} =>
              \E best \in Fitting(path, method) :
                /\ Handler(path, method) = [status |-> 200, routes |-> {best},
                                            captures |-> Captures(best, path)]
                /\ \A s \in Fitting(path, method) \ {best} : MoreSpecific(best, s)
         /\ Fitting(path, method) = {} /\ Matching(path) # {} =>
              Handler(path, method) = [status |-> 405, allow |-> Allowed(path)]
         /\ Matching(path) = {} => Handler(path, method) = [status |-> 404]
<1> DEFINE matching == Matching(path)
           fitting == Fitting(path, method)
<1>1. Right(resolve(path, method), matching, path, method)
  BY ResolveRight DEF TreeInv, Matching
<1>2. PICK match : match = resolve(path, method)
  OBVIOUS
<1>3. Handler(path, method) =
        IF match.found # {}
        THEN [status |-> 200, routes |-> match.found, captures |-> match.captures]
        ELSE IF match.methods # {} THEN [status |-> 405, allow |-> match.methods]
             ELSE [status |-> 404]
  BY <1>2 DEF Handler
<1>4. ASSUME fitting # {}
      PROVE  \E best \in fitting :
               /\ Handler(path, method) = [status |-> 200, routes |-> {best},
                                           captures |-> Captures(best, path)]
               /\ \A s \in fitting \ {best} : MoreSpecific(best, s)
  <2>1. PICK best \in fitting : /\ match.found = {best}
                                /\ match.captures = Captures(best, path)
                                /\ \A s \in fitting \ {best} : MoreSpecific(best, s)
    BY <1>1, <1>2, <1>4 DEF Right, Fitting
  <2>2. Handler(path, method) = [status |-> 200, routes |-> {best}, captures |-> Captures(best, path)]
    BY <1>3, <2>1
  <2>3. QED
    BY <2>1, <2>2
<1>5. ASSUME fitting = {}
      PROVE  match.found = {} /\ match.methods = Allowed(path)
  BY <1>1, <1>2, <1>5 DEF Right, Fitting, Allowed
<1>6. matching = {} => fitting = {} /\ Allowed(path) = {}
  BY DEF Fitting, Allowed
<1>7. matching # {} => Allowed(path) # {}
  BY DEF Allowed
<1>8. ASSUME fitting = {}, matching # {}
      PROVE  Handler(path, method) = [status |-> 405, allow |-> Allowed(path)]
  BY <1>3, <1>5, <1>7, <1>8
<1>9. ASSUME matching = {} PROVE Handler(path, method) = [status |-> 404]
  <2>1. match.found = {} /\ match.methods = {}
    BY <1>5, <1>6, <1>9
  <2>2. QED
    BY <1>3, <2>1
<1>10. QED
  BY <1>4, <1>8, <1>9

(* The most specific of some routes is one of a kind.                      *)
LEMMA MostSpecificIs ==
  ASSUME NEW routes \in SUBSET Routes, NEW best \in routes,
         \A s \in routes \ {best} : MoreSpecific(best, s)
  PROVE  MostSpecificOf(routes) = best
<1>1. PICK chosen : chosen = MostSpecificOf(routes)
  OBVIOUS
<1>2. chosen \in routes /\ \A s \in routes \ {chosen} : MoreSpecific(chosen, s)
  BY <1>1 DEF MostSpecificOf
<1>3. chosen = best
  BY <1>2, OneWay
<1>4. QED
  BY <1>1, <1>3

(* A request is answered by the most specific of the routes it fits.       *)
LEMMA ServesBest == TreeInv => MostSpecificServes
<1> SUFFICES ASSUME TreeInv, status = "assembling", NEW path \in Paths, NEW method \in Methods
             PROVE  LET fitting == {r \in Served : r.method = method /\ Matches(r, path)}
                        answer == Handler(path, method)
                        best == CHOOSE r \in fitting : \A s \in fitting \ {r} : MoreSpecific(r, s)
                    IN  IF fitting = {} THEN answer.status # 200
                        ELSE /\ answer.status = 200
                             /\ answer.routes = {best}
                             /\ answer.captures = Captures(best, path)
  BY DEF MostSpecificServes
<1> DEFINE F == {r \in Served : r.method = method /\ Matches(r, path)}
<1>1. F = Fitting(path, method)
  BY DEF Fitting, Matching
<1>2. F \in SUBSET Routes
  BY ServedRoutes DEF TreeInv
<1> HIDE DEF F
<1>3. PICK answer : answer = Handler(path, method)
  OBVIOUS
<1>4. ASSUME F = {} PROVE answer.status # 200
  <2>1. \/ answer = [status |-> 405, allow |-> Allowed(path)]
        \/ answer = [status |-> 404]
    <3>1. Fitting(path, method) = {} /\ path \in AnyPath
      BY <1>1, <1>4, PathsAre
    <3>2. QED
      BY <1>3, <3>1, HandlerSays
  <2>2. QED
    BY <2>1
<1>5. ASSUME F # {}
      PROVE  /\ answer.status = 200
             /\ answer.routes = {MostSpecificOf(F)}
             /\ answer.captures = Captures(MostSpecificOf(F), path)
  <2>1. PICK best \in F :
          /\ answer = [status |-> 200, routes |-> {best}, captures |-> Captures(best, path)]
          /\ \A s \in F \ {best} : MoreSpecific(best, s)
    BY <1>1, <1>3, <1>5, PathsAre, HandlerSays
  <2>2. MostSpecificOf(F) = best
    BY <1>2, <2>1, MostSpecificIs
  <2>3. QED
    BY <2>1, <2>2
<1>6. PICK best : best = MostSpecificOf(F)
  OBVIOUS
<1>7. best = CHOOSE r \in F : \A s \in F \ {r} : MoreSpecific(r, s)
  BY <1>6 DEF MostSpecificOf
<1>8. IF F = {} THEN answer.status # 200
      ELSE /\ answer.status = 200
           /\ answer.routes = {best}
           /\ answer.captures = Captures(best, path)
  BY <1>4, <1>5, <1>6
<1>9. QED
  BY <1>3, <1>7, <1>8, Zenon DEF F

(* 404 and 405, and what Allow names.                                      *)
LEMMA AllowsAll == TreeInv => AllowIsComplete
<1> SUFFICES ASSUME TreeInv, status = "assembling", NEW path \in Paths, NEW method \in Methods
             PROVE  LET answer == Handler(path, method)
                        methods == {r.method : r \in {s \in Served : Matches(s, path)}}
                    IN  /\ answer.status = 404 <=> methods = {}
                        /\ answer.status = 405 => answer.allow = methods
  BY DEF AllowIsComplete
<1>1. {r.method : r \in {s \in Served : Matches(s, path)}} = Allowed(path)
  BY DEF Allowed, Matching
<1>2. Fitting(path, method) # {} => Allowed(path) # {}
  BY DEF Fitting, Allowed
<1>3. Matching(path) = {} <=> Allowed(path) = {}
  BY DEF Allowed
<1>4. PICK answer : answer = Handler(path, method)
  OBVIOUS
<1>5. Fitting(path, method) # {} => answer.status = 200
  <2>1. Fitting(path, method) # {} => \E best \in Fitting(path, method) :
          answer = [status |-> 200, routes |-> {best}, captures |-> Captures(best, path)]
    BY <1>4, PathsAre, HandlerSays
  <2>2. QED
    BY <2>1
<1>6. Fitting(path, method) = {} /\ Matching(path) # {} =>
        answer.status = 405 /\ answer.allow = Allowed(path)
  <2>1. Fitting(path, method) = {} /\ Matching(path) # {} =>
          answer = [status |-> 405, allow |-> Allowed(path)]
    BY <1>4, PathsAre, HandlerSays
  <2>2. QED
    BY <2>1
<1>7. Matching(path) = {} => answer.status = 404
  <2>1. Matching(path) = {} => answer = [status |-> 404]
    BY <1>4, PathsAre, HandlerSays
  <2>2. QED
    BY <2>1
<1>8. /\ answer.status = 404 <=> Allowed(path) = {}
      /\ answer.status = 405 => answer.allow = Allowed(path)
  BY <1>2, <1>3, <1>5, <1>6, <1>7
<1>9. QED
  BY <1>1, <1>4, <1>8

(* "the most specific pattern that can match does" (route_tree.go): on     *)
(* every surface of any number of routes declared in any order, Handler    *)
(* answers a request with the most specific route its path and method fit, *)
(* with that route's own captures, and otherwise refuses.                  *)
THEOREM RoutingCorrect == Spec => []MostSpecificServes
BY TreeAlways, ServesBest, PTL

(* methodNotAllowed and the 404 of Routes.Handler: Allow names exactly the *)
(* methods of the patterns that match the path, whichever branches of the  *)
(* walk they are found on.                                                 *)
THEOREM AllowCorrect == Spec => []AllowIsComplete
BY TreeAlways, AllowsAll, PTL

-----------------------------------------------------------------------------
(* Sequences put together.                                                 *)

Once(s, x) == \A i, j \in DOMAIN s : s[i] = x /\ s[j] = x => i = j

(* The places of a concatenation are those of its two parts.               *)
LEMMA ConcatPlaces ==
  ASSUME NEW S, NEW a \in Seq(S), NEW b \in Seq(S)
  PROVE  /\ Len(a) \in Nat /\ Len(b) \in Nat
         /\ DOMAIN a = 1 .. Len(a) /\ DOMAIN b = 1 .. Len(b)
         /\ a \o b \in Seq(S)
         /\ Len(a \o b) = Len(a) + Len(b)
         /\ DOMAIN (a \o b) = 1 .. Len(a) + Len(b)
         /\ \A i \in 1 .. Len(a) : (a \o b)[i] = a[i] /\ i \in DOMAIN (a \o b)
         /\ \A j \in 1 .. Len(b) : (a \o b)[Len(a) + j] = b[j] /\ Len(a) + j \in DOMAIN (a \o b)
         /\ \A k \in 1 .. Len(a) + Len(b) :
              k \in 1 .. Len(a) \/ (k - Len(a) \in 1 .. Len(b) /\ Len(a) + (k - Len(a)) = k)
<1>1. Len(a) \in Nat /\ Len(b) \in Nat /\ DOMAIN a = 1 .. Len(a) /\ DOMAIN b = 1 .. Len(b)
  BY LenProperties
<1>2. /\ a \o b \in Seq(S) /\ Len(a \o b) = Len(a) + Len(b)
      /\ \A i \in 1 .. Len(a) + Len(b) : (a \o b)[i] = IF i <= Len(a) THEN a[i] ELSE b[i - Len(a)]
  BY ConcatProperties
<1>3. DOMAIN (a \o b) = 1 .. Len(a) + Len(b)
  BY <1>2, LenProperties
<1>4. \A i \in 1 .. Len(a) : (a \o b)[i] = a[i] /\ i \in DOMAIN (a \o b)
  BY <1>1, <1>2, <1>3
<1>5. ASSUME NEW j \in 1 .. Len(b)
      PROVE  (a \o b)[Len(a) + j] = b[j] /\ Len(a) + j \in DOMAIN (a \o b)
  <2>1. Len(a) + j \in 1 .. Len(a) + Len(b) /\ ~(Len(a) + j <= Len(a)) /\ (Len(a) + j) - Len(a) = j
    BY <1>1
  <2>2. QED
    BY <1>2, <1>3, <2>1
<1>6. ASSUME NEW k \in 1 .. Len(a) + Len(b)
      PROVE  \/ k \in 1 .. Len(a)
             \/ k - Len(a) \in 1 .. Len(b) /\ Len(a) + (k - Len(a)) = k
  BY <1>1
<1>7. QED
  BY <1>1, <1>2, <1>3, <1>4, <1>5, <1>6

(* The members of a concatenation.                                         *)
LEMMA ConcatSet ==
  ASSUME NEW S, NEW a \in Seq(S), NEW b \in Seq(S)
  PROVE  ToSet(a \o b) = ToSet(a) \cup ToSet(b)
<1> DEFINE c == a \o b
<1>1. /\ Len(a) \in Nat /\ Len(b) \in Nat
      /\ DOMAIN a = 1 .. Len(a) /\ DOMAIN b = 1 .. Len(b) /\ DOMAIN c = 1 .. Len(a) + Len(b)
      /\ \A i \in 1 .. Len(a) : c[i] = a[i] /\ i \in DOMAIN c
      /\ \A j \in 1 .. Len(b) : c[Len(a) + j] = b[j] /\ Len(a) + j \in DOMAIN c
      /\ \A k \in 1 .. Len(a) + Len(b) :
           k \in 1 .. Len(a) \/ (k - Len(a) \in 1 .. Len(b) /\ Len(a) + (k - Len(a)) = k)
  BY ConcatPlaces
<1> HIDE DEF c
<1>2. ASSUME NEW x \in ToSet(c) PROVE x \in ToSet(a) \cup ToSet(b)
  <2>1. PICK k \in 1 .. Len(a) + Len(b) : x = c[k]
    BY <1>1 DEF ToSet
  <2>2. CASE k \in 1 .. Len(a)
    BY <1>1, <2>1, <2>2 DEF ToSet
  <2>3. CASE k - Len(a) \in 1 .. Len(b) /\ Len(a) + (k - Len(a)) = k
    <3>1. PICK j \in 1 .. Len(b) : Len(a) + j = k
      BY <2>3
    <3>2. x = b[j]
      BY <1>1, <2>1, <3>1
    <3>3. QED
      BY <1>1, <3>2 DEF ToSet
  <2>4. QED
    BY <1>1, <2>2, <2>3
<1>3. ASSUME NEW x \in ToSet(a) PROVE x \in ToSet(c)
  BY <1>1 DEF ToSet
<1>4. ASSUME NEW x \in ToSet(b) PROVE x \in ToSet(c)
  <2>1. PICK j \in 1 .. Len(b) : x = b[j]
    BY <1>1 DEF ToSet
  <2>2. x = c[Len(a) + j] /\ Len(a) + j \in DOMAIN c
    BY <1>1, <2>1
  <2>3. QED
    BY <2>2 DEF ToSet
<1>5. QED
  BY <1>2, <1>3, <1>4 DEF c

(* A concatenation repeats nothing when neither part does and they have    *)
(* nothing in common.                                                      *)
LEMMA ConcatInjective ==
  ASSUME NEW S, NEW a \in Seq(S), NEW b \in Seq(S)
  PROVE  IsInjective(a \o b) <=> IsInjective(a) /\ IsInjective(b) /\ ToSet(a) \cap ToSet(b) = {}
<1> DEFINE c == a \o b
<1>1. /\ Len(a) \in Nat /\ Len(b) \in Nat
      /\ DOMAIN a = 1 .. Len(a) /\ DOMAIN b = 1 .. Len(b) /\ DOMAIN c = 1 .. Len(a) + Len(b)
      /\ \A i \in 1 .. Len(a) : c[i] = a[i] /\ i \in DOMAIN c
      /\ \A j \in 1 .. Len(b) : c[Len(a) + j] = b[j] /\ Len(a) + j \in DOMAIN c
      /\ \A k \in 1 .. Len(a) + Len(b) :
           k \in 1 .. Len(a) \/ (k - Len(a) \in 1 .. Len(b) /\ Len(a) + (k - Len(a)) = k)
  BY ConcatPlaces
<1> HIDE DEF c
<1>2. \A k \in DOMAIN c : \/ k \in 1 .. Len(a)
                          \/ \E j \in 1 .. Len(b) : k = Len(a) + j
  BY <1>1
<1>3. ASSUME IsInjective(c) PROVE IsInjective(a) /\ IsInjective(b) /\ ToSet(a) \cap ToSet(b) = {}
  <2>1. IsInjective(a)
    BY <1>1, <1>3 DEF IsInjective
  <2>2. ASSUME NEW i \in DOMAIN b, NEW j \in DOMAIN b, b[i] = b[j] PROVE i = j
    <3>1. c[Len(a) + i] = c[Len(a) + j] /\ Len(a) + i \in DOMAIN c /\ Len(a) + j \in DOMAIN c
      BY <1>1, <2>2
    <3>2. Len(a) + i = Len(a) + j
      BY <1>3, <3>1 DEF IsInjective
    <3>3. i \in Int /\ j \in Int
      BY <1>1
    <3>4. QED
      BY <1>1, <3>2, <3>3
  <2>3. ASSUME NEW i \in DOMAIN a, NEW j \in DOMAIN b, a[i] = b[j] PROVE FALSE
    <3>1. c[i] = c[Len(a) + j] /\ i \in DOMAIN c /\ Len(a) + j \in DOMAIN c
      BY <1>1, <2>3
    <3>2. i = Len(a) + j
      BY <1>3, <3>1 DEF IsInjective
    <3>3. QED
      BY <1>1, <3>2
  <2>4. QED
    BY <2>1, <2>2, <2>3 DEF IsInjective, ToSet
<1>4. ASSUME IsInjective(a), IsInjective(b), ToSet(a) \cap ToSet(b) = {},
             NEW k \in DOMAIN c, NEW l \in DOMAIN c, c[k] = c[l]
      PROVE  k = l
  <2>1. \A i \in 1 .. Len(a) : a[i] \in ToSet(a)
    BY <1>1 DEF ToSet
  <2>2. \A j \in 1 .. Len(b) : b[j] \in ToSet(b)
    BY <1>1 DEF ToSet
  <2>3. CASE k \in 1 .. Len(a) /\ l \in 1 .. Len(a)
    BY <1>1, <1>4, <2>3 DEF IsInjective
  <2>4. CASE k \in 1 .. Len(a) /\ \E j \in 1 .. Len(b) : l = Len(a) + j
    BY <1>1, <1>4, <2>1, <2>2, <2>4
  <2>5. CASE l \in 1 .. Len(a) /\ \E j \in 1 .. Len(b) : k = Len(a) + j
    BY <1>1, <1>4, <2>1, <2>2, <2>5
  <2>6. CASE (\E i \in 1 .. Len(b) : k = Len(a) + i) /\ \E j \in 1 .. Len(b) : l = Len(a) + j
    <3>1. PICK i \in 1 .. Len(b), j \in 1 .. Len(b) : k = Len(a) + i /\ l = Len(a) + j
      BY <2>6
    <3>2. b[i] = b[j]
      BY <1>1, <1>4, <3>1
    <3>3. i = j
      BY <1>1, <1>4, <3>2 DEF IsInjective
    <3>4. QED
      BY <3>1, <3>3
  <2>7. QED
    BY <1>2, <2>3, <2>4, <2>5, <2>6
<1>5. QED
  BY <1>3, <1>4 DEF IsInjective, c

(* A member is once in a concatenation when it is once in each part and    *)
(* not in both.                                                            *)
LEMMA ConcatOnce ==
  ASSUME NEW S, NEW a \in Seq(S), NEW b \in Seq(S), NEW x
  PROVE  Once(a \o b, x) <=> Once(a, x) /\ Once(b, x) /\ ~(x \in ToSet(a) /\ x \in ToSet(b))
<1> DEFINE c == a \o b
<1>1. /\ Len(a) \in Nat /\ Len(b) \in Nat
      /\ DOMAIN a = 1 .. Len(a) /\ DOMAIN b = 1 .. Len(b) /\ DOMAIN c = 1 .. Len(a) + Len(b)
      /\ \A i \in 1 .. Len(a) : c[i] = a[i] /\ i \in DOMAIN c
      /\ \A j \in 1 .. Len(b) : c[Len(a) + j] = b[j] /\ Len(a) + j \in DOMAIN c
      /\ \A k \in 1 .. Len(a) + Len(b) :
           k \in 1 .. Len(a) \/ (k - Len(a) \in 1 .. Len(b) /\ Len(a) + (k - Len(a)) = k)
  BY ConcatPlaces
<1> HIDE DEF c
<1>2. \A k \in DOMAIN c : \/ k \in 1 .. Len(a)
                          \/ \E j \in 1 .. Len(b) : k = Len(a) + j
  BY <1>1
<1>3. ASSUME Once(c, x) PROVE Once(a, x) /\ Once(b, x) /\ ~(x \in ToSet(a) /\ x \in ToSet(b))
  <2>1. Once(a, x)
    BY <1>1, <1>3 DEF Once
  <2>2. ASSUME NEW i \in DOMAIN b, NEW j \in DOMAIN b, b[i] = x, b[j] = x PROVE i = j
    <3>1. c[Len(a) + i] = x /\ c[Len(a) + j] = x /\ Len(a) + i \in DOMAIN c /\ Len(a) + j \in DOMAIN c
      BY <1>1, <2>2
    <3>2. Len(a) + i = Len(a) + j
      BY <1>3, <3>1 DEF Once
    <3>3. i \in Int /\ j \in Int
      BY <1>1
    <3>4. QED
      BY <1>1, <3>2, <3>3
  <2>3. ASSUME NEW i \in DOMAIN a, NEW j \in DOMAIN b, a[i] = x, b[j] = x PROVE FALSE
    <3>1. c[i] = x /\ c[Len(a) + j] = x /\ i \in DOMAIN c /\ Len(a) + j \in DOMAIN c
      BY <1>1, <2>3
    <3>2. i = Len(a) + j
      BY <1>3, <3>1 DEF Once
    <3>3. QED
      BY <1>1, <3>2
  <2>4. QED
    BY <2>1, <2>2, <2>3 DEF Once, ToSet
<1>4. ASSUME Once(a, x), Once(b, x), ~(x \in ToSet(a) /\ x \in ToSet(b)),
             NEW k \in DOMAIN c, NEW l \in DOMAIN c, c[k] = x, c[l] = x
      PROVE  k = l
  <2>1. \A i \in 1 .. Len(a) : a[i] \in ToSet(a)
    BY <1>1 DEF ToSet
  <2>2. \A j \in 1 .. Len(b) : b[j] \in ToSet(b)
    BY <1>1 DEF ToSet
  <2>3. CASE k \in 1 .. Len(a) /\ l \in 1 .. Len(a)
    BY <1>1, <1>4, <2>3 DEF Once
  <2>4. CASE k \in 1 .. Len(a) /\ \E j \in 1 .. Len(b) : l = Len(a) + j
    BY <1>1, <1>4, <2>1, <2>2, <2>4
  <2>5. CASE l \in 1 .. Len(a) /\ \E j \in 1 .. Len(b) : k = Len(a) + j
    BY <1>1, <1>4, <2>1, <2>2, <2>5
  <2>6. CASE (\E i \in 1 .. Len(b) : k = Len(a) + i) /\ \E j \in 1 .. Len(b) : l = Len(a) + j
    <3>1. PICK i \in 1 .. Len(b), j \in 1 .. Len(b) : k = Len(a) + i /\ l = Len(a) + j
      BY <2>6
    <3>2. b[i] = x /\ b[j] = x
      BY <1>1, <1>4, <3>1
    <3>3. i = j
      BY <1>1, <1>4, <3>2 DEF Once
    <3>4. QED
      BY <3>1, <3>3
  <2>7. QED
    BY <1>2, <2>3, <2>4, <2>5, <2>6
<1>5. QED
  BY <1>3, <1>4 DEF Once, c

(* FlattenSeq adds one sequence at a time.                                 *)
LEMMA FlattenIs ==
  ASSUME NEW S, NEW seqs \in Seq(Seq(S)), Len(seqs) > 0
  PROVE  \E flat \in [1 .. Len(seqs) -> Seq(S)] :
           /\ flat[1] = seqs[1]
           /\ \A i \in 1 .. Len(seqs) : i > 1 => flat[i] = flat[i - 1] \o seqs[i]
           /\ FlattenSeq(seqs) = flat[Len(seqs)]
<1> DEFINE last == Len(seqs)
           Step(g, i) == IF i = 1 THEN seqs[i] ELSE g[i - 1] \o seqs[i]
           flatten == CHOOSE g : g = [i \in 1 .. last |-> Step(g, i)]
<1>1. last \in Nat /\ last > 0 /\ \A i \in 1 .. last : seqs[i] \in Seq(S)
  BY LenProperties, ElementOfSeq
<1>2. FlattenSeq(seqs) = flatten[last]
  BY <1>1 DEF FlattenSeq
<1> HIDE DEF last
<1>3. \E g : g \in [1 .. last -> Seq(S)] /\ g = [i \in 1 .. last |-> Step(g, i)]
  <2> DEFINE T == {m \in Nat : \E g \in [1 .. m -> Seq(S)] :
                      m <= last => \A i \in 1 .. m : g[i] = Step(g, i)}
  <2>1. 0 \in T
    <3> DEFINE g == [i \in 1 .. 0 |-> <<>>]
    <3>1. g \in [1 .. 0 -> Seq(S)] /\ \A i \in 1 .. 0 : FALSE
      OBVIOUS
    <3>2. \A i \in 1 .. 0 : g[i] = Step(g, i)
      BY <3>1
    <3> HIDE DEF g, Step
    <3>3. QED
      BY <3>1, <3>2
  <2>2. ASSUME NEW m \in Nat, m \in T PROVE m + 1 \in T
    <3>1. PICK f \in [1 .. m -> Seq(S)] : m <= last => \A i \in 1 .. m : f[i] = Step(f, i)
      <4> HIDE DEF Step
      <4>1. QED
        BY <2>2
    <3> DEFINE next == IF m + 1 <= last THEN Step(f, m + 1) ELSE <<>>
               g == [i \in 1 .. m + 1 |-> IF i = m + 1 THEN next ELSE f[i]]
    <3>2. next \in Seq(S)
      <4>1. CASE m + 1 <= last /\ m # 0
        <5>1. f[m] \in Seq(S) /\ seqs[m + 1] \in Seq(S) /\ (m + 1) - 1 = m
          BY <1>1, <4>1
        <5>2. f[m] \o seqs[m + 1] \in Seq(S)
          BY <5>1, ConcatProperties
        <5>3. next = f[m] \o seqs[m + 1]
          <6>1. next = Step(f, m + 1)
            BY <4>1
          <6>2. m + 1 # 1
            BY <4>1
          <6>3. Step(f, m + 1) = f[(m + 1) - 1] \o seqs[m + 1]
            BY <6>2
          <6> HIDE DEF next, Step
          <6>4. QED
            BY <5>1, <6>1, <6>3
        <5> HIDE DEF next
        <5>4. QED
          BY <5>2, <5>3
      <4>2. CASE m + 1 <= last /\ m = 0
        BY <1>1, <4>2
      <4>3. CASE ~(m + 1 <= last)
        BY <4>3
      <4>4. QED
        BY <4>1, <4>2, <4>3
    <3>3. g \in [1 .. m + 1 -> Seq(S)]
      <4> HIDE DEF next
      <4>1. \A i \in 1 .. m + 1 : i # m + 1 => i \in 1 .. m
        OBVIOUS
      <4>2. QED
        BY <3>2, <4>1
    <3>4. ASSUME m + 1 <= last, NEW i \in 1 .. m + 1 PROVE g[i] = Step(g, i)
      <4>1. i # 1 => i - 1 \in 1 .. m /\ i - 1 # m + 1
        OBVIOUS
      <4>2. i # 1 => g[i - 1] = f[i - 1]
        <5> HIDE DEF next
        <5>1. QED
          BY <4>1
      <4> HIDE DEF g
      <4>3. Step(g, i) = Step(f, i)
        BY <4>2
      <4>4. CASE i = m + 1
        <5>1. g[i] = next
          BY <4>4 DEF g
        <5>2. next = Step(f, m + 1)
          BY <3>4
        <5> HIDE DEF next, Step
        <5>3. QED
          BY <4>3, <4>4, <5>1, <5>2
      <4>5. CASE i # m + 1
        <5> HIDE DEF next, Step
        <5>1. i \in 1 .. m /\ m <= last
          BY <1>1, <3>4, <4>5
        <5>2. g[i] = f[i]
          BY <4>5 DEF g
        <5>3. QED
          BY <3>1, <4>3, <5>1, <5>2
      <4>6. QED
        BY <4>4, <4>5
    <3> HIDE DEF g, Step
    <3>5. QED
      BY <3>3, <3>4
  <2>3. last \in T
    <3>1. Nat \subseteq T
      <4> HIDE DEF T
      <4>1. QED
        BY <2>1, <2>2, Counting
    <3> HIDE DEF T
    <3>2. QED
      BY <1>1, <3>1
  <2> HIDE DEF Step
  <2>4. PICK g \in [1 .. last -> Seq(S)] : \A i \in 1 .. last : g[i] = Step(g, i)
    <3>1. \E g \in [1 .. last -> Seq(S)] : last <= last => \A i \in 1 .. last : g[i] = Step(g, i)
      BY <2>3, Zenon
    <3>2. last <= last
      BY <1>1
    <3>3. QED
      BY <3>1, <3>2, Zenon
  <2>5. g = [i \in 1 .. last |-> Step(g, i)]
    BY <2>4
  <2>6. QED
    BY <2>5
<1>4. flatten = [i \in 1 .. last |-> Step(flatten, i)]
  <2> HIDE DEF Step
  <2>1. QED
    BY <1>3
<1>5. PICK f : f = flatten
  OBVIOUS
<1>6. f = [i \in 1 .. last |-> Step(f, i)]
  <2> HIDE DEF Step, flatten
  <2>1. QED
    BY <1>4, <1>5
<1>7. \A i \in 1 .. last : f[i] = Step(f, i)
  <2> HIDE DEF Step
  <2>1. QED
    BY <1>6
<1>8. f \in [1 .. last -> Seq(S)]
  <2> DEFINE T == {m \in Nat : m + 1 <= last => f[m + 1] \in Seq(S)}
  <2>1. 0 \in T
    BY <1>1, <1>7
  <2>2. ASSUME NEW m \in Nat, m \in T PROVE m + 1 \in T
    <3> SUFFICES ASSUME (m + 1) + 1 <= last PROVE f[(m + 1) + 1] \in Seq(S)
      OBVIOUS
    <3>1. (m + 1) + 1 \in 1 .. last /\ m + 1 \in 1 .. last /\ ((m + 1) + 1) - 1 = m + 1 /\ (m + 1) + 1 # 1
      BY <1>1
    <3>2. f[m + 1] \in Seq(S) /\ seqs[(m + 1) + 1] \in Seq(S)
      BY <1>1, <2>2, <3>1
    <3>3. f[(m + 1) + 1] = f[m + 1] \o seqs[(m + 1) + 1]
      BY <1>7, <3>1
    <3>4. QED
      BY <3>2, <3>3, ConcatProperties
  <2>3. Nat \subseteq T
    <3> HIDE DEF T
    <3>1. QED
      BY <2>1, <2>2, Counting
  <2>4. ASSUME NEW i \in 1 .. last PROVE f[i] \in Seq(S)
    <3>1. i - 1 \in Nat /\ (i - 1) + 1 = i /\ i <= last
      BY <1>1
    <3>2. QED
      BY <2>3, <3>1
  <2>5. f = [i \in 1 .. last |-> f[i]]
    <3> HIDE DEF Step
    <3>1. DOMAIN f = 1 .. last
      BY <1>6
    <3>2. QED
      BY <1>6, <1>7
  <2>6. QED
    BY <2>4, <2>5
<1>9. f[1] = seqs[1] /\ \A i \in 1 .. last : i > 1 => f[i] = f[i - 1] \o seqs[i]
  <2>1. f[1] = seqs[1]
    <3>1. 1 \in 1 .. last
      BY <1>1
    <3>2. QED
      BY <1>7, <3>1
  <2>2. ASSUME NEW i \in 1 .. last, i > 1 PROVE f[i] = f[i - 1] \o seqs[i]
    <3>1. i # 1
      BY <2>2
    <3>2. Step(f, i) = f[i - 1] \o seqs[i]
      BY <3>1
    <3> HIDE DEF Step
    <3>3. QED
      BY <1>7, <3>2
  <2>3. QED
    BY <2>1, <2>2
<1>10. QED
  BY <1>2, <1>5, <1>8, <1>9 DEF last

-----------------------------------------------------------------------------
(* Codecs.                                                                 *)

Key(reader) == [in |-> reader.in, name |-> reader.name]
Body == [in |-> "body", name |-> "entity"]
KeysOf(reads) == [i \in DOMAIN reads |-> Key(reads[i])]
AllKeys == {Key(reader) : reader \in Readers}
NamesGiven(reads) == \A i \in DOMAIN reads : reads[i].name # ""
SoundReads(reads) == NamesGiven(reads) /\ IsInjective(KeysOf(reads))

(* What is said is what is read: the parameters are the keys of all        *)
(* readers but those of the body, and repeat one when those do.            *)
Agrees(parameters, entity, reads) ==
  /\ reads \in Seq(Readers) /\ parameters \in Seq(AllKeys)
  /\ ToSet(parameters) = ToSet(KeysOf(reads)) \ {Body}
  /\ entity <=> Body \in ToSet(KeysOf(reads))
  /\ IsInjective(KeysOf(reads)) <=> IsInjective(parameters) /\ Once(KeysOf(reads), Body)

Faults == {"", "nameless", "entities", "duplicate", "prose"}
Codecs == [parameters : Seq(AllKeys), entity : BOOLEAN, fault : Faults, reads : Seq(Readers)]

(* A codec is honest: what it says agrees with what it reads, and it has a *)
(* fault when its reads are not sound, and only then or for its prose.     *)
Honest(codec) ==
  /\ codec \in Codecs
  /\ Agrees(codec.parameters, codec.entity, codec.reads)
  /\ codec.fault = "" => SoundReads(codec.reads)
  /\ codec.fault \notin {"", "prose"} => ~SoundReads(codec.reads)

(* The keys of a sequence of readers.                                      *)
LEMMA KeysAre ==
  ASSUME NEW reads \in Seq(Readers)
  PROVE  /\ KeysOf(reads) \in Seq(AllKeys)
         /\ Len(KeysOf(reads)) = Len(reads)
         /\ DOMAIN KeysOf(reads) = 1 .. Len(reads)
         /\ DOMAIN reads = 1 .. Len(reads) /\ Len(reads) \in Nat
         /\ \A i \in 1 .. Len(reads) : KeysOf(reads)[i] = Key(reads[i]) /\ reads[i] \in Readers
<1>1. DOMAIN reads = 1 .. Len(reads) /\ Len(reads) \in Nat /\ \A i \in 1 .. Len(reads) : reads[i] \in Readers
  BY LenProperties, ElementOfSeq
<1>2. /\ KeysOf(reads) \in [1 .. Len(reads) -> AllKeys]
      /\ \A i \in 1 .. Len(reads) : KeysOf(reads)[i] = Key(reads[i])
  BY <1>1 DEF KeysOf, AllKeys
<1>3. KeysOf(reads) \in Seq(AllKeys) /\ Len(KeysOf(reads)) = Len(reads)
  BY <1>1, <1>2, SeqDef, LenProperties
<1>4. QED
  BY <1>1, <1>2, <1>3

(* The keys of a concatenation.                                            *)
LEMMA KeysConcat ==
  ASSUME NEW a \in Seq(Readers), NEW b \in Seq(Readers)
  PROVE  /\ a \o b \in Seq(Readers)
         /\ KeysOf(a \o b) = KeysOf(a) \o KeysOf(b)
         /\ NamesGiven(a \o b) <=> NamesGiven(a) /\ NamesGiven(b)
<1> DEFINE c == a \o b
           k == KeysOf(a) \o KeysOf(b)
<1>1. /\ Len(a) \in Nat /\ Len(b) \in Nat
      /\ DOMAIN a = 1 .. Len(a) /\ DOMAIN b = 1 .. Len(b)
      /\ c \in Seq(Readers) /\ Len(c) = Len(a) + Len(b) /\ DOMAIN c = 1 .. Len(a) + Len(b)
      /\ \A i \in 1 .. Len(a) : c[i] = a[i] /\ i \in DOMAIN c
      /\ \A j \in 1 .. Len(b) : c[Len(a) + j] = b[j] /\ Len(a) + j \in DOMAIN c
      /\ \A i \in 1 .. Len(a) + Len(b) :
           i \in 1 .. Len(a) \/ (i - Len(a) \in 1 .. Len(b) /\ Len(a) + (i - Len(a)) = i)
  BY ConcatPlaces
<1>2. /\ KeysOf(a) \in Seq(AllKeys) /\ Len(KeysOf(a)) = Len(a)
      /\ KeysOf(b) \in Seq(AllKeys) /\ Len(KeysOf(b)) = Len(b)
      /\ \A i \in 1 .. Len(a) : KeysOf(a)[i] = Key(a[i])
      /\ \A i \in 1 .. Len(b) : KeysOf(b)[i] = Key(b[i])
  BY KeysAre
<1>3. /\ k \in Seq(AllKeys) /\ Len(k) = Len(a) + Len(b)
      /\ \A i \in 1 .. Len(a) : k[i] = KeysOf(a)[i]
      /\ \A j \in 1 .. Len(b) : k[Len(a) + j] = KeysOf(b)[j]
  <2>1. PICK ka \in Seq(AllKeys), kb \in Seq(AllKeys) : ka = KeysOf(a) /\ kb = KeysOf(b)
    BY <1>2
  <2>2. Len(ka) = Len(a) /\ Len(kb) = Len(b)
    BY <1>2, <2>1
  <2>3. /\ ka \o kb \in Seq(AllKeys) /\ Len(ka \o kb) = Len(ka) + Len(kb)
        /\ \A i \in 1 .. Len(ka) : (ka \o kb)[i] = ka[i]
        /\ \A j \in 1 .. Len(kb) : (ka \o kb)[Len(ka) + j] = kb[j]
    BY ConcatPlaces
  <2>4. QED
    BY <2>1, <2>2, <2>3
<1> HIDE DEF c, k
<1>4. /\ KeysOf(c) \in Seq(AllKeys) /\ Len(KeysOf(c)) = Len(a) + Len(b)
      /\ \A i \in 1 .. Len(a) + Len(b) : KeysOf(c)[i] = Key(c[i])
  BY <1>1, KeysAre
<1>5. ASSUME NEW i \in 1 .. Len(a) + Len(b) PROVE KeysOf(c)[i] = k[i]
  <2>1. CASE i \in 1 .. Len(a)
    BY <1>1, <1>2, <1>3, <1>4, <2>1
  <2>2. CASE i - Len(a) \in 1 .. Len(b) /\ Len(a) + (i - Len(a)) = i
    <3>1. PICK j \in 1 .. Len(b) : Len(a) + j = i
      BY <2>2
    <3>2. c[i] = b[j] /\ k[i] = KeysOf(b)[j]
      BY <1>1, <1>3, <3>1
    <3>3. QED
      BY <1>2, <1>4, <3>2
  <2>3. QED
    BY <1>1, <2>1, <2>2
<1>6. KeysOf(c) = k
  <2>1. PICK kc \in Seq(AllKeys) : kc = KeysOf(c)
    BY <1>4
  <2>2. Len(kc) = Len(k) /\ \A i \in 1 .. Len(kc) : kc[i] = k[i]
    BY <1>3, <1>4, <1>5, <2>1
  <2>3. kc = k
    BY <1>3, <2>2, SeqEqual
  <2>4. QED
    BY <2>1, <2>3
<1>7. NamesGiven(c) <=> NamesGiven(a) /\ NamesGiven(b)
  <2>1. ASSUME NamesGiven(c) PROVE NamesGiven(a) /\ NamesGiven(b)
    <3>1. \A i \in 1 .. Len(a) : a[i].name # ""
      BY <1>1, <2>1 DEF NamesGiven
    <3>2. ASSUME NEW j \in 1 .. Len(b) PROVE b[j].name # ""
      <4>1. c[Len(a) + j] = b[j] /\ Len(a) + j \in DOMAIN c
        BY <1>1
      <4>2. QED
        BY <2>1, <4>1 DEF NamesGiven
    <3>3. QED
      BY <1>1, <3>1, <3>2 DEF NamesGiven
  <2>2. ASSUME NamesGiven(a), NamesGiven(b), NEW i \in 1 .. Len(a) + Len(b)
        PROVE  c[i].name # ""
    <3>1. CASE i \in 1 .. Len(a)
      BY <1>1, <2>2, <3>1 DEF NamesGiven
    <3>2. CASE i - Len(a) \in 1 .. Len(b) /\ Len(a) + (i - Len(a)) = i
      <4>1. PICK j \in 1 .. Len(b) : Len(a) + j = i
        BY <3>2
      <4>2. c[i] = b[j]
        BY <1>1, <4>1
      <4>3. QED
        BY <1>1, <2>2, <4>2 DEF NamesGiven
    <3>3. QED
      BY <1>1, <3>1, <3>2
  <2>3. QED
    BY <1>1, <2>1, <2>2 DEF NamesGiven
<1>8. QED
  BY <1>1, <1>6, <1>7 DEF c, k

(* Two that agree, and what is said and read when they are put together.   *)
Joining(p, q, d, e, v, a, b) ==
  /\ d \in BOOLEAN /\ e \in BOOLEAN /\ v \in BOOLEAN
  /\ v <=> d \/ e
  /\ Agrees(p, d, a) /\ Agrees(q, e, b)

Joined(p, q, d, e, v, a, b) ==
  /\ Agrees(p \o q, v, a \o b)
  /\ NamesGiven(a \o b) <=> NamesGiven(a) /\ NamesGiven(b)
  /\ Once(KeysOf(a \o b), Body) <=>
       Once(KeysOf(a), Body) /\ Once(KeysOf(b), Body) /\ ~(d /\ e)
  /\ IsInjective(KeysOf(a \o b)) => IsInjective(KeysOf(a)) /\ IsInjective(KeysOf(b))

(* Put together, two that agree still do.                                  *)
LEMMA AgreesConcat ==
  ASSUME NEW p, NEW q, NEW d, NEW e, NEW v, NEW a, NEW b, Joining(p, q, d, e, v, a, b)
  PROVE  Joined(p, q, d, e, v, a, b)
<1>0. /\ d \in BOOLEAN /\ e \in BOOLEAN /\ v \in BOOLEAN
      /\ v <=> d \/ e
      /\ Agrees(p, d, a) /\ Agrees(q, e, b)
  BY DEF Joining
<1>1. /\ a \in Seq(Readers) /\ b \in Seq(Readers) /\ p \in Seq(AllKeys) /\ q \in Seq(AllKeys)
  BY <1>0 DEF Agrees
<1>2. PICK k, l : k = KeysOf(a) /\ l = KeysOf(b)
  OBVIOUS
<1>3. k \in Seq(AllKeys) /\ l \in Seq(AllKeys)
  BY <1>1, <1>2, KeysAre
<1>4. /\ a \o b \in Seq(Readers) /\ KeysOf(a \o b) = k \o l
      /\ NamesGiven(a \o b) <=> NamesGiven(a) /\ NamesGiven(b)
  BY <1>1, <1>2, KeysConcat
<1>5. p \o q \in Seq(AllKeys)
  BY <1>1, ConcatProperties
<1>6. /\ ToSet(p) = ToSet(k) \ {Body} /\ ToSet(q) = ToSet(l) \ {Body}
      /\ d <=> Body \in ToSet(k)
      /\ e <=> Body \in ToSet(l)
      /\ IsInjective(k) <=> IsInjective(p) /\ Once(k, Body)
      /\ IsInjective(l) <=> IsInjective(q) /\ Once(l, Body)
  BY <1>0, <1>2 DEF Agrees
<1>7. ToSet(p \o q) = ToSet(p) \cup ToSet(q) /\ ToSet(k \o l) = ToSet(k) \cup ToSet(l)
  BY <1>1, <1>3, ConcatSet
<1>8. /\ IsInjective(p \o q) <=> IsInjective(p) /\ IsInjective(q) /\ ToSet(p) \cap ToSet(q) = {}
      /\ IsInjective(k \o l) <=> IsInjective(k) /\ IsInjective(l) /\ ToSet(k) \cap ToSet(l) = {}
  BY <1>1, <1>3, ConcatInjective
<1>9. Once(k \o l, Body) <=> Once(k, Body) /\ Once(l, Body) /\ ~(Body \in ToSet(k) /\ Body \in ToSet(l))
  BY <1>3, ConcatOnce
<1>10. ToSet(p \o q) = ToSet(k \o l) \ {Body}
  BY <1>6, <1>7
<1>11. v <=> Body \in ToSet(k \o l)
  BY <1>0, <1>6, <1>7
<1>12. ToSet(k) \cap ToSet(l) = {} <=>
         ToSet(p) \cap ToSet(q) = {} /\ ~(Body \in ToSet(k) /\ Body \in ToSet(l))
  BY <1>6
<1>13. IsInjective(k \o l) <=> IsInjective(p \o q) /\ Once(k \o l, Body)
  BY <1>6, <1>8, <1>9, <1>12
<1>14. Agrees(p \o q, v, a \o b)
  BY <1>4, <1>5, <1>10, <1>11, <1>13 DEF Agrees
<1>15. QED
  <2>1. Once(k \o l, Body) <=> Once(k, Body) /\ Once(l, Body) /\ ~(d /\ e)
    BY <1>6, <1>9
  <2>2. IsInjective(k \o l) => IsInjective(k) /\ IsInjective(l)
    BY <1>8
  <2>3. QED
    BY <1>2, <1>4, <1>14, <2>1, <2>2 DEF Joined

(* Some places have a first one.                                           *)
LEMMA LeastOf ==
  ASSUME NEW n \in Nat, NEW found \in SUBSET (1 .. n), found # {}
  PROVE  \E i \in found : \A j \in found : i <= j
<1> SUFFICES ASSUME \A i \in found : \E j \in found : ~(i <= j) PROVE FALSE
  OBVIOUS
<1> DEFINE T == {m \in Nat : \A i \in found : m < i}
<1>1. \A i \in found : i \in Nat /\ 0 < i
  OBVIOUS
<1>2. 0 \in T
  BY <1>1
<1>3. ASSUME NEW m \in Nat, m \in T PROVE m + 1 \in T
  <2>1. \A i \in found : i \in Nat /\ m + 1 <= i
    BY <1>1, <1>3
  <2>2. m + 1 \notin found
    BY <2>1
  <2>3. \A i \in found : m + 1 < i
    BY <2>1, <2>2
  <2>4. QED
    BY <2>3
<1>4. Nat \subseteq T
  <2> HIDE DEF T
  <2>1. QED
    BY <1>2, <1>3, Counting
<1>5. PICK i \in found : i \in Nat
  BY <1>1
<1>6. i \in T
  BY <1>4, <1>5
<1>7. QED
  BY <1>5, <1>6

(* The first fault is one of them, and there is none when there is none.   *)
LEMMA FirstFaultIs ==
  ASSUME NEW S, NEW faults \in Seq(S)
  PROVE  /\ firstFault(faults) = "" => \A i \in DOMAIN faults : faults[i] = ""
         /\ firstFault(faults) # "" => \E i \in DOMAIN faults : faults[i] = firstFault(faults)
<1> DEFINE found == {i \in DOMAIN faults : faults[i] # ""}
           least == CHOOSE i \in found : \A j \in found : i <= j
<1>1. DOMAIN faults = 1 .. Len(faults) /\ Len(faults) \in Nat
  BY LenProperties
<1>2. CASE found = {}
  BY <1>2 DEF firstFault
<1>3. CASE found # {}
  <2>1. \E i \in found : \A j \in found : i <= j
    BY <1>1, <1>3, LeastOf
  <2>2. least \in found
    BY <2>1
  <2>3. firstFault(faults) = faults[least]
    BY <1>3 DEF firstFault
  <2> HIDE DEF least
  <2>4. QED
    BY <2>2, <2>3
<1>4. QED
  BY <1>2, <1>3

(* The codecs a program can have in hand.                                  *)
HonestCodecs == {codec \in Codecs : Honest(codec)}

(* A sequence of one.                                                      *)
LEMMA OneIs ==
  ASSUME NEW S, NEW x \in S
  PROVE  /\ <<x>> \in Seq(S) /\ DOMAIN <<x>> = {1} /\ <<x>>[1] = x
         /\ ToSet(<<x>>) = {x} /\ IsInjective(<<x>>) /\ Len(<<x>>) = 1
         /\ \A y : Once(<<x>>, y)
<1>1. <<x>> \in Seq(S) /\ <<x>>[1] = x /\ Len(<<x>>) = 1
  OBVIOUS
<1>2. DOMAIN <<x>> = {1}
  OBVIOUS
<1> QED
  BY <1>1, <1>2 DEF ToSet, IsInjective, Once

(* A sequence of none.                                                     *)
LEMMA NoneIs ==
  ASSUME NEW S
  PROVE  /\ <<>> \in Seq(S) /\ DOMAIN <<>> = {} /\ KeysOf(<<>>) = <<>>
         /\ ToSet(<<>>) = {} /\ IsInjective(<<>>)
         /\ \A y : Once(<<>>, y)
<1>1. <<>> \in Seq(S) /\ DOMAIN <<>> = {}
  OBVIOUS
<1>2. KeysOf(<<>>) = <<>>
  <2>1. KeysOf(<<>>) = [i \in {} |-> Key(<<>>[i])]
    BY <1>1 DEF KeysOf
  <2>2. <<>> = [i \in {} |-> Key(<<>>[i])]
    OBVIOUS
  <2>3. QED
    BY <2>1, <2>2
<1> QED
  BY <1>1, <1>2 DEF ToSet, IsInjective, Once

(* A reader of its own.                                                    *)
LEMMA ReaderHonest ==
  ASSUME NEW reader \in Readers
  PROVE  /\ reader.in = "body" => Entity(reader) \in HonestCodecs
         /\ reader.in # "body" => OneParameter(reader) \in HonestCodecs
<1>1. KeysOf(<<reader>>) = <<Key(reader)>>
  <2>1. KeysOf(<<reader>>) = [i \in {1} |-> Key(reader)]
    BY OneIs DEF KeysOf
  <2>2. <<Key(reader)>> = [i \in {1} |-> Key(reader)]
    OBVIOUS
  <2>3. QED
    BY <2>1, <2>2
<1>2. Key(reader) \in AllKeys
  BY DEF AllKeys
<1>3. PICK key : key = Key(reader)
  OBVIOUS
<1>4. /\ <<key>> \in Seq(AllKeys) /\ ToSet(<<key>>) = {key} /\ IsInjective(<<key>>)
      /\ Once(<<key>>, Body) /\ KeysOf(<<reader>>) = <<key>>
  BY <1>1, <1>2, <1>3, OneIs
<1>5. /\ <<reader>> \in Seq(Readers) /\ DOMAIN <<reader>> = {1} /\ <<reader>>[1] = reader
  BY OneIs
<1>6. <<>> \in Seq(AllKeys) /\ ToSet(<<>>) = {} /\ IsInjective(<<>>)
  BY NoneIs
<1>7. NamesGiven(<<reader>>) <=> reader.name # ""
  BY <1>5 DEF NamesGiven
<1>8. SoundReads(<<reader>>) <=> reader.name # ""
  BY <1>4, <1>7 DEF SoundReads
<1>9. ASSUME reader.in = "body" PROVE Entity(reader) \in HonestCodecs
  <2>1. reader.name = "entity" /\ key = Body
    BY <1>3, <1>9, EndpointAssumption DEF Key, Body
  <2>2. Agrees(<<>>, TRUE, <<reader>>)
    BY <1>4, <1>5, <1>6, <2>1 DEF Agrees
  <2>3. PICK codec : codec = Entity(reader)
    OBVIOUS
  <2>4. /\ codec.parameters = <<>> /\ codec.entity = TRUE /\ codec.fault = "" /\ codec.reads = <<reader>>
        /\ codec \in Codecs
    BY <1>5, <1>6, <2>3 DEF Entity, Codecs, Faults
  <2>5. QED
    BY <1>8, <2>1, <2>2, <2>3, <2>4 DEF Honest, HonestCodecs
<1>10. ASSUME reader.in # "body" PROVE OneParameter(reader) \in HonestCodecs
  <2>1. key # Body
    BY <1>3, <1>10 DEF Key, Body
  <2>2. Agrees(<<key>>, FALSE, <<reader>>)
    BY <1>4, <1>5, <2>1 DEF Agrees
  <2>3. PICK codec : codec = OneParameter(reader)
    OBVIOUS
  <2>4. /\ codec.parameters = <<key>> /\ codec.entity = FALSE /\ codec.reads = <<reader>>
        /\ codec.fault = IF reader.name = "" THEN "nameless" ELSE ""
        /\ codec \in Codecs
    <3>1. codec = [parameters |-> <<key>>, entity |-> FALSE, fault |-> parameterFault(reader),
                   reads |-> <<reader>>]
      BY <1>3, <2>3 DEF OneParameter, Key
    <3>2. parameterFault(reader) \in Faults
      BY DEF parameterFault, Faults
    <3>3. codec \in Codecs
      BY <1>4, <1>5, <3>1, <3>2 DEF Codecs
    <3>4. QED
      BY <3>1, <3>3 DEF parameterFault
  <2>5. QED
    BY <1>8, <2>2, <2>3, <2>4 DEF Honest, HonestCodecs
<1>11. QED
  BY <1>9, <1>10

(* Nothing, of its own.                                                    *)
LEMMA NothingHonest == Nothing \in HonestCodecs
<1>1. /\ <<>> \in Seq(AllKeys) /\ <<>> \in Seq(Readers) /\ ToSet(<<>>) = {} /\ IsInjective(<<>>)
      /\ KeysOf(<<>>) = <<>> /\ Once(<<>>, Body) /\ DOMAIN <<>> = {}
  BY NoneIs
<1>2. SoundReads(<<>>)
  BY <1>1 DEF SoundReads, NamesGiven
<1>3. Body \notin ToSet(<<>>) /\ ToSet(<<>>) = ToSet(<<>>) \ {Body}
  BY <1>1
<1>4. Agrees(<<>>, FALSE, <<>>)
  BY <1>1, <1>3 DEF Agrees
<1>5. PICK codec : codec = Nothing
  OBVIOUS
<1>6. /\ codec.parameters = <<>> /\ codec.entity = FALSE /\ codec.fault = "" /\ codec.reads = <<>>
      /\ codec \in Codecs
  BY <1>1, <1>5 DEF Nothing, Codecs, Faults
<1>7. QED
  BY <1>2, <1>4, <1>5, <1>6 DEF Honest, HonestCodecs

(* What an honest codec is made of.                                        *)
LEMMA HonestIs ==
  ASSUME NEW codec \in HonestCodecs
  PROVE  /\ codec.parameters \in Seq(AllKeys) /\ codec.entity \in BOOLEAN
         /\ codec.fault \in Faults /\ codec.reads \in Seq(Readers)
         /\ Agrees(codec.parameters, codec.entity, codec.reads)
         /\ codec.fault = "" => SoundReads(codec.reads)
         /\ codec.fault \notin {"", "prose"} => ~SoundReads(codec.reads)
BY DEF HonestCodecs, Honest, Codecs

(* And what makes one.                                                     *)
LEMMA MakesHonest ==
  ASSUME NEW p, NEW d \in BOOLEAN, NEW f \in Faults, NEW a, Agrees(p, d, a),
         f = "" => SoundReads(a), f \notin {"", "prose"} => ~SoundReads(a)
  PROVE  [parameters |-> p, entity |-> d, fault |-> f, reads |-> a] \in HonestCodecs
<1>1. p \in Seq(AllKeys) /\ a \in Seq(Readers)
  BY DEF Agrees
<1>2. PICK codec : codec = [parameters |-> p, entity |-> d, fault |-> f, reads |-> a]
  OBVIOUS
<1>3. /\ codec.parameters = p /\ codec.entity = d /\ codec.fault = f /\ codec.reads = a
      /\ codec \in Codecs
  BY <1>1, <1>2 DEF Codecs
<1>4. Honest(codec)
  BY <1>3 DEF Honest
<1>5. QED
  BY <1>2, <1>3, <1>4 DEF HonestCodecs

(* A repetition among the parameters.                                      *)
LEMMA RepetitionIs ==
  ASSUME NEW parameters
  PROVE  /\ duplicateParameterFault(parameters) \in {"", "duplicate"}
         /\ duplicateParameterFault(parameters) = "" <=> IsInjective(parameters)
BY DEF duplicateParameterFault

(* A sequence of four.                                                     *)
LEMMA FourAre ==
  ASSUME NEW S, NEW w \in S, NEW x \in S, NEW y \in S, NEW z \in S
  PROVE  <<w, x, y, z>> \in Seq(S)
OBVIOUS

(* ZipCodecs of two.                                                       *)
LEMMA ZipHonest ==
  ASSUME NEW first \in HonestCodecs, NEW second \in HonestCodecs
  PROVE  ZipCodecs(first, second) \in HonestCodecs
<1>1. PICK p, d, f, a : p = first.parameters /\ d = first.entity /\ f = first.fault /\ a = first.reads
  OBVIOUS
<1>2. PICK q, e, g, b : q = second.parameters /\ e = second.entity /\ g = second.fault /\ b = second.reads
  OBVIOUS
<1>3. /\ d \in BOOLEAN /\ f \in Faults /\ Agrees(p, d, a)
      /\ f = "" => SoundReads(a)
      /\ f \notin {"", "prose"} => ~SoundReads(a)
  BY <1>1, HonestIs
<1>4. /\ e \in BOOLEAN /\ g \in Faults /\ Agrees(q, e, b)
      /\ g = "" => SoundReads(b)
      /\ g \notin {"", "prose"} => ~SoundReads(b)
  BY <1>2, HonestIs
<1> DEFINE v == d \/ e
<1>0. v \in BOOLEAN /\ (v <=> d \/ e)
  OBVIOUS
<1> HIDE DEF v
<1>5. /\ Agrees(p \o q, v, a \o b)
      /\ NamesGiven(a \o b) <=> NamesGiven(a) /\ NamesGiven(b)
      /\ Once(KeysOf(a \o b), Body) <=>
           Once(KeysOf(a), Body) /\ Once(KeysOf(b), Body) /\ ~(d /\ e)
      /\ IsInjective(KeysOf(a \o b)) => IsInjective(KeysOf(a)) /\ IsInjective(KeysOf(b))
  <2>1. Joining(p, q, d, e, v, a, b)
    BY <1>0, <1>3, <1>4 DEF Joining
  <2>2. Joined(p, q, d, e, v, a, b)
    BY <2>1, AgreesConcat
  <2>3. QED
    BY <2>2 DEF Joined
<1>6. /\ SoundReads(a) => NamesGiven(a) /\ Once(KeysOf(a), Body)
      /\ SoundReads(b) => NamesGiven(b) /\ Once(KeysOf(b), Body)
  BY <1>3, <1>4 DEF Agrees, SoundReads
<1>7. SoundReads(a \o b) <=> NamesGiven(a \o b) /\ IsInjective(p \o q) /\ Once(KeysOf(a \o b), Body)
  BY <1>5 DEF Agrees, SoundReads
<1>8. SoundReads(a \o b) => SoundReads(a) /\ SoundReads(b)
  BY <1>5 DEF SoundReads
<1>9. PICK both, twice : both = (IF d /\ e THEN "entities" ELSE "") /\ twice = duplicateParameterFault(p \o q)
  OBVIOUS
<1>10. /\ both \in Faults /\ both # "prose" /\ twice \in Faults /\ twice # "prose"
       /\ both = "" <=> ~(d /\ e)
       /\ twice = "" <=> IsInjective(p \o q)
  BY <1>9, RepetitionIs DEF Faults
<1>11. PICK faults : faults = <<f, g, both, twice>>
  OBVIOUS
<1>12. /\ faults \in Seq(Faults) /\ DOMAIN faults = 1 .. 4
       /\ faults[1] = f /\ faults[2] = g /\ faults[3] = both /\ faults[4] = twice
  <2>1. <<f, g, both, twice>> \in Seq(Faults)
    BY <1>3, <1>4, <1>10, FourAre
  <2>2. Len(<<f, g, both, twice>>) = 4
    OBVIOUS
  <2>3. DOMAIN faults = 1 .. 4
    BY <1>11, <2>1, <2>2, LenProperties
  <2>4. QED
    BY <1>11, <2>1, <2>3
<1>13. PICK h : h = firstFault(faults)
  OBVIOUS
<1>14. /\ h = "" => f = "" /\ g = "" /\ both = "" /\ twice = ""
       /\ h # "" => h \in {f, g, both, twice}
  <2>1. /\ h = "" => \A i \in DOMAIN faults : faults[i] = ""
        /\ h # "" => \E i \in DOMAIN faults : faults[i] = h
    BY <1>12, <1>13, FirstFaultIs
  <2>2. \A i \in 1 .. 4 : i = 1 \/ i = 2 \/ i = 3 \/ i = 4
    OBVIOUS
  <2>3. 1 \in 1 .. 4 /\ 2 \in 1 .. 4 /\ 3 \in 1 .. 4 /\ 4 \in 1 .. 4
    OBVIOUS
  <2>4. QED
    BY <1>12, <2>1, <2>2, <2>3
<1>15. h \in Faults
  BY <1>3, <1>4, <1>10, <1>14 DEF Faults
<1>16. h = "" => SoundReads(a \o b)
  BY <1>3, <1>4, <1>5, <1>6, <1>7, <1>10, <1>14
<1>17. ASSUME h \notin {"", "prose"} PROVE ~SoundReads(a \o b)
  <2>1. CASE h = f
    BY <1>3, <1>8, <1>17, <2>1
  <2>2. CASE h = g
    BY <1>4, <1>8, <1>17, <2>2
  <2>3. CASE h = both
    BY <1>5, <1>7, <1>10, <1>17, <2>3
  <2>4. CASE h = twice
    BY <1>7, <1>10, <1>17, <2>4
  <2>5. QED
    BY <1>14, <1>17, <2>1, <2>2, <2>3, <2>4
<1>18. ZipCodecs(first, second) =
         [parameters |-> p \o q, entity |-> v, fault |-> h, reads |-> a \o b]
  BY <1>1, <1>2, <1>9, <1>11, <1>13 DEF ZipCodecs, firstCodecFault, v
<1>19. QED
  BY <1>0, <1>5, <1>15, <1>16, <1>17, <1>18, MakesHonest

(* Prose that is refused says nothing of what is read.                     *)
LEMMA DescribedHonest ==
  ASSUME NEW codec \in HonestCodecs
  PROVE  WithDescription(codec) \in HonestCodecs
<1>1. CASE Len(codec.parameters) = 1
  BY <1>1 DEF WithDescription
<1>2. CASE Len(codec.parameters) # 1
  <2>1. WithDescription(codec) = [codec EXCEPT !.fault = "prose"]
    BY <1>2 DEF WithDescription
  <2>2. codec \in Codecs
    BY DEF HonestCodecs
  <2>3. WithDescription(codec) = [parameters |-> codec.parameters, entity |-> codec.entity,
                                  fault |-> "prose", reads |-> codec.reads]
    BY <2>1, <2>2 DEF Codecs
  <2>4. "prose" \in Faults
    BY DEF Faults
  <2>5. /\ codec.entity \in BOOLEAN
        /\ Agrees(codec.parameters, codec.entity, codec.reads)
    BY HonestIs
  <2>6. QED
    BY <2>3, <2>4, <2>5, MakesHonest, Zenon
<1>3. QED
  BY <1>1, <1>2

(* A property that the first has and that each hands on to the next holds  *)
(* of all of the places.                                                   *)
LEMMA StepByStep ==
  ASSUME NEW n \in Nat, NEW good \in SUBSET (1 .. n), n > 0, 1 \in good,
         \A m \in 1 .. n : m > 1 /\ m - 1 \in good => m \in good
  PROVE  n \in good
<1> DEFINE T == {m \in Nat : m + 1 <= n => m + 1 \in good}
<1>1. 0 \in T
  OBVIOUS
<1>2. ASSUME NEW m \in Nat, m \in T PROVE m + 1 \in T
  <2> SUFFICES ASSUME (m + 1) + 1 <= n PROVE (m + 1) + 1 \in good
    OBVIOUS
  <2>1. (m + 1) + 1 \in 1 .. n /\ (m + 1) + 1 > 1 /\ ((m + 1) + 1) - 1 = m + 1 /\ m + 1 <= n
    OBVIOUS
  <2>2. m + 1 \in good
    BY <1>2, <2>1
  <2>3. QED
    BY <2>1, <2>2
<1>3. Nat \subseteq T
  <2> HIDE DEF T
  <2>1. QED
    BY <1>1, <1>2, Counting
<1>4. n - 1 \in Nat /\ (n - 1) + 1 = n
  OBVIOUS
<1>5. QED
  BY <1>3, <1>4

(* Fields one after the other: n of them with what each says and reads, up *)
(* to each of them what all so far say and read, and how the two agree.    *)
Gathering(n, p, d, a, ps, ds, as) ==
  /\ n \in Nat /\ n > 0
  /\ p \in [1 .. n -> Seq(AllKeys)] /\ d \in [1 .. n -> BOOLEAN] /\ a \in [1 .. n -> Seq(Readers)]
  /\ \A i \in 1 .. n : Agrees(p[i], d[i], a[i])
  /\ ps \in [1 .. n -> Seq(AllKeys)] /\ ps[1] = p[1]
  /\ as \in [1 .. n -> Seq(Readers)] /\ as[1] = a[1]
  /\ \A i \in 1 .. n : i > 1 => ps[i] = ps[i - 1] \o p[i] /\ as[i] = as[i - 1] \o a[i]
  /\ ds \in [1 .. n -> BOOLEAN]
  /\ \A i \in 1 .. n : ds[i] <=> \E j \in 1 .. i : d[j]

Gathered(n, d, a, parameters, entity, reads) ==
  /\ Agrees(parameters, entity, reads)
  /\ NamesGiven(reads) <=> \A i \in 1 .. n : NamesGiven(a[i])
  /\ Once(KeysOf(reads), Body) <=>
       \A i \in 1 .. n : Once(KeysOf(a[i]), Body) /\ ~(d[i] /\ \E j \in 1 .. i - 1 : d[j])
  /\ IsInjective(KeysOf(reads)) => \A i \in 1 .. n : IsInjective(KeysOf(a[i]))

(* Struct, field by field: what the fields say together agrees with what   *)
(* they read.                                                              *)
LEMMA FieldsAgree ==
  ASSUME NEW n, NEW p, NEW d, NEW a, NEW ps, NEW ds, NEW as, Gathering(n, p, d, a, ps, ds, as)
  PROVE  Gathered(n, d, a, ps[n], ds[n], as[n])
<1> USE DEF Gathering
<1> DEFINE Single(i) == Once(KeysOf(a[i]), Body) /\ ~(d[i] /\ \E j \in 1 .. i - 1 : d[j])
           A(m) == Agrees(ps[m], ds[m], as[m])
           N(m) == NamesGiven(as[m]) <=> \A i \in 1 .. m : NamesGiven(a[i])
           O(m) == Once(KeysOf(as[m]), Body) <=> \A i \in 1 .. m : Single(i)
           I(m) == IsInjective(KeysOf(as[m])) => \A i \in 1 .. m : IsInjective(KeysOf(a[i]))
           good == {m \in 1 .. n : A(m) /\ N(m) /\ O(m) /\ I(m)}
<1>1. 1 \in good
  <2>1. 1 \in 1 .. n /\ \A i \in 1 .. 1 : i = 1
    OBVIOUS
  <2>2. ds[1] = d[1]
    <3>1. ds[1] <=> \E j \in 1 .. 1 : d[j]
      BY <2>1
    <3>2. (\E j \in 1 .. 1 : d[j]) <=> d[1]
      BY <2>1
    <3>3. ds[1] \in BOOLEAN /\ d[1] \in BOOLEAN
      BY <2>1
    <3>4. QED
      BY <3>1, <3>2, <3>3
  <2>3. A(1)
    BY <2>1, <2>2
  <2>4. N(1) /\ I(1)
    BY <2>1
  <2>5. O(1)
    <3>1. \A j \in 1 .. 1 - 1 : FALSE
      OBVIOUS
    <3>2. Single(1) <=> Once(KeysOf(a[1]), Body)
      BY <3>1
    <3>3. QED
      BY <2>1, <3>2
  <2>6. QED
    BY <2>1, <2>3, <2>4, <2>5
<1>2. ASSUME NEW m \in 1 .. n, m > 1, m - 1 \in good PROVE m \in good
  <2>1. PICK l : l = m - 1
    OBVIOUS
  <2>2. l \in 1 .. n /\ l \in 1 .. m /\ \A i \in 1 .. m : i = m \/ i \in 1 .. l
    BY <2>1, <1>2
  <2>3. \A i \in 1 .. l : i \in 1 .. m /\ i \in 1 .. n
    BY <2>2
  <2>4. ps[m] = ps[l] \o p[m] /\ as[m] = as[l] \o a[m]
    BY <1>2, <2>1
  <2>5. A(l) /\ N(l) /\ O(l) /\ I(l)
    BY <1>2, <2>1
  <2>6. ds[m] <=> ds[l] \/ d[m]
    <3>1. ds[m] <=> \E j \in 1 .. m : d[j]
      OBVIOUS
    <3>2. ds[l] <=> \E j \in 1 .. l : d[j]
      BY <2>2
    <3>3. m \in 1 .. m
      OBVIOUS
    <3>4. QED
      BY <2>2, <2>3, <3>1, <3>2, <3>3
  <2>7. PICK pl, pm, dl, dm, al, am, v :
          /\ pl = ps[l] /\ pm = p[m] /\ dl = ds[l] /\ dm = d[m] /\ al = as[l] /\ am = a[m] /\ v = ds[m]
    OBVIOUS
  <2>8. /\ dl \in BOOLEAN /\ dm \in BOOLEAN /\ v \in BOOLEAN /\ (v <=> dl \/ dm)
        /\ Agrees(pl, dl, al) /\ Agrees(pm, dm, am)
    BY <2>2, <2>5, <2>6, <2>7
  <2>9. /\ Agrees(pl \o pm, v, al \o am)
        /\ NamesGiven(al \o am) <=> NamesGiven(al) /\ NamesGiven(am)
        /\ Once(KeysOf(al \o am), Body) <=>
             Once(KeysOf(al), Body) /\ Once(KeysOf(am), Body) /\ ~(dl /\ dm)
        /\ IsInjective(KeysOf(al \o am)) => IsInjective(KeysOf(al)) /\ IsInjective(KeysOf(am))
    <3>1. Joining(pl, pm, dl, dm, v, al, am)
      BY <2>8 DEF Joining
    <3>2. Joined(pl, pm, dl, dm, v, al, am)
      BY <3>1, AgreesConcat
    <3>3. QED
      BY <3>2 DEF Joined
  <2>10. A(m)
    BY <2>4, <2>7, <2>9
  <2>11. N(m)
    <3>1. NamesGiven(as[m]) <=> NamesGiven(as[l]) /\ NamesGiven(a[m])
      BY <2>4, <2>7, <2>9
    <3>2. m \in 1 .. m
      OBVIOUS
    <3>3. QED
      BY <2>2, <2>3, <2>5, <3>1, <3>2
  <2>12. I(m)
    BY <2>2, <2>3, <2>4, <2>5, <2>7, <2>9
  <2>13. O(m)
    <3>1. dl <=> \E j \in 1 .. m - 1 : d[j]
      BY <2>1, <2>2, <2>7
    <3>2. Single(m) <=> Once(KeysOf(am), Body) /\ ~(dm /\ dl)
      BY <2>7, <3>1
    <3>3. Once(KeysOf(as[m]), Body) <=> Once(KeysOf(as[l]), Body) /\ Single(m)
      <4> HIDE DEF Single
      <4>1. QED
        BY <2>4, <2>7, <2>9, <3>2
    <3>4. m \in 1 .. m
      BY <1>2
    <3> HIDE DEF Single
    <3>5. QED
      BY <2>2, <2>3, <2>5, <3>3, <3>4
  <2> HIDE DEF A, N, O, I
  <2>14. QED
    BY <2>10, <2>11, <2>12, <2>13
<1>3. n \in good
  <2>1. good \in SUBSET (1 .. n)
    OBVIOUS
  <2> HIDE DEF good
  <2>2. QED
    BY <1>1, <1>2, <2>1, StepByStep
<1>4. QED
  BY <1>3 DEF Gathered

(* The members of sequences put together.                                  *)
LEMMA FlattenedMembers ==
  ASSUME NEW S, NEW seqs \in Seq(Seq(S)), Len(seqs) > 0
  PROVE  /\ FlattenSeq(seqs) \in Seq(S)
         /\ \A x : x \in ToSet(FlattenSeq(seqs)) <=> \E i \in 1 .. Len(seqs) : x \in ToSet(seqs[i])
<1>1. PICK flat \in [1 .. Len(seqs) -> Seq(S)] :
        /\ flat[1] = seqs[1]
        /\ \A i \in 1 .. Len(seqs) : i > 1 => flat[i] = flat[i - 1] \o seqs[i]
        /\ FlattenSeq(seqs) = flat[Len(seqs)]
  BY FlattenIs, Zenon
<1>2. PICK n : n = Len(seqs)
  OBVIOUS
<1>3. n \in Nat /\ n > 0 /\ \A i \in 1 .. n : seqs[i] \in Seq(S)
  BY <1>2, LenProperties, ElementOfSeq
<1> DEFINE good == {m \in 1 .. n : \A x : x \in ToSet(flat[m]) <=> \E i \in 1 .. m : x \in ToSet(seqs[i])}
<1>4. 1 \in good
  <2>1. 1 \in 1 .. n /\ \A i \in 1 .. 1 : i = 1
    BY <1>3
  <2>2. QED
    BY <1>1, <2>1
<1>5. ASSUME NEW m \in 1 .. n, m > 1, m - 1 \in good PROVE m \in good
  <2>1. PICK l : l = m - 1
    OBVIOUS
  <2>2. l \in 1 .. n /\ m \in 1 .. m /\ (\A i \in 1 .. m : i = m \/ i \in 1 .. l) /\ \A i \in 1 .. l : i \in 1 .. m
    BY <1>3, <1>5, <2>1
  <2>3. flat[m] = flat[l] \o seqs[m]
    BY <1>1, <1>2, <1>5, <2>1
  <2>4. flat[l] \in Seq(S) /\ seqs[m] \in Seq(S)
    BY <1>1, <1>2, <1>3, <2>2
  <2>5. ToSet(flat[m]) = ToSet(flat[l]) \cup ToSet(seqs[m])
    BY <2>3, <2>4, ConcatSet
  <2>6. \A x : x \in ToSet(flat[l]) <=> \E i \in 1 .. l : x \in ToSet(seqs[i])
    BY <1>5, <2>1
  <2>7. ASSUME NEW x PROVE x \in ToSet(flat[m]) <=> \E i \in 1 .. m : x \in ToSet(seqs[i])
    BY <2>2, <2>5, <2>6
  <2>8. QED
    BY <2>7
<1>6. n \in good
  <2>1. good \in SUBSET (1 .. n)
    OBVIOUS
  <2> HIDE DEF good
  <2>2. QED
    BY <1>3, <1>4, <1>5, <2>1, StepByStep
<1>7. n \in 1 .. n
  BY <1>3
<1>8. FlattenSeq(seqs) = flat[n] /\ flat[n] \in Seq(S)
  BY <1>1, <1>2, <1>7
<1>9. \A x : x \in ToSet(flat[n]) <=> \E i \in 1 .. n : x \in ToSet(seqs[i])
  BY <1>6
<1>10. QED
  BY <1>2, <1>8, <1>9

(* A sequence of two.                                                      *)
LEMMA TwoAre ==
  ASSUME NEW S, NEW x \in S, NEW y \in S
  PROVE  <<x, y>> \in Seq(S) /\ ToSet(<<x, y>>) = {x, y}
<1>1. <<x, y>> \in Seq(S) /\ DOMAIN <<x, y>> = {1, 2} /\ <<x, y>>[1] = x /\ <<x, y>>[2] = y
  OBVIOUS
<1>2. QED
  BY <1>1 DEF ToSet

(* Struct of some fields.                                                  *)
LEMMA StructHonest ==
  ASSUME NEW fields \in Seq(HonestCodecs), Len(fields) > 0
  PROVE  Struct(fields) \in HonestCodecs
<1>1. PICK n : n = Len(fields)
  OBVIOUS
<1>2. n \in Nat /\ n > 0 /\ n \in 1 .. n /\ DOMAIN fields = 1 .. n /\ \A i \in 1 .. n : fields[i] \in HonestCodecs
  BY <1>1, LenProperties, ElementOfSeq
<1> DEFINE p == [i \in 1 .. n |-> fields[i].parameters]
           d == [i \in 1 .. n |-> fields[i].entity]
           a == [i \in 1 .. n |-> fields[i].reads]
           Second(i) == d[i] /\ \E j \in 1 .. i - 1 : d[j]
           f == [i \in 1 .. n |-> <<fields[i].fault, IF Second(i) THEN "entities" ELSE "">>]
           ds == [i \in 1 .. n |-> \E j \in 1 .. i : d[j]]
<1>3. /\ p \in [1 .. n -> Seq(AllKeys)] /\ d \in [1 .. n -> BOOLEAN] /\ a \in [1 .. n -> Seq(Readers)]
      /\ \A i \in 1 .. n : Agrees(p[i], d[i], a[i])
  BY <1>2, HonestIs
<1>4. /\ ds \in [1 .. n -> BOOLEAN]
      /\ \A i \in 1 .. n : ds[i] <=> \E j \in 1 .. i : d[j]
  <2> HIDE DEF d
  <2>1. QED
    OBVIOUS
<1>5. ASSUME NEW i \in 1 .. n
      PROVE  /\ fields[i].fault \in Faults
             /\ fields[i].fault = "" => SoundReads(a[i])
             /\ fields[i].fault \notin {"", "prose"} => ~SoundReads(a[i])
  BY <1>2, HonestIs
<1>6. ASSUME NEW i \in 1 .. n
      PROVE  /\ f[i] \in Seq(Faults)
             /\ ToSet(f[i]) = {fields[i].fault, IF Second(i) THEN "entities" ELSE ""}
  <2> HIDE DEF Second
  <2>1. PICK x, y : x = fields[i].fault /\ y = IF Second(i) THEN "entities" ELSE ""
    OBVIOUS
  <2>2. x \in Faults /\ y \in Faults
    BY <1>5, <2>1 DEF Faults
  <2>3. f[i] = <<x, y>>
    BY <2>1
  <2>4. <<x, y>> \in Seq(Faults) /\ ToSet(<<x, y>>) = {x, y}
    BY <2>2, TwoAre
  <2> HIDE DEF f
  <2>5. QED
    BY <2>1, <2>3, <2>4
<1>7. /\ p \in Seq(Seq(AllKeys)) /\ Len(p) = n
      /\ a \in Seq(Seq(Readers)) /\ Len(a) = n
  <2> HIDE DEF p, a
  <2>1. QED
    BY <1>2, <1>3, SeqDef, LenProperties
<1>8. f \in Seq(Seq(Faults)) /\ Len(f) = n
  <2>1. DOMAIN f = 1 .. n /\ f = [i \in 1 .. n |-> f[i]]
    OBVIOUS
  <2> HIDE DEF f
  <2>2. f \in [1 .. n -> Seq(Faults)]
    BY <1>6, <2>1
  <2>3. QED
    BY <1>2, <2>2, SeqDef, LenProperties
<1>9. PICK parameters, reads, faults :
        parameters = FlattenSeq(p) /\ reads = FlattenSeq(a) /\ faults = FlattenSeq(f)
  OBVIOUS
<1>10. PICK v \in BOOLEAN : v = ds[n]
  BY <1>2, <1>4
<1>11. PICK twice : twice = duplicateParameterFault(parameters)
  OBVIOUS
<1>12. PICK h : h = firstFault(faults \o <<twice>>)
  OBVIOUS
<1>13. Struct(fields) = [parameters |-> parameters, entity |-> v, fault |-> h, reads |-> reads]
  <2>1. v <=> \E i \in DOMAIN fields : fields[i].entity
    <3>1. \A i \in 1 .. n : d[i] = fields[i].entity
      OBVIOUS
    <3> HIDE DEF d
    <3>2. QED
      BY <1>2, <1>4, <1>10, <3>1
  <2>2. f = [i \in DOMAIN fields |->
               <<fields[i].fault,
                 IF fields[i].entity /\ \E j \in 1 .. i - 1 : fields[j].entity THEN "entities" ELSE "">>]
    <3>1. ASSUME NEW i \in 1 .. n
          PROVE  Second(i) <=> fields[i].entity /\ \E j \in 1 .. i - 1 : fields[j].entity
      <4>1. d[i] = fields[i].entity /\ \A j \in 1 .. i - 1 : j \in 1 .. n /\ d[j] = fields[j].entity
        BY <1>2
      <4> HIDE DEF d
      <4>2. QED
        BY <4>1
    <3> HIDE DEF Second
    <3>2. QED
      BY <1>2, <3>1
  <2>3. p = [i \in DOMAIN fields |-> fields[i].parameters] /\ a = [i \in DOMAIN fields |-> fields[i].reads]
    BY <1>2
  <2> HIDE DEF p, a, f
  <2>4. v = (\E i \in DOMAIN fields : fields[i].entity)
    BY <2>1
  <2>5. QED
    BY <1>9, <1>11, <1>12, <2>2, <2>3, <2>4 DEF Struct
<1> HIDE DEF p, d, a, f, ds
<1>14. PICK ps \in [1 .. n -> Seq(AllKeys)] :
         /\ ps[1] = p[1]
         /\ \A i \in 1 .. n : i > 1 => ps[i] = ps[i - 1] \o p[i]
         /\ parameters = ps[n]
  <2>1. Len(p) > 0
    BY <1>2, <1>7
  <2>2. \E flat \in [1 .. Len(p) -> Seq(AllKeys)] :
          /\ flat[1] = p[1]
          /\ \A i \in 1 .. Len(p) : i > 1 => flat[i] = flat[i - 1] \o p[i]
          /\ FlattenSeq(p) = flat[Len(p)]
    BY <1>7, <2>1, FlattenIs, Zenon
  <2>3. Len(p) = n /\ FlattenSeq(p) = parameters
    BY <1>7, <1>9
  <2>4. QED
    BY <2>2, <2>3, Zenon
<1>15. PICK as \in [1 .. n -> Seq(Readers)] :
         /\ as[1] = a[1]
         /\ \A i \in 1 .. n : i > 1 => as[i] = as[i - 1] \o a[i]
         /\ reads = as[n]
  <2>1. Len(a) > 0
    BY <1>2, <1>7
  <2>2. \E flat \in [1 .. Len(a) -> Seq(Readers)] :
          /\ flat[1] = a[1]
          /\ \A i \in 1 .. Len(a) : i > 1 => flat[i] = flat[i - 1] \o a[i]
          /\ FlattenSeq(a) = flat[Len(a)]
    BY <1>7, <2>1, FlattenIs, Zenon
  <2>3. Len(a) = n /\ FlattenSeq(a) = reads
    BY <1>7, <1>9
  <2>4. QED
    BY <2>2, <2>3, Zenon
<1>16. \A i \in 1 .. n : i > 1 => ps[i] = ps[i - 1] \o p[i] /\ as[i] = as[i - 1] \o a[i]
  BY <1>14, <1>15
<1>17. Gathered(n, d, a, ps[n], ds[n], as[n])
  <2>1. Gathering(n, p, d, a, ps, ds, as)
    BY <1>2, <1>3, <1>4, <1>14, <1>15, <1>16 DEF Gathering
  <2>2. QED
    BY <2>1, FieldsAgree
<1>18. /\ Agrees(parameters, v, reads)
       /\ NamesGiven(reads) <=> \A i \in 1 .. n : NamesGiven(a[i])
       /\ Once(KeysOf(reads), Body) <=> \A i \in 1 .. n : Once(KeysOf(a[i]), Body) /\ ~Second(i)
       /\ IsInjective(KeysOf(reads)) => \A i \in 1 .. n : IsInjective(KeysOf(a[i]))
  BY <1>10, <1>14, <1>15, <1>17 DEF Gathered
<1>19. /\ faults \in Seq(Faults)
       /\ \A x : x \in ToSet(faults) <=> \E i \in 1 .. n : x \in ToSet(f[i])
  <2>1. Len(f) > 0
    BY <1>2, <1>8
  <2>2. QED
    BY <1>8, <1>9, <2>1, FlattenedMembers, Zenon
<1> HIDE DEF Second
<1>20. /\ twice \in Faults /\ twice # "prose"
       /\ twice = "" <=> IsInjective(parameters)
  BY <1>11, RepetitionIs DEF Faults
<1>21. /\ <<twice>> \in Seq(Faults) /\ ToSet(<<twice>>) = {twice}
  BY <1>20, OneIs
<1>22. faults \o <<twice>> \in Seq(Faults) /\ ToSet(faults \o <<twice>>) = ToSet(faults) \cup {twice}
  <2>1. PICK last : last = <<twice>>
    OBVIOUS
  <2>2. faults \in Seq(Faults) /\ last \in Seq(Faults) /\ ToSet(last) = {twice}
    BY <1>19, <1>21, <2>1
  <2>3. faults \o last \in Seq(Faults) /\ ToSet(faults \o last) = ToSet(faults) \cup ToSet(last)
    BY <2>2, ConcatSet, ConcatProperties
  <2>4. QED
    BY <2>1, <2>2, <2>3
<1>23. /\ h = "" => \A x \in ToSet(faults) \cup {twice} : x = ""
       /\ h # "" => h \in ToSet(faults) \cup {twice}
  <2>1. PICK all : all = faults \o <<twice>>
    OBVIOUS
  <2>2. all \in Seq(Faults) /\ ToSet(all) = ToSet(faults) \cup {twice} /\ h = firstFault(all)
    BY <1>12, <1>22, <2>1
  <2>3. /\ h = "" => \A i \in DOMAIN all : all[i] = ""
        /\ h # "" => \E i \in DOMAIN all : all[i] = h
    BY <2>2, FirstFaultIs
  <2>4. \A x : x \in ToSet(all) <=> \E i \in DOMAIN all : all[i] = x
    BY DEF ToSet
  <2>5. QED
    BY <2>2, <2>3, <2>4
<1>24. /\ h = "" => /\ \A i \in 1 .. n : fields[i].fault = "" /\ ~Second(i)
                    /\ twice = ""
       /\ h # "" => \/ \E i \in 1 .. n : h = fields[i].fault
                    \/ h = "entities" /\ \E i \in 1 .. n : Second(i)
                    \/ h = twice
  <2>1. ASSUME h = "", NEW i \in 1 .. n PROVE fields[i].fault = "" /\ ~Second(i)
    BY <1>6, <1>19, <1>23, <2>1
  <2>2. ASSUME h # "", h # twice
        PROVE  \/ \E i \in 1 .. n : h = fields[i].fault
               \/ h = "entities" /\ \E i \in 1 .. n : Second(i)
    <3>1. PICK i \in 1 .. n : h \in ToSet(f[i])
      BY <1>19, <1>23, <2>2
    <3>2. h = fields[i].fault \/ (h = "entities" /\ Second(i))
      BY <1>6, <2>2, <3>1
    <3>3. QED
      BY <3>2
  <2>3. QED
    BY <1>23, <2>1, <2>2
<1>25. h \in Faults
  BY <1>5, <1>20, <1>24 DEF Faults
<1>26. SoundReads(reads) <=> NamesGiven(reads) /\ IsInjective(parameters) /\ Once(KeysOf(reads), Body)
  BY <1>18 DEF Agrees, SoundReads
<1>27. SoundReads(reads) => \A i \in 1 .. n : SoundReads(a[i])
  BY <1>18 DEF SoundReads
<1>28. ASSUME h = "" PROVE SoundReads(reads)
  <2>1. ASSUME NEW i \in 1 .. n PROVE NamesGiven(a[i]) /\ Once(KeysOf(a[i]), Body) /\ ~Second(i)
    <3>1. SoundReads(a[i]) /\ ~Second(i)
      BY <1>5, <1>24, <1>28
    <3>2. Agrees(p[i], d[i], a[i])
      BY <1>3
    <3>3. QED
      BY <3>1, <3>2 DEF SoundReads, Agrees
  <2>2. twice = ""
    BY <1>24, <1>28
  <2>3. QED
    BY <1>18, <1>20, <1>26, <2>1, <2>2
<1>29. ASSUME h \notin {"", "prose"} PROVE ~SoundReads(reads)
  <2>1. CASE \E i \in 1 .. n : h = fields[i].fault
    BY <1>5, <1>27, <1>29, <2>1
  <2>2. CASE \E i \in 1 .. n : Second(i)
    BY <1>18, <1>26, <2>2
  <2>3. CASE h = twice
    BY <1>20, <1>26, <1>29, <2>3
  <2>4. QED
    BY <1>24, <1>29, <2>1, <2>2, <2>3
<1>30. Agrees(parameters, v, reads)
  BY <1>18
<1>31. [parameters |-> parameters, entity |-> v, fault |-> h, reads |-> reads] \in HonestCodecs
  BY <1>25, <1>28, <1>29, <1>30, MakesHonest
<1>32. QED
  BY <1>13, <1>31

-----------------------------------------------------------------------------
(* Endpoints.                                                              *)

(* Invariant by induction: the tree is the one its routes make, every      *)
(* codec in hand is honest, and so is that of each endpoint, whose path    *)
(* captures what it says it reads there.                                   *)
EndpointInv ==
  /\ TreeInv
  /\ hand \in Seq(HonestCodecs)
  /\ \A r \in DOMAIN inputs : inputs[r] \in HonestCodecs /\ Declarable(r, inputs[r])

(* A codec more, or one for the two or for all that were there.            *)
LEMMA HandKeeps ==
  ASSUME hand \in Seq(HonestCodecs),
         (\E reader \in Readers : Read(reader)) \/ ReadNothing \/ ZipLast \/ StructAll \/ Describe
  PROVE  hand' \in Seq(HonestCodecs) /\ UNCHANGED <<vars, inputs>>
<1> DEFINE n == Len(hand)
<1>1. n \in Nat /\ \A i \in 1 .. n : hand[i] \in HonestCodecs
  BY LenProperties, ElementOfSeq
<1>2. \A codec \in HonestCodecs : \A s \in Seq(HonestCodecs) : Append(s, codec) \in Seq(HonestCodecs)
  BY AppendProperties
<1>3. ASSUME NEW reader \in Readers, Read(reader)
      PROVE  hand' \in Seq(HonestCodecs) /\ UNCHANGED <<vars, inputs>>
  <2>1. PICK codec : codec = IF reader.in = "body" THEN Entity(reader) ELSE OneParameter(reader)
    OBVIOUS
  <2>2. codec \in HonestCodecs
    BY <2>1, ReaderHonest
  <2>3. hand' = Append(hand, codec) /\ UNCHANGED <<vars, inputs>>
    BY <1>3, <2>1 DEF Read
  <2>4. QED
    BY <1>2, <2>2, <2>3
<1>4. ASSUME ReadNothing PROVE hand' \in Seq(HonestCodecs) /\ UNCHANGED <<vars, inputs>>
  <2>1. PICK codec : codec = Nothing
    OBVIOUS
  <2>2. codec \in HonestCodecs
    BY <2>1, NothingHonest
  <2>3. <<codec>> \in Seq(HonestCodecs)
    BY <2>2, OneIs
  <2>4. QED
    BY <1>4, <2>1, <2>3 DEF ReadNothing
<1>5. ASSUME ZipLast PROVE hand' \in Seq(HonestCodecs) /\ UNCHANGED <<vars, inputs>>
  <2>1. n >= 2 /\ n - 1 \in 1 .. n /\ n \in 1 .. n /\ n - 2 \in Nat /\ n - 2 <= n
    BY <1>1, <1>5 DEF ZipLast
  <2>2. SubSeq(hand, 1, n - 2) \in Seq(HonestCodecs)
    <3>1. \A i \in 1 .. n - 2 : i \in 1 .. n
      BY <1>1, <2>1
    <3>2. QED
      BY <1>1, <2>1, <3>1, SubSeqProperties
  <2>3. PICK front, codec : front = SubSeq(hand, 1, n - 2) /\ codec = ZipCodecs(hand[n - 1], hand[n])
    OBVIOUS
  <2>4. codec \in HonestCodecs
    BY <1>1, <2>1, <2>3, ZipHonest
  <2>5. hand' = Append(front, codec) /\ UNCHANGED <<vars, inputs>>
    BY <1>5, <2>3 DEF ZipLast, Last
  <2>6. QED
    BY <1>2, <2>2, <2>3, <2>4, <2>5
<1>6. ASSUME StructAll PROVE hand' \in Seq(HonestCodecs) /\ UNCHANGED <<vars, inputs>>
  <2>1. Len(hand) > 0
    BY <1>1, <1>6 DEF StructAll
  <2>2. PICK codec : codec = Struct(hand)
    OBVIOUS
  <2>3. codec \in HonestCodecs
    BY <2>1, <2>2, StructHonest
  <2>4. <<codec>> \in Seq(HonestCodecs)
    BY <2>3, OneIs
  <2>5. QED
    BY <1>6, <2>2, <2>4 DEF StructAll
<1>7. ASSUME Describe PROVE hand' \in Seq(HonestCodecs) /\ UNCHANGED <<vars, inputs>>
  <2>1. hand # <<>>
    BY <1>7 DEF Describe
  <2>2. n # 0
    BY <1>1, <2>1, EmptySeq
  <2>3. n \in 1 .. n /\ n - 1 \in Nat /\ n - 1 <= n
    BY <1>1, <2>2
  <2>4. SubSeq(hand, 1, n - 1) \in Seq(HonestCodecs)
    <3>1. \A i \in 1 .. n - 1 : i \in 1 .. n
      BY <1>1, <2>3
    <3>2. QED
      BY <1>1, <2>3, <3>1, SubSeqProperties
  <2>5. PICK front, codec : front = SubSeq(hand, 1, n - 1) /\ codec = WithDescription(hand[n])
    OBVIOUS
  <2>6. codec \in HonestCodecs
    BY <1>1, <2>3, <2>5, DescribedHonest
  <2>7. hand' = Append(front, codec) /\ UNCHANGED <<vars, inputs>>
    BY <1>7, <2>5 DEF Describe, Last, Front
  <2>8. QED
    BY <1>2, <2>4, <2>5, <2>6, <2>7
<1>8. QED
  BY <1>3, <1>4, <1>5, <1>6, <1>7

(* An endpoint is declared, whether it is inserted, clashes or is faulty.  *)
LEMMA DeclareKeeps ==
  ASSUME EndpointInv, NEW route \in Routes, Declare(route) \/ DeclareFaulty(route)
  PROVE  EndpointInv'
<1>1. TreeInv /\ hand \in Seq(HonestCodecs)
  BY DEF EndpointInv
<1>2. \A r \in DOMAIN inputs : inputs[r] \in HonestCodecs /\ Declarable(r, inputs[r])
  BY DEF EndpointInv
<1>3. Len(hand) = 1 /\ hand' = <<>>
  BY DEF Declare, DeclareFaulty
<1>4. hand' \in Seq(HonestCodecs)
  BY <1>3
<1>5. hand[1] \in HonestCodecs
  BY <1>1, <1>3, ElementOfSeq
<1>6. ASSUME Declare(route), Insert(route),
             inputs' = [r \in DOMAIN inputs \cup {route} |-> IF r = route THEN hand[1] ELSE inputs[r]]
      PROVE  EndpointInv'
  <2>1. TreeInv'
    BY <1>1, <1>6, InsertKeeps
  <2>2. Declarable(route, hand[1])
    BY <1>6 DEF Declare, Insert
  <2>3. PICK codec : codec = hand[1]
    OBVIOUS
  <2>4. ASSUME NEW r \in DOMAIN inputs \cup {route}
        PROVE  inputs'[r] \in HonestCodecs /\ Declarable(r, inputs'[r])
    <3>1. CASE r = route
      <4>1. inputs'[r] = codec
        BY <1>6, <2>3, <3>1
      <4>2. QED
        BY <1>5, <2>2, <2>3, <3>1, <4>1
    <3>2. CASE r # route
      <4>1. inputs'[r] = inputs[r] /\ r \in DOMAIN inputs
        BY <1>6, <3>2
      <4>2. QED
        BY <1>2, <4>1
    <3>3. QED
      BY <3>1, <3>2
  <2>5. DOMAIN inputs' = DOMAIN inputs \cup {route}
    BY <1>6
  <2>6. QED
    BY <1>4, <2>1, <2>4, <2>5 DEF EndpointInv
<1>7. ASSUME Refuse(route), UNCHANGED inputs PROVE EndpointInv'
  <2>1. TreeInv'
    BY <1>1, <1>7, RefuseKeeps
  <2>2. QED
    BY <1>2, <1>4, <1>7, <2>1 DEF EndpointInv
<1>8. ASSUME DeclareFaulty(route) PROVE EndpointInv'
  <2>1. status = "assembling" /\ status' = "faulty" /\ declared' = declared /\ inputs' = inputs
    BY <1>8 DEF DeclareFaulty
  <2>2. Served' = Served
    BY <2>1 DEF Served
  <2>3. Sound' <=> Sound
    BY <2>1, <2>2 DEF Sound, parsePattern, Clash, Node, Edge
  <2>4. TreeInv'
    BY <1>1, <2>1, <2>3 DEF TreeInv
  <2>5. QED
    BY <1>2, <1>4, <2>1, <2>4 DEF EndpointInv
<1>9. QED
  BY <1>6, <1>7, <1>8 DEF Declare

(* On every reachable surface of routes and endpoints.                     *)
LEMMA EndpointAlways == EndpointSpec => []EndpointInv
<1>1. EndpointInit => EndpointInv
  <2> SUFFICES ASSUME EndpointInit PROVE EndpointInv
    OBVIOUS
  <2>1. TreeInv
    BY TreeInitial DEF EndpointInit
  <2>2. hand \in Seq(HonestCodecs) /\ DOMAIN inputs = {}
    BY DEF EndpointInit
  <2>3. QED
    BY <2>1, <2>2 DEF EndpointInv
<1>2. ASSUME EndpointInv, [EndpointNext \/ (Next /\ UNCHANGED endpointVars)]_<<vars, endpointVars>>
      PROVE  EndpointInv'
  <2>1. TreeInv /\ hand \in Seq(HonestCodecs)
    BY <1>2 DEF EndpointInv
  <2>2. \A r \in DOMAIN inputs : inputs[r] \in HonestCodecs /\ Declarable(r, inputs[r])
    BY <1>2 DEF EndpointInv
  <2>3. ASSUME NEW route \in Routes, Declare(route) \/ DeclareFaulty(route) PROVE EndpointInv'
    BY <1>2, <2>3, DeclareKeeps
  <2>4. CASE (\E reader \in Readers : Read(reader)) \/ ReadNothing \/ ZipLast \/ StructAll \/ Describe
    <3>1. hand' \in Seq(HonestCodecs) /\ UNCHANGED <<vars, inputs>>
      BY <2>1, <2>4, HandKeeps
    <3>2. TreeInv'
      BY <2>1, <3>1, StutterKeeps
    <3>3. QED
      BY <2>2, <3>1, <3>2 DEF EndpointInv
  <2>5. CASE Next /\ UNCHANGED endpointVars
    <3>1. TreeInv'
      BY <2>1, <2>5, InsertKeeps, RefuseKeeps DEF Next
    <3>2. hand' = hand /\ inputs' = inputs
      BY <2>5 DEF endpointVars
    <3>3. QED
      BY <2>1, <2>2, <3>1, <3>2 DEF EndpointInv
  <2>6. CASE UNCHANGED <<vars, endpointVars>>
    <3>1. TreeInv'
      BY <2>1, <2>6, StutterKeeps
    <3>2. hand' = hand /\ inputs' = inputs
      BY <2>6 DEF endpointVars
    <3>3. QED
      BY <2>1, <2>2, <3>1, <3>2 DEF EndpointInv
  <2>7. QED
    BY <1>2, <2>3, <2>4, <2>5, <2>6 DEF EndpointNext
<1>3. QED
  BY <1>1, <1>2, PTL DEF EndpointSpec

(* UsableIffUnambiguous, read off the invariant.                           *)
LEMMA UsableIs == EndpointInv => UsableIffUnambiguous
<1> SUFFICES ASSUME EndpointInv, NEW i \in DOMAIN hand
             PROVE  LET reads == hand[i].reads
                        sound == /\ \A j \in DOMAIN reads : reads[j].name # ""
                                 /\ \A j, k \in DOMAIN reads :
                                      reads[j].in = reads[k].in /\ reads[j].name = reads[k].name => j = k
                    IN  /\ hand[i].fault = "" => sound
                        /\ hand[i].fault \notin {"", "prose"} => ~sound
  BY DEF UsableIffUnambiguous
<1>1. hand[i] \in HonestCodecs
  BY LenProperties, ElementOfSeq DEF EndpointInv
<1>2. PICK codec : codec = hand[i]
  OBVIOUS
<1>3. PICK reads : reads = codec.reads
  OBVIOUS
<1>4. /\ reads \in Seq(Readers)
      /\ codec.fault = "" => SoundReads(reads)
      /\ codec.fault \notin {"", "prose"} => ~SoundReads(reads)
  BY <1>1, <1>2, <1>3, HonestIs
<1>5. /\ DOMAIN KeysOf(reads) = DOMAIN reads
      /\ \A j \in DOMAIN reads : KeysOf(reads)[j] = Key(reads[j])
  BY <1>4, KeysAre
<1>6. ASSUME NEW j \in DOMAIN reads, NEW k \in DOMAIN reads
      PROVE  KeysOf(reads)[j] = KeysOf(reads)[k] <=>
               reads[j].in = reads[k].in /\ reads[j].name = reads[k].name
  <2>1. Key(reads[j]) = Key(reads[k]) <=> reads[j].in = reads[k].in /\ reads[j].name = reads[k].name
    BY DEF Key
  <2>2. QED
    BY <1>5, <2>1
<1>7. SoundReads(reads) <=>
        /\ \A j \in DOMAIN reads : reads[j].name # ""
        /\ \A j, k \in DOMAIN reads :
             reads[j].in = reads[k].in /\ reads[j].name = reads[k].name => j = k
  BY <1>5, <1>6 DEF SoundReads, NamesGiven, IsInjective
<1>8. QED
  BY <1>2, <1>3, <1>4, <1>7

(* firstCodecFault (codec.go) and the checks of Struct (codec_struct.go):  *)
(* however many readers there are and however they are nested, a codec     *)
(* without a fault reads each parameter once and the body at most once,    *)
(* and one whose readers are sound and do not repeat each other has no     *)
(* fault but for its prose.                                                *)
THEOREM UsableCorrect == EndpointSpec => []UsableIffUnambiguous
BY EndpointAlways, UsableIs, PTL

(* What a codec reads of the path is what its endpoint's path captures.    *)
LEMMA ReadsCaptured ==
  ASSUME EndpointInv, NEW r, NEW i \in DOMAIN InputOf(r).reads, InputOf(r).reads[i].in = "path"
  PROVE  \E j \in DOMAIN r.segments :
           r.segments[j].kind # "literal" /\ r.segments[j].text = InputOf(r).reads[i].name
<1>1. CASE r \notin DOMAIN inputs
  <2>1. InputOf(r).reads = <<>>
    BY <1>1 DEF InputOf, Nothing
  <2>2. QED
    BY <2>1
<1>2. CASE r \in DOMAIN inputs
  <2>1. PICK codec : codec = InputOf(r)
    OBVIOUS
  <2>2. codec \in HonestCodecs /\ Declarable(r, codec)
    BY <1>2, <2>1 DEF InputOf, EndpointInv
  <2>3. PICK reads, parameters, reader :
          reads = codec.reads /\ parameters = codec.parameters /\ reader = reads[i]
    OBVIOUS
  <2>4. /\ reads \in Seq(Readers) /\ i \in DOMAIN reads /\ reader.in = "path"
        /\ ToSet(parameters) = ToSet(KeysOf(reads)) \ {Body}
    BY <2>1, <2>2, <2>3, HonestIs DEF Agrees
  <2>5. Key(reader) \in ToSet(KeysOf(reads))
    BY <2>3, <2>4, KeysAre DEF ToSet
  <2>6. Key(reader) # Body
    BY <2>4 DEF Key, Body
  <2>7. PICK k \in DOMAIN parameters : parameters[k] = Key(reader)
    BY <2>4, <2>5, <2>6 DEF ToSet
  <2>8. parameters[k].in = "path" /\ parameters[k].name = reader.name
    BY <2>4, <2>7 DEF Key
  <2>9. QED
    BY <2>1, <2>2, <2>3, <2>8 DEF Declarable, validateCaptures
<1>3. QED
  BY <1>1, <1>2

(* PathAlwaysCaptured, read off the invariant and what Handler says.       *)
LEMMA CapturedIs == EndpointInv => PathAlwaysCaptured
<1> SUFFICES ASSUME EndpointInv, status = "assembling", NEW path \in Paths, NEW method \in Methods,
                    Handler(path, method).status = 200,
                    NEW r \in Handler(path, method).routes, NEW i \in DOMAIN InputOf(r).reads,
                    InputOf(r).reads[i].in = "path"
             PROVE  \E c \in Handler(path, method).captures : c.name = InputOf(r).reads[i].name
  BY DEF PathAlwaysCaptured
<1>1. PICK answer, name : answer = Handler(path, method) /\ name = InputOf(r).reads[i].name
  OBVIOUS
<1>2. TreeInv /\ path \in AnyPath
  BY PathsAre DEF EndpointInv
<1>3. Fitting(path, method) # {}
  <2>1. Fitting(path, method) = {} =>
          answer = [status |-> 405, allow |-> Allowed(path)] \/ answer = [status |-> 404]
    BY <1>1, <1>2, HandlerSays
  <2>2. QED
    BY <1>1, <2>1
<1>4. PICK best \in Fitting(path, method) :
        answer = [status |-> 200, routes |-> {best}, captures |-> Captures(best, path)]
  BY <1>1, <1>2, <1>3, HandlerSays
<1>5. r = best /\ answer.captures = Captures(best, path)
  BY <1>1, <1>4
<1>6. PICK j \in DOMAIN r.segments : r.segments[j].kind # "literal" /\ r.segments[j].text = name
  BY <1>1, ReadsCaptured
<1>7. \E c \in Captures(r, path) : c.name = name
  <2> DEFINE Value(k) == IF r.segments[k].kind = "wildcard"
                         THEN SubSeq(path, k, Len(path)) ELSE <<path[k]>>
             bound == {k \in DOMAIN r.segments : r.segments[k].kind # "literal"}
             c == [name |-> r.segments[j].text, value |-> Value(j)]
  <2>1. Captures(r, path) = {[name |-> r.segments[k].text, value |-> Value(k)] : k \in bound}
    BY DEF Captures
  <2>2. j \in bound
    BY <1>6
  <2> HIDE DEF Value, bound
  <2>3. c \in Captures(r, path)
    BY <2>1, <2>2
  <2>4. c.name = name
    BY <1>6
  <2>5. QED
    BY <2>3, <2>4
<1>8. QED
  BY <1>1, <1>5, <1>7

(* validateCaptures (endpoint_validation.go) with the walk of the tree: a  *)
(* path parameter is always there to be read, on any surface, for a path   *)
(* of any length, whichever routes share the nodes of its path.            *)
THEOREM CapturedCorrect == EndpointSpec => []PathAlwaysCaptured
BY EndpointAlways, CapturedIs, PTL

-----------------------------------------------------------------------------
(* Calls.                                                                  *)

(* A path laid out segment by segment, with the rest of it at the last.    *)
Laid(path, seqs, n, S) ==
  /\ path \in Seq(S)
  /\ Len(path) = (n - 1) + Len(seqs[n])
  /\ \A i \in 1 .. n : i < n => path[i] = seqs[i][1]
  /\ \A k \in 1 .. Len(seqs[n]) : path[(n - 1) + k] = seqs[n][k]

(* Sequences of one put together, the last of which may be longer.         *)
LEMMA FilledIs ==
  ASSUME NEW S, NEW seqs \in Seq(Seq(S)), NEW n \in Nat, n = Len(seqs), n > 0,
         \A i \in 1 .. n : i < n => Len(seqs[i]) = 1, Len(seqs[n]) > 0
  PROVE  Laid(FlattenSeq(seqs), seqs, n, S)
<1>1. PICK flat \in [1 .. Len(seqs) -> Seq(S)] :
        /\ flat[1] = seqs[1]
        /\ \A i \in 1 .. Len(seqs) : i > 1 => flat[i] = flat[i - 1] \o seqs[i]
        /\ FlattenSeq(seqs) = flat[Len(seqs)]
  BY FlattenIs, Zenon
<1>2. \A i \in 1 .. n : seqs[i] \in Seq(S) /\ Len(seqs[i]) \in Nat
  BY LenProperties, ElementOfSeq
<1>3. \A i \in 1 .. n : flat[i] \in Seq(S)
  BY <1>1
<1> DEFINE Long(m) == Len(flat[m]) = (m - 1) + Len(seqs[m])
           Begins(m) == \A i \in 1 .. n : i < m => flat[m][i] = seqs[i][1]
           Ends(m) == \A k \in 1 .. Len(seqs[m]) : flat[m][(m - 1) + k] = seqs[m][k]
           good == {m \in 1 .. n : Long(m) /\ Begins(m) /\ Ends(m)}
<1>4. 1 \in good
  <2>1. 1 \in 1 .. n /\ 1 - 1 = 0 /\ (\A k \in Nat : 0 + k = k) /\ \A i \in 1 .. n : ~(i < 1)
    OBVIOUS
  <2>2. Long(1)
    BY <1>1, <1>2, <2>1
  <2>3. Begins(1)
    BY <2>1
  <2>4. Ends(1)
    <3>1. \A k \in 1 .. Len(seqs[1]) : k \in Nat
      BY <1>2, <2>1
    <3>2. QED
      BY <1>1, <2>1, <3>1
  <2> HIDE DEF Long, Begins, Ends
  <2>5. QED
    BY <2>1, <2>2, <2>3, <2>4
<1>5. ASSUME NEW m \in 1 .. n, m > 1, m - 1 \in good PROVE m \in good
  <2>1. PICK l : l = m - 1
    OBVIOUS
  <2>2. l \in 1 .. n /\ l < n /\ l \in Nat /\ (l - 1) + 1 = l
    BY <1>5, <2>1
  <2>3. Long(l) /\ Begins(l) /\ Ends(l)
    BY <1>5, <2>1
  <2>4. PICK a, b : a = flat[l] /\ b = seqs[m]
    OBVIOUS
  <2>5. a \in Seq(S) /\ b \in Seq(S) /\ flat[m] = a \o b
    BY <1>1, <1>2, <1>3, <1>5, <2>1, <2>2, <2>4
  <2>6. Len(seqs[l]) = 1
    BY <2>2
  <2>7. Len(a) = l
    BY <2>2, <2>3, <2>4, <2>6
  <2>8. /\ Len(a \o b) = Len(a) + Len(b)
        /\ \A i \in 1 .. Len(a) : (a \o b)[i] = a[i]
        /\ \A k \in 1 .. Len(b) : (a \o b)[Len(a) + k] = b[k]
    BY <2>5, ConcatPlaces
  <2>9. Long(m)
    BY <2>1, <2>4, <2>5, <2>7, <2>8
  <2>10. Ends(m)
    BY <2>1, <2>4, <2>5, <2>7, <2>8
  <2>11. ASSUME NEW i \in 1 .. n, i < m PROVE flat[m][i] = seqs[i][1]
    <3>1. i \in 1 .. l /\ (i < l \/ i = l)
      BY <2>1, <2>2, <2>11
    <3>2. flat[m][i] = a[i]
      BY <2>5, <2>7, <2>8, <3>1
    <3>3. CASE i < l
      BY <2>3, <2>4, <3>2, <3>3
    <3>4. CASE i = l
      <4>1. 1 \in 1 .. Len(seqs[l])
        BY <2>6
      <4>2. flat[l][(l - 1) + 1] = seqs[l][1]
        BY <2>3, <4>1
      <4>3. QED
        BY <2>2, <2>4, <3>2, <3>4, <4>2
    <3>5. QED
      BY <3>1, <3>3, <3>4
  <2>12. Begins(m)
    BY <2>11
  <2> HIDE DEF Long, Begins, Ends
  <2>13. QED
    BY <2>9, <2>10, <2>12
<1>6. n \in good
  <2>1. good \in SUBSET (1 .. n)
    OBVIOUS
  <2> HIDE DEF good
  <2>2. QED
    BY <1>4, <1>5, <2>1, StepByStep
<1>7. FlattenSeq(seqs) = flat[n] /\ flat[n] \in Seq(S)
  BY <1>1, <1>3
<1>8. QED
  BY <1>6, <1>7 DEF Laid

(* What a caller gives for every capture of a pattern: one segment, and    *)
(* for a wildcard one or more.                                             *)
Filling(segments, given) ==
  /\ DOMAIN given = CapturesOf(segments)
  /\ \A i \in 1 .. Len(segments) : segments[i].kind # "literal" =>
       /\ given[segments[i].text] \in Seq(Parts)
       /\ Len(given[segments[i].text]) \in Nat \ {0}
       /\ segments[i].kind # "wildcard" => Len(given[segments[i].text]) = 1

(* What a segment captures of a path.                                      *)
Captured(segment, i, path) ==
  IF segment.kind = "wildcard" THEN SubSeq(path, i, Len(path)) ELSE <<path[i]>>

(* A path filled from a pattern matches it, and each capture gets back     *)
(* what it was filled with.                                                *)
LEMMA FilledPath ==
  ASSUME NEW r \in Routes, parsePattern(r.segments), NEW given, Filling(r.segments, given)
  PROVE  LET path == fillPattern(r.segments, given) IN
         /\ path \in AnyPath
         /\ Matches(r, path)
         /\ \A i \in 1 .. Len(r.segments) : r.segments[i].kind # "literal" =>
              Captured(r.segments[i], i, path) = given[r.segments[i].text]
<1>1. PICK s, n : s = r.segments /\ n = Len(s)
  OBVIOUS
<1>2. /\ s \in Seq(Segments) /\ n \in Nat /\ n > 0 /\ n \in 1 .. n /\ DOMAIN s = 1 .. n
      /\ \A i \in 1 .. n : s[i] \in Segments /\ s[i].kind \in Kinds
  BY <1>1, PatternIs
<1>3. \A i \in 1 .. n : s[i].kind = "wildcard" => i = n
  BY <1>1, <1>2 DEF parsePattern
<1> DEFINE piece(i) == IF s[i].kind = "literal" THEN <<s[i].text>> ELSE given[s[i].text]
           pieces == [i \in 1 .. n |-> piece(i)]
           P == Parts \cup Texts
<1>4. ASSUME NEW i \in 1 .. n
      PROVE  /\ pieces[i] \in Seq(P) /\ Len(pieces[i]) \in Nat /\ Len(pieces[i]) > 0
             /\ s[i].kind # "wildcard" => Len(pieces[i]) = 1
             /\ s[i].kind = "literal" => pieces[i][1] = s[i].text
             /\ s[i].kind # "literal" => pieces[i] = given[s[i].text]
  <2>1. CASE s[i].kind = "literal"
    <3>1. s[i].text \in P
      BY <1>2, <2>1 DEF Segments
    <3>2. PICK x \in P : x = s[i].text
      BY <3>1
    <3>3. pieces[i] = <<x>>
      BY <2>1, <3>2
    <3>4. <<x>> \in Seq(P) /\ Len(<<x>>) = 1 /\ <<x>>[1] = x
      BY OneIs
    <3> HIDE DEF pieces, P
    <3>5. QED
      BY <2>1, <3>2, <3>3, <3>4
  <2>2. CASE s[i].kind # "literal"
    <3>1. PICK g : g = given[s[i].text]
      OBVIOUS
    <3>2. pieces[i] = g
      BY <2>2, <3>1
    <3>3. g \in Seq(Parts) /\ Len(g) \in Nat \ {0} /\ (s[i].kind # "wildcard" => Len(g) = 1)
      BY <1>1, <2>2, <3>1 DEF Filling
    <3>4. g \in Seq(P)
      <4>1. DOMAIN g = 1 .. Len(g) /\ \A k \in 1 .. Len(g) : g[k] \in Parts
        BY <3>3, LenProperties, ElementOfSeq
      <4>2. QED
        BY <3>3, <4>1, SeqDef
    <3> HIDE DEF pieces, P
    <3>5. QED
      BY <2>2, <3>1, <3>2, <3>3, <3>4
  <2>3. QED
    BY <2>1, <2>2
<1>5. PICK path : path = fillPattern(r.segments, given)
  OBVIOUS
<1>6. path = FlattenSeq(pieces)
  <2>1. CapturesOf(s) \subseteq DOMAIN given
    BY <1>1 DEF Filling
  <2>2. fillPattern(s, given) = FlattenSeq([i \in DOMAIN s |-> piece(i)])
    BY <2>1 DEF fillPattern
  <2>3. pieces = [i \in DOMAIN s |-> piece(i)]
    BY <1>2
  <2> HIDE DEF pieces, piece
  <2>4. QED
    BY <1>1, <1>5, <2>2, <2>3
<1>7. pieces \in Seq(Seq(P)) /\ Len(pieces) = n
  <2>1. DOMAIN pieces = 1 .. n /\ pieces = [i \in 1 .. n |-> pieces[i]]
    OBVIOUS
  <2> HIDE DEF pieces, P
  <2>2. pieces \in [1 .. n -> Seq(P)]
    BY <1>4, <2>1
  <2>3. QED
    BY <1>2, <2>2, SeqDef, LenProperties
<1> HIDE DEF pieces, piece, P
<1>8. (\A i \in 1 .. n : i < n => Len(pieces[i]) = 1) /\ Len(pieces[n]) > 0 /\ Len(pieces[n]) \in Nat
  <2>1. ASSUME NEW i \in 1 .. n, i < n PROVE Len(pieces[i]) = 1
    <3>1. s[i].kind # "wildcard"
      BY <1>2, <1>3, <2>1
    <3>2. QED
      BY <1>4, <3>1
  <2>2. QED
    BY <1>2, <1>4, <2>1
<1>9. /\ path \in Seq(P)
      /\ Len(path) = (n - 1) + Len(pieces[n])
      /\ \A i \in 1 .. n : i < n => path[i] = pieces[i][1]
      /\ \A k \in 1 .. Len(pieces[n]) : path[(n - 1) + k] = pieces[n][k]
  <2>1. n = Len(pieces) /\ n > 0 /\ n \in Nat
    BY <1>2, <1>7
  <2>2. Laid(FlattenSeq(pieces), pieces, n, P)
    BY <1>7, <1>8, <2>1, FilledIs, Zenon
  <2>3. QED
    BY <1>6, <2>2 DEF Laid
<1>10. Len(path) \in Nat /\ Len(path) >= n /\ DOMAIN path = 1 .. Len(path)
  BY <1>2, <1>8, <1>9, LenProperties
<1>11. path \in AnyPath
  BY <1>2, <1>9, <1>10 DEF AnyPath, P
<1>12. \A i \in 1 .. n : path[i] = pieces[i][1]
  <2>1. path[n] = pieces[n][1]
    <3>1. 1 \in 1 .. Len(pieces[n]) /\ (n - 1) + 1 = n
      BY <1>2, <1>8
    <3>2. QED
      BY <1>9, <3>1
  <2>2. QED
    BY <1>2, <1>9, <2>1
<1>13. Matches(r, path)
  <2>1. ASSUME NEW i \in 1 .. n
        PROVE  (s[i].kind = "wildcard" /\ i = n) \/ (i <= Len(path) /\ Fits(s[i], path[i]))
    <3>1. i <= Len(path)
      BY <1>2, <1>10
    <3>2. CASE s[i].kind = "wildcard"
      BY <1>3, <3>2
    <3>3. CASE s[i].kind = "literal"
      BY <1>4, <1>12, <3>1, <3>3 DEF Fits
    <3>4. CASE s[i].kind = "capture"
      BY <3>1, <3>4 DEF Fits
    <3>5. QED
      BY <1>2, <3>2, <3>3, <3>4 DEF Kinds
  <2>2. ASSUME s[n].kind # "wildcard" PROVE n = Len(path)
    <3>1. Len(pieces[n]) = 1
      BY <1>2, <1>4, <2>2
    <3>2. QED
      BY <1>2, <1>9, <3>1
  <2>3. QED
    BY <1>1, <1>10, <1>11, <2>1, <2>2, MatchLength
<1>14. ASSUME NEW i \in 1 .. n, s[i].kind # "literal"
       PROVE  Captured(s[i], i, path) = given[s[i].text]
  <2>1. PICK g : g = given[s[i].text]
    OBVIOUS
  <2>2. g = pieces[i] /\ g \in Seq(P) /\ Len(g) \in Nat /\ Len(g) > 0
    BY <1>4, <1>14, <2>1
  <2>3. CASE s[i].kind = "wildcard"
    <3>1. i = n /\ Captured(s[i], i, path) = SubSeq(path, n, Len(path))
      BY <1>3, <2>3 DEF Captured
    <3>2. PICK rest : rest = SubSeq(path, n, Len(path))
      OBVIOUS
    <3>3. /\ rest \in Seq(P) /\ Len(rest) = Len(g)
          /\ \A k \in 1 .. Len(g) : rest[k] = path[(n - 1) + k]
      <4>1. \A k \in n .. Len(path) : path[k] \in P
        BY <1>2, <1>9, <1>10, ElementOfSeq
      <4>2. n \in Nat /\ Len(path) \in Nat /\ n <= Len(path) + 1 /\ (Len(path) - n) + 1 = Len(g)
        BY <1>2, <1>9, <1>10, <2>2, <3>1
      <4>3. rest = [k \in 1 .. Len(g) |-> path[(n + k) - 1]]
        BY <3>2, <4>2
      <4>4. \A k \in 1 .. Len(g) : (n + k) - 1 = (n - 1) + k /\ (n + k) - 1 \in n .. Len(path)
        BY <1>2, <2>2, <4>2
      <4>5. rest \in [1 .. Len(g) -> P] /\ \A k \in 1 .. Len(g) : rest[k] = path[(n - 1) + k]
        BY <4>1, <4>3, <4>4
      <4>6. QED
        BY <2>2, <4>5, SeqDef, LenProperties
    <3>4. \A k \in 1 .. Len(g) : rest[k] = g[k]
      BY <1>9, <2>2, <3>1, <3>3
    <3>5. rest = g
      BY <2>2, <3>3, <3>4, SeqEqual
    <3>6. QED
      BY <2>1, <3>1, <3>2, <3>5
  <2>4. CASE s[i].kind # "wildcard"
    <3>1. Captured(s[i], i, path) = <<path[i]>>
      BY <2>4 DEF Captured
    <3>2. Len(g) = 1 /\ path[i] = g[1] /\ 1 \in 1 .. Len(g)
      BY <1>4, <1>12, <2>2, <2>4
    <3>3. PICK x \in P : x = g[1]
      BY <2>2, <3>2, ElementOfSeq
    <3>4. <<x>> \in Seq(P) /\ Len(<<x>>) = 1 /\ <<x>>[1] = x
      BY OneIs
    <3>5. \A k \in 1 .. Len(g) : g[k] = <<x>>[k]
      BY <3>2, <3>3, <3>4
    <3>6. PICK one : one = <<x>>
      OBVIOUS
    <3>7. g = one
      BY <2>2, <3>2, <3>4, <3>5, <3>6, SeqEqual
    <3>8. QED
      BY <2>1, <3>1, <3>2, <3>3, <3>6, <3>7
  <2>5. QED
    BY <2>3, <2>4
<1>15. QED
  BY <1>1, <1>5, <1>11, <1>13, <1>14

(* What a caller can send.                                                 *)
LEMMA RequestIs ==
  ASSUME NEW r \in Routes, parsePattern(r.segments), NEW request \in RequestsFor(r)
  PROVE  /\ DOMAIN request.given \subseteq CapturesOf(r.segments)
         /\ DOMAIN request.given = CapturesOf(r.segments) => Filling(r.segments, request.given)
         /\ \A i \in DOMAIN InputOf(r).reads :
              InputOf(r).reads[i].in # "path" => Key(InputOf(r).reads[i]) \in DOMAIN request.sent
<1> DEFINE wild == {r.segments[i].text : i \in {j \in DOMAIN r.segments : r.segments[j].kind = "wildcard"}}
           reads == ToSet(InputOf(r).reads)
           keys == {[in |-> q.in, name |-> q.name] : q \in {q \in reads : q.in # "path"}}
           whole == {<<p>> : p \in Parts}
           fillings == UNION {[S -> SeqsUpTo(Parts, 2)] : S \in SUBSET CapturesOf(r.segments)}
           fit == {g \in fillings : \A n \in DOMAIN g : n \in wild \/ g[n] \in whole}
<1>1. RequestsFor(r) = [given : fit, sent : [keys -> whole \cup {<<>>}]]
  BY DEF RequestsFor
<1> HIDE DEF fit, keys
<1>2. PICK g, sent : g = request.given /\ sent = request.sent
  OBVIOUS
<1>3. g \in fit /\ DOMAIN sent = keys
  BY <1>1, <1>2
<1>4. /\ DOMAIN g \subseteq CapturesOf(r.segments)
      /\ \A n \in DOMAIN g : g[n] \in SeqsUpTo(Parts, 2) /\ (n \in wild \/ g[n] \in whole)
  <2>1. g \in fillings /\ \A n \in DOMAIN g : n \in wild \/ g[n] \in whole
    BY <1>3 DEF fit
  <2> HIDE DEF wild, whole
  <2>2. PICK S \in SUBSET CapturesOf(r.segments) : g \in [S -> SeqsUpTo(Parts, 2)]
    BY <2>1
  <2>3. QED
    BY <2>1, <2>2
<1>5. \A i \in DOMAIN InputOf(r).reads : InputOf(r).reads[i].in # "path" => Key(InputOf(r).reads[i]) \in keys
  BY DEF keys, ToSet, Key
<1>6. ASSUME DOMAIN g = CapturesOf(r.segments), NEW i \in 1 .. Len(r.segments),
             r.segments[i].kind # "literal"
      PROVE  /\ g[r.segments[i].text] \in Seq(Parts)
             /\ Len(g[r.segments[i].text]) \in Nat \ {0}
             /\ r.segments[i].kind # "wildcard" => Len(g[r.segments[i].text]) = 1
  <2>1. i \in DOMAIN r.segments
    BY PatternIs
  <2>2. PICK n : n = r.segments[i].text
    OBVIOUS
  <2>3. n \in DOMAIN g
    BY <1>6, <2>1, <2>2 DEF CapturesOf
  <2>4. g[n] \in Seq(Parts) /\ Len(g[n]) \in Nat \ {0}
    BY <1>4, <2>3, ShortSeq
  <2>5. ASSUME r.segments[i].kind # "wildcard" PROVE Len(g[n]) = 1
    <3>1. n \notin wild
      <4> SUFFICES ASSUME n \in wild PROVE FALSE
        OBVIOUS
      <4>1. PICK j \in DOMAIN r.segments : r.segments[j].kind = "wildcard" /\ r.segments[j].text = n
        OBVIOUS
      <4>2. j = i
        BY <1>6, <2>1, <2>2, <4>1 DEF parsePattern
      <4>3. QED
        BY <2>5, <4>1, <4>2
    <3> HIDE DEF wild
    <3>2. PICK p \in Parts : g[n] = <<p>>
      BY <1>4, <2>3, <3>1
    <3>3. QED
      BY <3>2, OneIs
  <2>6. QED
    BY <2>2, <2>4, <2>5
<1>7. DOMAIN g = CapturesOf(r.segments) => Filling(r.segments, g)
  BY <1>6 DEF Filling
<1>8. QED
  BY <1>2, <1>3, <1>4, <1>5, <1>7

(* At the endpoint a call was made to, every reader finds what the caller  *)
(* gave for it.                                                            *)
LEMMA LocatedIs ==
  ASSUME EndpointInv, NEW r \in Routes, parsePattern(r.segments), NEW request \in RequestsFor(r),
         Filling(r.segments, request.given), NEW path, path = fillPattern(r.segments, request.given),
         NEW i \in DOMAIN InputOf(r).reads
  PROVE  LET reader == InputOf(r).reads[i] IN
         Located(reader, Captures(r, path), request.sent) =
           IF reader.in = "path" THEN request.given[reader.name]
           ELSE request.sent[[in |-> reader.in, name |-> reader.name]]
<1>1. PICK reader, given, sent :
        reader = InputOf(r).reads[i] /\ given = request.given /\ sent = request.sent
  OBVIOUS
<1>2. CASE reader.in # "path"
  <2>1. [in |-> reader.in, name |-> reader.name] \in DOMAIN sent
    BY <1>1, <1>2, RequestIs DEF Key
  <2>2. Located(reader, Captures(r, path), sent) = sent[[in |-> reader.in, name |-> reader.name]]
    BY <1>2, <2>1 DEF Located
  <2>3. QED
    BY <1>1, <1>2, <2>2
<1>3. CASE reader.in = "path"
  <2>1. PICK j \in DOMAIN r.segments : r.segments[j].kind # "literal" /\ r.segments[j].text = reader.name
    BY <1>1, <1>3, ReadsCaptured
  <2>2. j \in 1 .. Len(r.segments)
    BY PatternIs
  <2> DEFINE Value(k) == Captured(r.segments[k], k, path)
             captures == {k \in DOMAIN r.segments : r.segments[k].kind # "literal"}
             bound == {c \in Captures(r, path) : c.name = reader.name}
             mine == [name |-> r.segments[j].text, value |-> Value(j)]
  <2>3. Captures(r, path) = {[name |-> r.segments[k].text, value |-> Value(k)] : k \in captures}
    BY DEF Captures, Captured
  <2>4. j \in captures /\ \A k \in captures : r.segments[k].text = reader.name => k = j
    BY <2>1 DEF parsePattern
  <2>5. Value(j) = given[reader.name]
    BY <1>1, <2>1, <2>2, FilledPath
  <2> HIDE DEF Value, captures
  <2>6. bound = {mine}
    <3>1. mine \in bound
      BY <2>1, <2>3, <2>4
    <3>2. ASSUME NEW c \in bound PROVE c = mine
      <4>1. PICK k \in captures : c = [name |-> r.segments[k].text, value |-> Value(k)]
        BY <2>3
      <4>2. k = j
        BY <2>4, <4>1
      <4>3. QED
        BY <4>1, <4>2
    <3> HIDE DEF mine, bound
    <3>3. QED
      BY <3>1, <3>2
  <2>7. Located(reader, Captures(r, path), sent) =
          IF bound = {} THEN <<>> ELSE (CHOOSE c \in bound : TRUE).value
    BY <1>3 DEF Located
  <2>8. mine.value = given[reader.name]
    BY <2>5
  <2> HIDE DEF mine, bound
  <2>9. (CHOOSE c \in bound : TRUE) = mine /\ bound # {}
    BY <2>6
  <2>10. Located(reader, Captures(r, path), sent) = given[reader.name]
    BY <2>7, <2>8, <2>9
  <2>11. QED
    BY <1>1, <1>3, <2>10
<1>4. QED
  BY <1>2, <1>3

(* CallFindsItsEndpoint: the filled path matches its pattern, so a route   *)
(* answers, its own or a more specific one.                                *)
LEMMA CallIs == EndpointInv => CallFindsItsEndpoint
<1> SUFFICES ASSUME EndpointInv, status = "assembling", NEW endpoint \in Served,
                    NEW request \in RequestsFor(endpoint)
             PROVE  LET answer == Call(endpoint, request)
                        reads == InputOf(endpoint).reads
                        gave(reader) == IF reader.in = "path" THEN request.given[reader.name]
                                        ELSE request.sent[[in |-> reader.in, name |-> reader.name]]
                        acceptable == \A i \in DOMAIN reads : Accepts(reads[i], gave(reads[i]))
                    IN  IF DOMAIN request.given # CapturesOf(endpoint.segments) THEN answer.status = 0
                        ELSE /\ answer.status \in {200, 400}
                             /\ answer.route # endpoint => MoreSpecific(answer.route, endpoint)
                             /\ answer.route = endpoint => (answer.status = 200 <=> acceptable)
  BY DEF CallFindsItsEndpoint
<1> DEFINE reads == InputOf(endpoint).reads
           gave(reader) == IF reader.in = "path" THEN request.given[reader.name]
                           ELSE request.sent[[in |-> reader.in, name |-> reader.name]]
           acceptable == \A i \in DOMAIN reads : Accepts(reads[i], gave(reads[i]))
           method == endpoint.method
<1>1. TreeInv /\ endpoint \in Routes /\ parsePattern(endpoint.segments)
  BY ServedRoutes DEF EndpointInv, TreeInv, Sound
<1>2. PICK path, answer : path = fillPattern(endpoint.segments, request.given) /\ answer = Call(endpoint, request)
  OBVIOUS
<1>3. answer = IF path = <<>> THEN [status |-> 0] ELSE Serve(path, method, request.sent)
  BY <1>2 DEF Call
<1>4. ASSUME DOMAIN request.given # CapturesOf(endpoint.segments) PROVE answer.status = 0
  <2>1. ~(CapturesOf(endpoint.segments) \subseteq DOMAIN request.given)
    BY <1>1, <1>4, RequestIs
  <2>2. path = <<>>
    BY <1>2, <2>1 DEF fillPattern
  <2>3. answer = [status |-> 0]
    BY <1>3, <2>2
  <2>4. QED
    BY <2>3
<1>5. ASSUME DOMAIN request.given = CapturesOf(endpoint.segments)
      PROVE  /\ answer.status \in {200, 400}
             /\ answer.route # endpoint => MoreSpecific(answer.route, endpoint)
             /\ answer.route = endpoint => (answer.status = 200 <=> acceptable)
  <2>1. Filling(endpoint.segments, request.given)
    BY <1>1, <1>5, RequestIs
  <2>2. path \in AnyPath /\ Matches(endpoint, path)
    BY <1>1, <1>2, <2>1, FilledPath
  <2>3. path # <<>>
    BY <2>2 DEF AnyPath
  <2>4. endpoint \in Fitting(path, method)
    BY <2>2 DEF Fitting, Matching
  <2>5. PICK match : match = Handler(path, method)
    OBVIOUS
  <2>6. PICK best \in Fitting(path, method) :
          /\ match = [status |-> 200, routes |-> {best}, captures |-> Captures(best, path)]
          /\ \A s \in Fitting(path, method) \ {best} : MoreSpecific(best, s)
    <3>1. Fitting(path, method) # {}
      BY <2>4
    <3>2. QED
      BY <1>1, <2>2, <2>5, <3>1, HandlerSays
  <2>7. match.status = 200 /\ match.routes = {best} /\ match.captures = Captures(best, path)
    BY <2>6
  <2>8. (CHOOSE r \in match.routes : TRUE) = best
    BY <2>7
  <2>9. PICK decoded \in BOOLEAN : decoded <=> Decode(InputOf(best), Captures(best, path), request.sent)
    OBVIOUS
  <2>10. answer = [status |-> IF decoded THEN 200 ELSE 400, route |-> best]
    <3>1. Serve(path, method, request.sent) =
            [status |-> IF Decode(InputOf(best), Captures(best, path), request.sent) THEN 200 ELSE 400,
             route |-> best]
      BY <2>5, <2>7, <2>8 DEF Serve
    <3>2. QED
      BY <1>3, <2>3, <2>9, <3>1
  <2>11. /\ answer.status \in {200, 400} /\ (answer.status = 200 <=> decoded) /\ answer.route = best
    BY <2>10
  <2>12. best # endpoint => MoreSpecific(best, endpoint)
    BY <2>4, <2>6
  <2>13. ASSUME best = endpoint PROVE decoded <=> acceptable
    <3>1. ASSUME NEW i \in DOMAIN reads
          PROVE  Located(reads[i], Captures(endpoint, path), request.sent) = gave(reads[i])
      BY <1>1, <1>2, <2>1, LocatedIs
    <3>2. Decode(InputOf(endpoint), Captures(endpoint, path), request.sent) <=>
            \A i \in DOMAIN reads : Accepts(reads[i], Located(reads[i], Captures(endpoint, path), request.sent))
      BY DEF Decode
    <3> HIDE DEF reads, gave
    <3>3. QED
      BY <2>9, <2>13, <3>1, <3>2
  <2>14. QED
    BY <2>11, <2>12, <2>13
<1>6. QED
  BY <1>2, <1>4, <1>5

(* Call and fillPattern (call.go) against Handler: on any surface, what a  *)
(* caller fills an endpoint's path with comes back to that endpoint or to  *)
(* a more specific route, each reader finds there exactly what was given   *)
(* for it, and nothing is sent while a capture has no value.               *)
THEOREM CallCorrect == EndpointSpec => []CallFindsItsEndpoint
BY EndpointAlways, CallIs, PTL

(* The theorems on routing hold beside endpoints too: declaring, clashing  *)
(* and faulty endpoints (NewRoutes in routes.go) leave the tree as the     *)
(* routes declared make it.                                                *)
THEOREM EndpointRoutingCorrect ==
  EndpointSpec => [](RefusedIffClash /\ MostSpecificServes /\ AllowIsComplete)
<1>1. EndpointInv => RefusedIffClash /\ MostSpecificServes /\ AllowIsComplete
  BY RefusalIs, ServesBest, AllowsAll DEF EndpointInv
<1>2. QED
  BY <1>1, EndpointAlways, PTL
=============================================================================
