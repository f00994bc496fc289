----------------------------- MODULE RouteTree -----------------------------
(***************************************************************************)
(* Assembling a surface from routes and dispatching on it (web/path.go,    *)
(* web/route_tree.go, web/routes.go).  Routes are inserted one at a time   *)
(* into a tree over path segments; the first that cannot be told from one  *)
(* already there, or whose pattern is malformed, refuses the whole surface.*)
(* Dispatch walks the tree with backtracking.                              *)
(*                                                                         *)
(* A node of the tree is named by the edges that lead to it.  The tree is  *)
(* compared with a definition that has no tree: which patterns match a     *)
(* path, and which of them is the most specific.                           *)
(***************************************************************************)
EXTENDS Naturals, Sequences, SequencesExt, FiniteSets, TLC

CONSTANTS
  Texts,      \* literal segments a pattern may name
  Names,      \* names a capture may bind
  Methods,    \* request methods
  Parts,      \* the segments request paths are made of
  MaxRoutes,  \* bound: routes in a surface
  MaxPattern, \* bound: segments in a pattern
  MaxPath     \* bound: segments in a request path

ASSUME RouteAssumption ==
  /\ MaxRoutes \in Nat /\ MaxPattern \in Nat \ {0} /\ MaxPath \in Nat \ {0}

Segments == [kind : {"literal"}, text : Texts]
            \cup [kind : {"capture", "wildcard"}, text : Names]
SeqsUpTo(S, n) == UNION {[1 .. k -> S] : k \in 1 .. n}
Patterns == SeqsUpTo(Segments, MaxPattern)
Paths == SeqsUpTo(Parts, MaxPath)
Routes == [segments : Patterns, method : Methods]

VARIABLES
  declared,  \* the routes inserted so far, in order
  tree,      \* node id -> [name, routes]: what it binds, and its route per method
  status     \* "assembling" or "refused"

vars == <<declared, tree, status>>

Root == <<>>
newTreeNode(name) == [name |-> name, routes |-> {}]
EmptyTree == [id \in {Root} |-> newTreeNode("")]

Init == declared = <<>> /\ tree = EmptyTree /\ status = "assembling"

-----------------------------------------------------------------------------
(* Patterns.                                                               *)

(* parsePattern: a wildcard comes last, and no name is captured twice.     *)
parsePattern(segments) ==
  LET captures == {i \in DOMAIN segments : segments[i].kind # "literal"} IN
  /\ \A i \in DOMAIN segments : segments[i].kind = "wildcard" => i = Len(segments)
  /\ \A i, j \in captures : segments[i].text = segments[j].text => i = j

(* The edge a segment follows: a literal by its text, the others by kind.  *)
Edge(segment) ==
  IF segment.kind = "literal" THEN segment ELSE [kind |-> segment.kind]

Node(segments, i) == [j \in 1 .. i |-> Edge(segments[j])]

-----------------------------------------------------------------------------
(* Assembly.                                                               *)

(* A wrong variant: whoever comes second has to live with the first name.  *)
claimAny(segments, i) == TRUE

(* childFor and claimSlot: a slot already bound to another name is refused.*)
claimSlot(segments, i) ==
  segments[i].kind # "literal" /\ Node(segments, i) \in DOMAIN tree
    => tree[Node(segments, i)].name = segments[i].text

(* insert reaches the end of the pattern, and the method is not yet taken. *)
insertable(route) ==
  LET last == Node(route.segments, Len(route.segments)) IN
  /\ \A i \in DOMAIN route.segments : claimSlot(route.segments, i)
  /\ last \in DOMAIN tree => \A r \in tree[last].routes : r.method # route.method

(* The tree with the nodes the pattern needs and the route at the last.    *)
inserted(route) ==
  LET last == Node(route.segments, Len(route.segments))
      new == {Node(route.segments, i) : i \in DOMAIN route.segments} \ DOMAIN tree
      grown == [id \in DOMAIN tree \cup new |->
                 IF id \in DOMAIN tree THEN tree[id]
                 ELSE newTreeNode(IF route.segments[Len(id)].kind = "literal" THEN ""
                                  ELSE route.segments[Len(id)].text)]
  IN  [grown EXCEPT ![last].routes = @ \cup {route}]

Insert(route) ==
  /\ status = "assembling"
  /\ Len(declared) < MaxRoutes
  /\ parsePattern(route.segments)
  /\ insertable(route)
  /\ tree' = inserted(route)
  /\ declared' = Append(declared, route)
  /\ UNCHANGED status

(* NewRoutes fails and there is no surface.                                *)
Refuse(route) ==
  /\ status = "assembling"
  /\ Len(declared) < MaxRoutes
  /\ ~(parsePattern(route.segments) /\ insertable(route))
  /\ status' = "refused"
  /\ tree' = EmptyTree
  /\ declared' = Append(declared, route)

Next == \E route \in Routes : Insert(route) \/ Refuse(route)

Spec == Init /\ [][Next]_vars

-----------------------------------------------------------------------------
(* Dispatch.                                                               *)

(* bind, on the way to a node, and captureValues: every branch appends at  *)
(* its own level, so what is bound there is what the edges taken capture;  *)
(* a wildcard takes the rest of the path.                                  *)
bind(id, path) ==
  {[name |-> tree[SubSeq(id, 1, i)].name,
    value |-> IF id[i].kind = "wildcard" THEN SubSeq(path, i, Len(path)) ELSE <<path[i]>>]
     : i \in {j \in DOMAIN id : id[j].kind # "literal"}}

(* A wrong variant: a path that ends here allows nothing else.             *)
hereOrNothing(id, path, method) ==
  [found |-> {r \in tree[id].routes : r.method = method},
   captures |-> bind(id, path), methods |-> {}]

(* here: the route for the method, or the methods that are served.         *)
here(id, path, method) ==
  LET serving == {r \in tree[id].routes : r.method = method} IN
  [found |-> serving,
   captures |-> bind(id, path),
   methods |-> IF serving # {} THEN {} ELSE {r.method : r \in tree[id].routes}]

(* A wrong variant: a capture is tried before a literal.                   *)
captureFirst(edge) == CASE edge.kind = "literal"  -> 2
                        [] edge.kind = "capture"  -> 1
                        [] edge.kind = "wildcard" -> 3

(* When a branch is tried.                                                 *)
turn(edge) == CASE edge.kind = "literal"  -> 1
                [] edge.kind = "capture"  -> 2
                [] edge.kind = "wildcard" -> 3

(* The branches a node has for a segment.                                  *)
branches(id, part) ==
  {edge \in {[kind |-> "literal", text |-> part], [kind |-> "capture"], [kind |-> "wildcard"]} :
     Append(id, edge) \in DOMAIN tree}

(* The first of the branches that found a route, and else the methods that *)
(* all of them allow.                                                      *)
firstFound(results, id, path) ==
  LET hits == {edge \in DOMAIN results : results[edge].found # {}} IN
  IF hits # {}
  THEN results[CHOOSE edge \in hits : \A other \in hits : turn(edge) <= turn(other)]
  ELSE [found |-> {}, captures |-> bind(id, path),
        methods |-> UNION {results[edge].methods : edge \in DOMAIN results}]

(* resolve: at a node the path leads on from, each branch in turn, and on  *)
(* after one that matched the path but not the method.                     *)
resolve(path, method) ==
  LET walk[id \in {x \in DOMAIN tree : Len(x) <= Len(path)}] ==
        IF Len(id) = Len(path) THEN here(id, path, method)
        ELSE firstFound([edge \in branches(id, path[Len(id) + 1]) |->
                           IF edge.kind = "wildcard"
                           THEN here(Append(id, edge), path, method)
                           ELSE walk[Append(id, edge)]],
                        id, path)
  IN  walk[Root]

(* Routes.Handler: the route and its captures, 405 with the methods, 404.  *)
Handler(path, method) ==
  LET match == resolve(path, method) IN
  IF match.found # {}
  THEN [status |-> 200, routes |-> match.found, captures |-> match.captures]
  ELSE IF match.methods # {}
       THEN [status |-> 405, allow |-> match.methods]
       ELSE [status |-> 404]

-----------------------------------------------------------------------------
(* The reference: patterns without a tree.                                 *)

Served == ToSet(declared)

Fits(segment, part) ==
  segment.kind = "capture" \/ (segment.kind = "literal" /\ segment.text = part)

Matches(route, path) ==
  LET s == route.segments
      n == Len(s)
  IN  IF s[n].kind = "wildcard"
      THEN Len(path) >= n /\ \A i \in 1 .. n - 1 : Fits(s[i], path[i])
      ELSE Len(path) = n /\ \A i \in 1 .. n : Fits(s[i], path[i])

Rank(segment) == CASE segment.kind = "literal"  -> 1
                   [] segment.kind = "capture"  -> 2
                   [] segment.kind = "wildcard" -> 3

(* Two patterns that match one path differ first where one of them is      *)
(* more specific.                                                          *)
MoreSpecific(r, s) ==
  \E i \in DOMAIN r.segments \cap DOMAIN s.segments :
    /\ Rank(r.segments[i]) < Rank(s.segments[i])
    /\ \A j \in 1 .. i - 1 : Rank(r.segments[j]) = Rank(s.segments[j])

Captures(route, path) ==
  {[name |-> route.segments[i].text,
    value |-> IF route.segments[i].kind = "wildcard"
              THEN SubSeq(path, i, Len(path)) ELSE <<path[i]>>]
     : i \in {j \in DOMAIN route.segments : route.segments[j].kind # "literal"}}

(* Two routes no request could choose between, or that bind one segment    *)
(* under two names.                                                        *)
Clash(r, s) ==
  \/ /\ r.method = s.method
     /\ Len(r.segments) = Len(s.segments)
     /\ Node(r.segments, Len(r.segments)) = Node(s.segments, Len(s.segments))
  \/ \E i \in DOMAIN r.segments \cap DOMAIN s.segments :
       /\ Node(r.segments, i) = Node(s.segments, i)
       /\ r.segments[i].kind # "literal"
       /\ r.segments[i].text # s.segments[i].text

-----------------------------------------------------------------------------
(* Properties.                                                             *)

(* "the most specific pattern that can match does" (route_tree.go), with   *)
(* its own captures: the tree answers a request with the most specific     *)
(* route declared for its method, whatever order the routes came in, and   *)
(* 405 or 404 only where there is none.                                    *)
MostSpecificServes ==
  status = "assembling" =>
    \A path \in Paths, method \in Methods :
      LET fitting == {r \in Served : r.method = method /\ Matches(r, path)}
          answer == Handler(path, method)
      IN  IF fitting = {} THEN answer.status # 200
          ELSE LET best == CHOOSE r \in fitting :
                             \A s \in fitting \ {r} : MoreSpecific(r, s)
               IN  /\ answer.status = 200
                   /\ answer.routes = {best}
                   /\ answer.captures = Captures(best, path)

(* 405 and 404 tell a method that is missing from a path that is: Allow    *)
(* names exactly the methods some pattern matching the path is declared    *)
(* for, those of less specific branches included.                          *)
AllowIsComplete ==
  status = "assembling" =>
    \A path \in Paths, method \in Methods :
      LET answer == Handler(path, method)
          methods == {r.method : r \in {s \in Served : Matches(s, path)}}
      IN  /\ answer.status = 404 <=> methods = {}
          /\ answer.status = 405 => answer.allow = methods

(* Assembly refuses a surface exactly when a pattern is malformed or two   *)
(* of its routes clash, whichever of them came first.                      *)
RefusedIffClash ==
  status = "refused" <=>
    \/ \E r \in Served : ~parsePattern(r.segments)
    \/ \E i, j \in DOMAIN declared : i # j /\ Clash(declared[i], declared[j])
=============================================================================
