----------------------------- MODULE MCSurface -----------------------------
(* Finite instances of RouteTree and of Endpoint.  Surfaces of routes that *)
(* read nothing are explored to MaxRoutes; an endpoint that reads is built *)
(* on an empty surface, or with up to two readers beside one other route.  *)
EXTENDS Endpoint

(* The methods are interchangeable.                                        *)
Symmetry == Permutations(Methods)

Reader(in, name, required, shape) ==
  [in |-> in, name |-> name, required |-> required, shape |-> shape]

(* Two path parameters, one name in two places, one required and optional, *)
(* the body, and a parameter without a name.                               *)
MCReaders ==
  { Reader("path", "x", TRUE, "number"), Reader("path", "y", TRUE, "text"),
    Reader("query", "x", TRUE, "text"), Reader("query", "x", FALSE, "number"),
    Reader("header", "x", FALSE, "text"), Reader("body", "entity", TRUE, "number"),
    Reader("query", "", TRUE, "text") }

SurfaceNext ==
  \/ hand = <<>> /\ DOMAIN inputs = {} /\ Next /\ UNCHANGED endpointVars
  \/ /\ DOMAIN inputs = {} /\ Len(declared) <= 1
     /\ EndpointNext
     /\ declared # <<>> => Len(InHand') <= 2

SurfaceSpec == EndpointInit /\ [][SurfaceNext]_<<vars, endpointVars>>
=============================================================================
