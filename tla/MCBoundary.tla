----------------------------- MODULE MCBoundary ----------------------------
(* Finite instances of Exchange and of RpcCall, the two boundaries that    *)
(* interpret a handler and turn what it ended with into an answer.  They   *)
(* are "parallel" (grpc/boundary.go) and share nothing, so each is         *)
(* explored where the other has not begun.                                 *)
EXTENDS Exchange, RpcCall, TLC

(* Requests are interchangeable, and so are origins.                       *)
Symmetry == Permutations(Requests) \cup Permutations(Origins)

(* A procedure in the package, one of the same name outside it, one a      *)
(* package further in, and one that has no name.                           *)
MCPackageName == <<"logistics", "v1">>
MCProcedures ==
  { Unary(<<"logistics", "v1", "Rates">>, "Quote", TRUE),
    Unary(<<"logistics", "v2", "Rates">>, "Quote", TRUE),
    Unary(<<"logistics", "v1", "old", "Rates">>, "Quote", TRUE),
    Unary(<<"logistics", "v1", "Rates">>, "", TRUE) }

(* One surface for the exchanges will do beside the calls.                 *)
Plain ==
  /\ settings = [allowed |-> {}, sampler |-> "none", quiet |-> TRUE,
                 prompt |-> TRUE]
  /\ origin = [r \in Requests |-> NoOrigin]

BoundaryInit == Init /\ RpcInit

BoundaryNext ==
  \/ RpcInit /\ Next /\ UNCHANGED rpcVars
  \/ Plain /\ Init /\ RpcNext /\ UNCHANGED vars

BoundarySpec == BoundaryInit /\ [][BoundaryNext]_<<vars, rpcVars>>
=============================================================================
