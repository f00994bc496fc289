------------------------------ MODULE RpcCall ------------------------------
(***************************************************************************)
(* A procedure asked for and answered (grpc/boundary.go, grpc/procedure.go,*)
(* grpc/contract.go, grpc/connect_server.go, grpc/connect_client.go and    *)
(* examples/quote/quote.go): procedures mounted at their paths, callers    *)
(* that use Ask and callers generated from the projected contract, the     *)
(* handler interpreted under the call's context, and the code its failure  *)
(* becomes on the way back.                                                *)
(*                                                                         *)
(* Connect and the network are external: a call gets through or not, a     *)
(* deadline travels with it and ends the handler's context at the server,  *)
(* a caller's going away does so too, and a path nobody mounted is told to *)
(* be unimplemented.  A message is what its schema makes of it.            *)
(*                                                                         *)
(* The names of this module are its own: it is checked beside Exchange.    *)
(***************************************************************************)
EXTENDS Naturals, Sequences, SequencesExt, FiniteSets

CONSTANTS
  Calls,
  Procedures,     \* what Unary made, see below
  Handlers,
  PackageName,    \* the package the contract is projected for, as its names
  NoHandler

ASSUME RpcAssumption ==
  /\ NoHandler \notin Handlers
  /\ PackageName \in Seq(STRING)
  /\ \A procedure \in Procedures : procedure.service \in Seq(STRING)

(* Why the pricing refuses.                                                *)
Reasons == {"NoRoute", "TooHeavy", "NoCapacity"}

(* What an enquiry is to the service: "unfit" is one its schema refuses.   *)
Enquiries == {"fine", "heavy", "nowhere", "unfit"}

(* Who calls: Ask with the service's own contract, Ask with one whose      *)
(* response is another, or a client generated from the .proto file.        *)
Callers == {"ours", "stale", "generated"}

(* Unary: a service of no name, a procedure of no name and a schema that   *)
(* does not hold together are faults of the declaration.                   *)
Unary(service, method, sound) ==
  [service |-> service, method |-> method,
   fault |-> service = <<>> \/ method = "" \/ ~sound]

Path(procedure) == <<procedure.service, procedure.method>>
Paths == {Path(procedure) : procedure \in Procedures}

VARIABLES
  mounted,    \* the handler at each path, NoHandler where there is none
  serving,    \* whether the HTTP core has the transport's handler
  call,       \* [procedure, caller, enquiry, path] of each call
  caller,     \* "idle", "waiting" or "over"
  desk,       \* where each call is at the server
  context,    \* the call's context: "live", "left" or "expired"
  runBy,      \* the handler that ran
  did,        \* what running it came to: [value, cause]
  answered,   \* what the server answers: a Connect code, or a message
  told,       \* what the caller learns: a code, or a value
  recorded    \* what the boundary reported of each call

mountVars  == <<mounted, serving>>
callerVars == <<call, caller, told>>
deskVars   == <<desk, runBy, did, answered, recorded>>
rpcVars == <<mountVars, callerVars, context, deskVars>>

NotRun == [value |-> "none", cause |-> {}]

RpcInit ==
  /\ mounted = [path \in Paths |-> NoHandler] /\ serving = FALSE
  /\ call = [k \in Calls |-> <<>>] /\ caller = [k \in Calls |-> "idle"]
  /\ told = [k \in Calls |-> "nothing"]
  /\ context = [k \in Calls |-> "live"] /\ desk = [k \in Calls |-> "none"]
  /\ runBy = [k \in Calls |-> NoHandler] /\ did = [k \in Calls |-> NotRun]
  /\ answered = [k \in Calls |-> <<>>] /\ recorded = [k \in Calls |-> 0]

-----------------------------------------------------------------------------
(* Declaring and mounting.                                                 *)

(* Answer: a procedure with a fault is refused, and a path answered twice. *)
Mount(procedure, h) ==
  /\ ~procedure.fault
  /\ mounted[Path(procedure)] = NoHandler
  /\ mounted' = [mounted EXCEPT ![Path(procedure)] = h]
  /\ UNCHANGED <<serving, callerVars, context, deskVars>>

(* Handler: a transport without a procedure is refused.                    *)
Handler ==
  /\ ~serving /\ \E path \in Paths : mounted[path] # NoHandler
  /\ serving' = TRUE
  /\ UNCHANGED <<mounted, callerVars, context, deskVars>>

(* A wrong variant: what is before the last name is taken for the package. *)
bareServiceNameLast(service) == IF service = <<>> THEN "" ELSE Last(service)

(* bareServiceName: the name inside the package, or "" for a service that  *)
(* is not directly in it.                                                  *)
bareServiceName(service) ==
  IF IsPrefix(PackageName, service) /\ Len(service) = Len(PackageName) + 1
  THEN Last(service) ELSE ""

(* Contract: the procedures a .proto file declares.                        *)
InContract(procedure) == ~procedure.fault /\ bareServiceName(procedure.service) # ""

(* What a client generated from that file calls: the package, the service  *)
(* in it and the method.                                                   *)
ContractPath(procedure) ==
  <<Append(PackageName, bareServiceName(procedure.service)), procedure.method>>

-----------------------------------------------------------------------------
(* Codes, on their way through Connect.                                    *)

everyCode == <<"Cancelled", "Unknown", "InvalidArgument", "DeadlineExceeded", "NotFound",
  "AlreadyExists", "PermissionDenied", "ResourceExhausted", "FailedPrecondition", "Aborted",
  "OutOfRange", "Unimplemented", "Internal", "Unavailable", "DataLoss", "Unauthenticated">>

(* A wrong variant: a code nobody thought of.                              *)
connectCodeShort(code) ==
  [connect |-> IF code \in ToSet(everyCode) \ {"FailedPrecondition"} THEN code ELSE "Unknown"]

(* connectCode: a renaming, with what is not a code for the rest.          *)
connectCode(code) == [connect |-> IF code \in ToSet(everyCode) THEN code ELSE "Unknown"]

(* codeFromConnect: the first of ours that is renamed so.                  *)
codeFromConnect(code) ==
  LET ours == SelectInSeq(everyCode, LAMBDA each : connectCode(each) = code)
  IN  IF ours = 0 THEN "Unknown" ELSE everyCode[ours]

-----------------------------------------------------------------------------
(* Calling.                                                                *)

Tell(k, what) ==
  /\ told' = [told EXCEPT ![k] = what]
  /\ caller' = [caller EXCEPT ![k] = "over"]

(* Ask: what cannot be asked is refused before anything is sent.  A        *)
(* generated client has checks of its own, or none.                        *)
Ask(k, procedure, who, enquiry) ==
  /\ caller[k] = "idle"
  /\ who = "generated" => InContract(procedure)
  /\ call' = [call EXCEPT ![k] =
       [procedure |-> procedure, caller |-> who, enquiry |-> enquiry,
        path |-> IF who = "generated" THEN ContractPath(procedure) ELSE Path(procedure)]]
  /\ IF who # "generated" /\ (procedure.fault \/ enquiry = "unfit")
     THEN Tell(k, "InvalidArgument") /\ UNCHANGED desk
     ELSE /\ caller' = [caller EXCEPT ![k] = "waiting"]
          /\ desk' = [desk EXCEPT ![k] = "arriving"] /\ UNCHANGED told
  /\ UNCHANGED <<mountVars, context, runBy, did, answered, recorded>>

(* A call nobody waits for may still arrive.                               *)
Dropped(k) ==
  desk' \in {desk, [desk EXCEPT ![k] = IF @ = "arriving" THEN "none" ELSE @]}

(* callRefusal, of an error that is not the peer's: the call, or its       *)
(* answer, did not get through.  The handler's context ends with the       *)
(* connection.                                                             *)
callRefusal(k) ==
  /\ caller[k] = "waiting"
  /\ Tell(k, "Unavailable") /\ Dropped(k)
  /\ context' = [context EXCEPT ![k] = "left"]
  /\ UNCHANGED <<mountVars, call, runBy, did, answered, recorded>>

(* The caller is interrupted, which ends the call at both ends.            *)
GoAway(k) ==
  /\ caller[k] = "waiting"
  /\ Tell(k, "Cancelled") /\ Dropped(k)
  /\ context' = [context EXCEPT ![k] = "left"]
  /\ UNCHANGED <<mountVars, call, runBy, did, answered, recorded>>

(* External: the deadline passes at the server, which it came to with the  *)
(* call, or at the caller; whose clock is first is not known.              *)
Expire(k) ==
  /\ caller[k] = "waiting" /\ context[k] = "live"
  /\ context' = [context EXCEPT ![k] = "expired"]
  /\ UNCHANGED <<mountVars, callerVars, deskVars>>

TimeOut(k) ==
  /\ caller[k] = "waiting" /\ context[k] = "expired"
  /\ Tell(k, "DeadlineExceeded") /\ Dropped(k)
  /\ UNCHANGED <<mountVars, call, context, runBy, did, answered, recorded>>

-----------------------------------------------------------------------------
(* Answering.                                                              *)

Say(k, what) ==
  /\ answered' = [answered EXCEPT ![k] = what]
  /\ desk' = [desk EXCEPT ![k] = "answered"]

(* The call arrives: nobody answers at its path, handleCall's decoding     *)
(* refuses it, or the handler there is run.                                *)
handleCall(k) ==
  /\ desk[k] = "arriving" /\ serving
  /\ IF call[k].path \notin Paths \/ mounted[call[k].path] = NoHandler
     THEN Say(k, connectCode("Unimplemented")) /\ UNCHANGED runBy
     ELSE IF call[k].enquiry = "unfit"
     THEN Say(k, connectCode("InvalidArgument")) /\ UNCHANGED runBy
     ELSE /\ runBy' = [runBy EXCEPT ![k] = mounted[call[k].path]]
          /\ desk' = [desk EXCEPT ![k] = "running"] /\ UNCHANGED answered
  /\ UNCHANGED <<mountVars, callerVars, context, did, recorded>>

(* Price: too heavy, or nowhere anybody goes.  NoCapacity is for handlers  *)
(* that know of a fleet.                                                   *)
Price(enquiry) ==
  CASE enquiry = "heavy"   -> {"TooHeavy"}
    [] enquiry = "nowhere" -> {"NoRoute"}
    [] enquiry = "fine"    -> {"NoCapacity"}

FailureFor(reason) ==
  CASE reason = "TooHeavy"   -> "FailedPrecondition"
    [] reason = "NoCapacity" -> "Unavailable"
    [] OTHER                 -> "NotFound"

(* defectFailure: nothing is told of a defect.                             *)
defectFailure(cause) == IF cause = {"interrupt"} THEN "Cancelled" ELSE "Unknown"

(* A wrong variant: a typed failure is looked for first.                   *)
failureForCauseTypedFirst(cause) ==
  IF cause \cap Reasons # {}
  THEN [code |-> FailureFor(CHOOSE reason \in cause \cap Reasons : TRUE), report |-> 0]
  ELSE [code |-> defectFailure(cause), report |-> IF "defect" \in cause THEN 1 ELSE 0]

(* failureForCause: a defect outranks a typed failure and is reported.     *)
failureForCause(cause) ==
  [code |-> IF "defect" \notin cause /\ cause \cap Reasons # {}
            THEN FailureFor(CHOOSE reason \in cause \cap Reasons : TRUE)
            ELSE defectFailure(cause),
   report |-> IF "defect" \in cause THEN 1 ELSE 0]

(* What a handler can fail with: a finalizer may add to what the handler   *)
(* ended with, and an interruption is the context's end.                   *)
CausesFor(k) ==
  {cause \in (SUBSET (Price(call[k].enquiry) \cup {"defect", "interrupt"})) \ {{}} :
     "interrupt" \in cause => context[k] # "live"}

Fails(k) ==
  /\ desk[k] = "running"
  /\ \E cause \in CausesFor(k) :
       /\ did' = [did EXCEPT ![k] = [value |-> "none", cause |-> cause]]
       /\ LET failure == failureForCause(cause) IN
            /\ Say(k, connectCode(failure.code))
            /\ recorded' = [recorded EXCEPT ![k] = @ + failure.report]
  /\ UNCHANGED <<mountVars, callerVars, context, runBy>>

(* The handler succeeds, and what it made is encoded; a table may hold a   *)
(* rate that its own schema refuses.                                       *)
Succeeds(k, value) ==
  /\ desk[k] = "running" /\ call[k].enquiry = "fine"
  /\ did' = [did EXCEPT ![k] = [value |-> value, cause |-> {}]]
  /\ IF value = "misprint"
     THEN /\ Say(k, connectCode("Internal"))
          /\ recorded' = [recorded EXCEPT ![k] = @ + 1]
     ELSE Say(k, [message |-> value]) /\ UNCHANGED recorded
  /\ UNCHANGED <<mountVars, callerVars, context, runBy>>

(* sendRequest: the answer arrives, and a message is decoded.              *)
sendRequest(k) ==
  /\ caller[k] = "waiting" /\ desk[k] = "answered"
  /\ Tell(k, IF "connect" \in DOMAIN answered[k] THEN codeFromConnect(answered[k])
             ELSE IF call[k].caller = "stale" THEN "Internal"
             ELSE answered[k].message)
  /\ UNCHANGED <<mountVars, call, context, deskVars>>

RpcNext ==
  \/ Handler
  \/ \E procedure \in Procedures, h \in Handlers : Mount(procedure, h)
  \/ \E k \in Calls :
       \/ \E procedure \in Procedures, who \in Callers, enquiry \in Enquiries :
            Ask(k, procedure, who, enquiry)
       \/ callRefusal(k) \/ GoAway(k) \/ Expire(k) \/ TimeOut(k)
       \/ handleCall(k) \/ Fails(k)
       \/ (\E value \in {"rate", "misprint"} : Succeeds(k, value))
       \/ sendRequest(k)

RpcSpec == RpcInit /\ [][RpcNext]_rpcVars

-----------------------------------------------------------------------------
(* Properties.                                                             *)

(* What a caller may conclude from what it is told, however its leaving,   *)
(* its deadline and the handler raced: a rate was made by this call's      *)
(* handler; an InvalidArgument, here or there, means no handler ran, or    *)
(* ever will ("the handler is never called", boundary.go); a refusal is    *)
(* the one the handler gave; Internal means the handler had succeeded;     *)
(* Unknown means it died; Cancelled is not said of a call whose context    *)
(* was live to its end.                                                    *)
CallerKnows ==
  \A k \in Calls :
    /\ told[k] \in {"rate", "Internal"} => did[k].value # "none"
    /\ told[k] = "InvalidArgument" => runBy[k] = NoHandler /\ desk[k] # "arriving"
    /\ told[k] = "NotFound" => did[k].cause \in {{"NoRoute"}, {"NoRoute", "interrupt"}}
    /\ told[k] = "FailedPrecondition" => did[k].cause \in {{"TooHeavy"}, {"TooHeavy", "interrupt"}}
    /\ told[k] = "Unknown" => "defect" \in did[k].cause
    /\ told[k] = "Cancelled" => context[k] # "live"

(* A handler that died, or made what its own description refuses, leaves   *)
(* one report and no other call any, also when nobody waits any more; and  *)
(* its caller is told nothing but that it failed (boundary.go).            *)
FaultsReported ==
  \A k \in Calls :
    /\ recorded[k] = IF "defect" \in did[k].cause \/ did[k].value = "misprint" THEN 1 ELSE 0
    /\ "defect" \in did[k].cause => told[k] \notin {"NotFound", "FailedPrecondition", "rate"}

(* The handler a call runs is the one, and the only one there ever is, for *)
(* the procedure the caller means, also when the caller knows it only from *)
(* the contract ("the path a client calls", contract.go).                  *)
ReachesItsProcedure ==
  \A k \in Calls :
    runBy[k] # NoHandler => runBy[k] = mounted[Path(call[k].procedure)]
=============================================================================
