------------------------------ MODULE Endpoint -----------------------------
(***************************************************************************)
(* Declaring what a route reads, and calling it (web/codec*.go,            *)
(* web/endpoint.go, web/endpoint_validation.go, web/call.go).  A program   *)
(* builds an input codec out of readers of one parameter or of the body,   *)
(* and declares an endpoint with it on the surface RouteTree assembles; a  *)
(* caller that holds the endpoint fills its path and sends the rest.       *)
(*                                                                         *)
(* A codec carries what it says it reads (parameters, entity) beside what  *)
(* it really reads (reads, in the order its decode runs them), because the *)
(* code checks the first and a request meets the second.  A text is a      *)
(* sequence of path segments; a schema reads any text or only a number.    *)
(* Outputs are kept to whether the declared answer came: their status and  *)
(* their schema add nothing to which route answers.                        *)
(***************************************************************************)
EXTENDS RouteTree

CONSTANTS
  Readers,      \* codecs of one parameter or of the body: [in, name, required, shape]
  Numerals,     \* the segments that read as a number
  MaxReaders    \* bound: readers in a codec

(* A reader of the body has no name of its own: all have the same.         *)
ASSUME EndpointAssumption ==
  /\ Numerals \subseteq Parts /\ MaxReaders \in Nat
  /\ \A reader \in Readers : reader.in = "body" => reader.name = "entity"

VARIABLES
  hand,    \* the codecs built and not yet used
  inputs   \* the codec of each route declared with one

endpointVars == <<hand, inputs>>

EndpointInit == Init /\ hand = <<>> /\ inputs = [r \in {} |-> <<>>]

-----------------------------------------------------------------------------
(* Codecs.                                                                 *)

(* cmp.Or: the first of several that is a fault.                           *)
firstFault(faults) ==
  LET found == {i \in DOMAIN faults : faults[i] # ""} IN
  IF found = {} THEN "" ELSE faults[CHOOSE i \in found : \A j \in found : i <= j]

parameterFault(reader) == IF reader.name = "" THEN "nameless" ELSE ""

(* requiredParameter and optionalParameter.                                *)
OneParameter(reader) ==
  [parameters |-> <<[in |-> reader.in, name |-> reader.name]>>, entity |-> FALSE,
   fault |-> parameterFault(reader), reads |-> <<reader>>]

Entity(reader) ==
  [parameters |-> <<>>, entity |-> TRUE, fault |-> "", reads |-> <<reader>>]

(* Nothing, which is also what a struct without fields reads.              *)
Nothing == [parameters |-> <<>>, entity |-> FALSE, fault |-> "", reads |-> <<>>]

(* A wrong variant: a repetition is looked for only among neighbours.      *)
duplicateNeighbours(parameters) ==
  IF \E i \in DOMAIN parameters : i > 1 /\ parameters[i] = parameters[i - 1]
  THEN "duplicate" ELSE ""

duplicateParameterFault(parameters) ==
  IF IsInjective(parameters) THEN "" ELSE "duplicate"

(* firstCodecFault: what is wrong with either, then with the two together. *)
firstCodecFault(first, second) ==
  firstFault(<<first.fault, second.fault,
               IF first.entity /\ second.entity THEN "entities" ELSE "",
               duplicateParameterFault(first.parameters \o second.parameters)>>)

ZipCodecs(first, second) ==
  [parameters |-> first.parameters \o second.parameters,
   entity |-> first.entity \/ second.entity,
   fault |-> firstCodecFault(first, second),
   reads |-> first.reads \o second.reads]

(* Struct: field by field, and repetitions once all of them are known.     *)
Struct(fields) ==
  LET parameters == FlattenSeq([i \in DOMAIN fields |-> fields[i].parameters])
      second(i) == fields[i].entity /\ \E j \in 1 .. i - 1 : fields[j].entity
      fault(i) == <<fields[i].fault, IF second(i) THEN "entities" ELSE "">>
  IN  [parameters |-> parameters,
       entity |-> \E i \in DOMAIN fields : fields[i].entity,
       fault |-> firstFault(FlattenSeq([i \in DOMAIN fields |-> fault(i)])
                            \o <<duplicateParameterFault(parameters)>>),
       reads |-> FlattenSeq([i \in DOMAIN fields |-> fields[i].reads])]

(* Codec.WithDescription: prose about more than one parameter is refused.  *)
WithDescription(codec) ==
  IF Len(codec.parameters) = 1 THEN codec ELSE [codec EXCEPT !.fault = "prose"]

InHand == FlattenSeq([i \in DOMAIN hand |-> hand[i].reads])

Read(reader) ==
  /\ status = "assembling"
  /\ Len(InHand) < MaxReaders
  /\ hand' = Append(hand, IF reader.in = "body" THEN Entity(reader) ELSE OneParameter(reader))
  /\ UNCHANGED <<vars, inputs>>

ReadNothing ==
  /\ status = "assembling" /\ hand = <<>>
  /\ hand' = <<Nothing>>
  /\ UNCHANGED <<vars, inputs>>

(* The two last in hand become one, in either way of combining them.       *)
ZipLast ==
  /\ Len(hand) >= 2
  /\ hand' = Append(SubSeq(hand, 1, Len(hand) - 2), ZipCodecs(hand[Len(hand) - 1], Last(hand)))
  /\ UNCHANGED <<vars, inputs>>

StructAll ==
  /\ Len(hand) >= 2
  /\ hand' = <<Struct(hand)>>
  /\ UNCHANGED <<vars, inputs>>

(* Convert derives a codec that reads and says the same, so it is no step. *)
Describe ==
  /\ hand # <<>> /\ WithDescription(Last(hand)) # Last(hand)
  /\ hand' = Append(Front(hand), WithDescription(Last(hand)))
  /\ UNCHANGED <<vars, inputs>>

-----------------------------------------------------------------------------
(* Declaring.                                                              *)

(* A wrong variant: the path captures something, so it captures enough.    *)
validateSomeCapture(segments, parameters) ==
  \/ \A i \in DOMAIN parameters : parameters[i].in # "path"
  \/ \E j \in DOMAIN segments : segments[j].kind # "literal"

(* validateCaptures: every path parameter is a segment the path captures.  *)
validateCaptures(segments, parameters) ==
  \A i \in DOMAIN parameters : parameters[i].in = "path" =>
    \E j \in DOMAIN segments :
      segments[j].kind # "literal" /\ segments[j].text = parameters[i].name

(* firstEndpointFault, after the path has been parsed.                     *)
Declarable(route, input) ==
  input.fault = "" /\ validateCaptures(route.segments, input.parameters)

(* Declare, and Handle with the route in NewRoutes: an endpoint without a  *)
(* fault is inserted in the tree, or clashes there.                        *)
Declare(route) ==
  /\ Len(hand) = 1
  /\ parsePattern(route.segments) => Declarable(route, hand[1])
  /\ \/ /\ Insert(route)
        /\ inputs' = [r \in DOMAIN inputs \cup {route} |->
                        IF r = route THEN hand[1] ELSE inputs[r]]
     \/ Refuse(route) /\ UNCHANGED inputs
  /\ hand' = <<>>

(* NewRoutes refuses a surface for the fault of one of its endpoints.      *)
DeclareFaulty(route) ==
  /\ Len(hand) = 1 /\ status = "assembling"
  /\ parsePattern(route.segments) /\ ~Declarable(route, hand[1])
  /\ status' = "faulty" /\ tree' = EmptyTree
  /\ hand' = <<>>
  /\ UNCHANGED <<declared, inputs>>

EndpointNext ==
  \/ \E reader \in Readers : Read(reader)
  \/ ReadNothing \/ ZipLast \/ StructAll \/ Describe
  \/ \E route \in Routes : Declare(route) \/ DeclareFaulty(route)

(* A surface may also have routes that are not endpoints.                  *)
EndpointSpec ==
  /\ EndpointInit
  /\ [][EndpointNext \/ (Next /\ UNCHANGED endpointVars)]_<<vars, endpointVars>>

-----------------------------------------------------------------------------
(* Serving and calling.                                                    *)

InputOf(route) == IF route \in DOMAIN inputs THEN inputs[route] ELSE Nothing

(* textSource through the schema: a number is one segment that is numeric. *)
Readable(shape, text) == shape = "text" \/ (Len(text) = 1 /\ text[1] \in Numerals)

(* Where a reader looks: the captures of the route, or what else was sent; *)
(* an empty text stands for one that is not there.                         *)
Located(reader, captures, sent) ==
  LET key == [in |-> reader.in, name |-> reader.name]
      bound == {c \in captures : c.name = reader.name}
  IN  IF reader.in = "path"
      THEN IF bound = {} THEN <<>> ELSE (CHOOSE c \in bound : TRUE).value
      ELSE IF key \in DOMAIN sent THEN sent[key] ELSE <<>>

(* One reader: absent, or read through its schema.                         *)
Accepts(reader, text) ==
  IF text = <<>> THEN ~reader.required ELSE Readable(reader.shape, text)

(* Decode, of a codec that was validated when it was declared.             *)
Decode(codec, captures, sent) ==
  \A i \in DOMAIN codec.reads : Accepts(codec.reads[i], Located(codec.reads[i], captures, sent))

(* The handler a route is given: 400 for what its codec refuses.           *)
Serve(path, method, sent) ==
  LET match == Handler(path, method)
      route == CHOOSE r \in match.routes : TRUE
  IN  IF match.status # 200 THEN [status |-> match.status]
      ELSE [status |-> IF Decode(InputOf(route), match.captures, sent) THEN 200 ELSE 400,
            route |-> route]

CapturesOf(segments) ==
  {segments[i].text : i \in {j \in DOMAIN segments : segments[j].kind # "literal"}}

(* A wrong variant: a capture nothing was given for is left out.           *)
fillWhatIsGiven(segments, given) ==
  FlattenSeq([i \in DOMAIN segments |->
    IF segments[i].kind = "literal" THEN <<segments[i].text>>
    ELSE IF segments[i].text \in DOMAIN given THEN given[segments[i].text] ELSE <<>>])

(* fillPattern: nothing at all when a capture has nothing to fill it.      *)
fillPattern(segments, given) ==
  IF CapturesOf(segments) \subseteq DOMAIN given
  THEN FlattenSeq([i \in DOMAIN segments |->
         IF segments[i].kind = "literal" THEN <<segments[i].text>> ELSE given[segments[i].text]])
  ELSE <<>>

(* Call with Fetch and decodeResponse: a status that is not the declared   *)
(* one is a refusal, and an endpoint whose path is not filled sends none.  *)
Call(endpoint, request) ==
  LET path == fillPattern(endpoint.segments, request.given) IN
  IF path = <<>> THEN [status |-> 0] ELSE Serve(path, endpoint.method, request.sent)

-----------------------------------------------------------------------------
(* Properties.                                                             *)

(* What a caller can send an endpoint: whole segments for its captures and *)
(* any text for a wildcard, or nothing; each of the rest of what it reads, *)
(* or not.                                                                 *)
RequestsFor(endpoint) ==
  LET segments == endpoint.segments
      wild == {segments[i].text : i \in {j \in DOMAIN segments : segments[j].kind = "wildcard"}}
      reads == ToSet(InputOf(endpoint).reads)
      keys == {[in |-> r.in, name |-> r.name] : r \in {q \in reads : q.in # "path"}}
      whole == {<<p>> : p \in Parts}
      fillings == UNION {[S -> SeqsUpTo(Parts, 2)] : S \in SUBSET CapturesOf(segments)}
  IN  [given : {g \in fillings : \A n \in DOMAIN g : n \in wild \/ g[n] \in whole},
       sent : [keys -> whole \cup {<<>>}]]

(* A codec without a fault reads each parameter once and the body at most  *)
(* once, however its readers were nested, and one whose readers are sound  *)
(* and do not repeat each other is not refused: the check on what a codec  *)
(* says agrees with what it reads, through Zip and Struct alike.           *)
UsableIffUnambiguous ==
  \A i \in DOMAIN hand :
    LET reads == hand[i].reads
        sound == /\ \A j \in DOMAIN reads : reads[j].name # ""
                 /\ \A j, k \in DOMAIN reads :
                      reads[j].in = reads[k].in /\ reads[j].name = reads[k].name => j = k
    IN  /\ hand[i].fault = "" => sound
        /\ hand[i].fault \notin {"", "prose"} => ~sound

(* "a path that did not carry it would not have matched the route"         *)
(* (codec_parameter.go): whatever request reaches a route, every path      *)
(* parameter its codec reads is bound, whichever routes share its nodes.   *)
PathAlwaysCaptured ==
  status = "assembling" /\ DOMAIN inputs # {} =>
    \A path \in Paths, method \in Methods :
      LET match == Handler(path, method) IN
      match.status = 200 =>
        \A r \in match.routes : \A i \in DOMAIN InputOf(r).reads :
          LET reader == InputOf(r).reads[i] IN
          reader.in = "path" => \E c \in match.captures : c.name = reader.name

(* A call comes back as the caller's own: it is answered by the endpoint   *)
(* it was made to or by a more specific route, never 404 or 405; at its    *)
(* own endpoint it succeeds exactly when what the caller gave for each     *)
(* reader is acceptable to it; and nothing is sent while a capture has no  *)
(* value.                                                                  *)
CallFindsItsEndpoint ==
  status = "assembling" /\ DOMAIN inputs # {} =>
    \A endpoint \in Served : \A request \in RequestsFor(endpoint) :
      LET answer == Call(endpoint, request)
          reads == InputOf(endpoint).reads
          gave(reader) == IF reader.in = "path" THEN request.given[reader.name]
                          ELSE request.sent[[in |-> reader.in, name |-> reader.name]]
          acceptable == \A i \in DOMAIN reads : Accepts(reads[i], gave(reads[i]))
      IN  IF DOMAIN request.given # CapturesOf(endpoint.segments) THEN answer.status = 0
          ELSE /\ answer.status \in {200, 400}
               /\ answer.route # endpoint => MoreSpecific(answer.route, endpoint)
               /\ answer.route = endpoint => (answer.status = 200 <=> acceptable)
=============================================================================
