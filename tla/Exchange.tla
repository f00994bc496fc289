------------------------------ MODULE Exchange -----------------------------
(***************************************************************************)
(* One HTTP exchange at the boundary (web/adapter.go) and the work a route *)
(* does in it (web/route.go, web/phase.go): a browser's preflight, the     *)
(* dispatch, decoding, handling and encoding with their measurement, the   *)
(* answer a failed cause is turned into, what is recorded of it, and the   *)
(* cross-origin headers every answer gets (web/cross_origin.go).           *)
(*                                                                         *)
(* Several exchanges share the surface, and an HTTP cache in front of it   *)
(* (external: it keeps any answer, and gives it to a request that agrees   *)
(* on the headers the answer's Vary names).  An interruption may come      *)
(* between any two effects and from anywhere: a client that goes away, a   *)
(* server shutting down, a fiber the handler waited for.                   *)
(*                                                                         *)
(* A cause is the set of what it contains; a response is its status, the   *)
(* origin it names and the headers it varies by.                           *)
(***************************************************************************)
EXTENDS Naturals

CONSTANTS Requests, Origins, NoOrigin

ASSUME ExchangeAssumption == NoOrigin \notin Origins

Phases == {"decode", "handle", "encode"}
Faults == {"failure", "defect", "interrupt"}
Samplers == {"none", "paired", "silent"}   \* "silent": no function to call at the end
Settings == [allowed : SUBSET Origins, sampler : Samplers, quiet : BOOLEAN, prompt : BOOLEAN]

VARIABLES
  settings,   \* and "prompt": the runtime, between a Suspend and the effect it
              \* returned, does not look at interruption
  origin,     \* the Origin header of each request
  preflight,  \* whether it is an OPTIONS asking for permission
  at,         \* where each exchange is
  cause,      \* what the handler's effect failed with, if it failed
  response,   \* the answer being made
  begun,      \* phases the sampler saw begin
  ensured,    \* phases whose end is a finalizer of the effect that runs
  ended,      \* phases the sampler saw end
  reports,    \* what each exchange sent to the boundary's report
  warnings,   \* what each exchange logged as refused by a codec
  cache,      \* the answers kept, with the origin they were made for
  received    \* what each client got

requestVars == <<settings, origin, preflight>>
phaseVars   == <<begun, ensured, ended>>
recordVars  == <<reports, warnings>>
vars == <<requestVars, at, cause, response, phaseVars, recordVars, cache, received>>

Response == [status : {0, 101, 200, 204, 400, 404, 405, 422, 500, 503},
             allow : Origins \cup {NoOrigin},
             vary : SUBSET {"Origin", "Accept"}]
Empty(status) == [status |-> status, allow |-> NoOrigin, vary |-> {}]
Nothing == Empty(0)

(* The values each variable takes.                                         *)
TypeOK ==
  /\ settings \in Settings
  /\ origin \in [Requests -> Origins \cup {NoOrigin}]
  /\ preflight \in [Requests -> BOOLEAN]
  /\ at \in [Requests -> Phases \cup {"idle", "routing", "refusing", "refused",
                                     "writing", "conversing", "done"}]
  /\ cause \in [Requests -> SUBSET Faults]
  /\ response \in [Requests -> Response] /\ received \in [Requests -> Response]
  /\ begun \in [Requests -> SUBSET Phases] /\ ensured \in [Requests -> SUBSET Phases]
  /\ ended \in [Requests -> SUBSET Phases]
  /\ reports \in [Requests -> 0 .. 2] /\ warnings \in [Requests -> 0 .. 1]
  /\ cache \subseteq [for : Origins \cup {NoOrigin}, answer : Response]

Init ==
  /\ settings \in Settings
  /\ origin \in [Requests -> Origins \cup {NoOrigin}]
  /\ preflight \in [Requests -> BOOLEAN]
  /\ \A r \in Requests : preflight[r] => origin[r] # NoOrigin
  /\ at = [r \in Requests |-> "idle"]
  /\ cache = {}
  /\ cause = [r \in Requests |-> {}]
  /\ response = [r \in Requests |-> Nothing]
  /\ received = [r \in Requests |-> Nothing]
  /\ begun = [r \in Requests |-> {}] /\ ensured = [r \in Requests |-> {}]
  /\ ended = [r \in Requests |-> {}]
  /\ reports = [r \in Requests |-> 0] /\ warnings = [r \in Requests |-> 0]

Goto(r, where) == at' = [at EXCEPT ![r] = where]

(* allowedOrigin: compared exactly.                                        *)
Shared(r) == origin[r] \in settings.allowed

(* A wrong variant: the answer does not say that it depends on the origin. *)
shareUnvaried(answer, asker) == [answer EXCEPT !.allow = asker]

(* share: the origin that asked, and Origin beside what varied already.    *)
share(answer, asker) ==
  [status |-> answer.status, allow |-> asker, vary |-> answer.vary \cup {"Origin"}]

(* Every answer the runtime made passes here, whatever it answers.         *)
Answer(r, what) ==
  response' = [response EXCEPT ![r] = IF Shared(r) THEN share(what, origin[r]) ELSE what]

-----------------------------------------------------------------------------
(* answer: a preflight of a shared origin is answered, anything else runs. *)
Preflight(r) ==
  /\ at[r] = "idle" /\ Shared(r) /\ preflight[r]
  /\ response' = [response EXCEPT ![r] =
       [status |-> 204, allow |-> origin[r], vary |-> {"Origin"}]]
  /\ Goto(r, "writing")
  /\ UNCHANGED <<requestVars, cause, phaseVars, recordVars, cache, received>>

Arrive(r) ==
  /\ at[r] = "idle" /\ ~(Shared(r) /\ preflight[r])
  /\ Goto(r, "routing")
  /\ UNCHANGED <<requestVars, cause, response, phaseVars, recordVars, cache, received>>

(* measurePhase, inside Suspend: the sampler is told that the phase begins.*)
beginPhase(r) ==
  /\ settings.sampler # "none"
  /\ at[r] \in Phases \ begun[r]
  /\ begun' = [begun EXCEPT ![r] = @ \cup {at[r]}]
  /\ UNCHANGED <<requestVars, at, cause, response, ensured, ended, recordVars, cache, received>>

(* The effect Suspend returned begins: with Ensuring, when the sampler     *)
(* gave a function to call at the end.                                     *)
ensurePhase(r) ==
  /\ settings.sampler = "paired"
  /\ at[r] \in begun[r] \ ensured[r]
  /\ ensured' = [ensured EXCEPT ![r] = @ \cup {at[r]}]
  /\ UNCHANGED <<requestVars, at, cause, response, begun, ended, recordVars, cache, received>>

(* The phase's own work runs, measured as far as it is going to be.        *)
Within(r) ==
  /\ at[r] \in Phases
  /\ settings.sampler = "silent" => at[r] \in begun[r]
  /\ settings.sampler = "paired" => at[r] \in ensured[r]

(* A wrong variant: only a phase that succeeds is ended.                   *)
endSucceeded(r, why) ==
  /\ ended' = [ended EXCEPT ![r] = IF why = {} THEN @ \cup (ensured[r] \cap {at[r]}) ELSE @]
  /\ UNCHANGED <<begun, ensured>>

(* measurePhase: the finalizer runs, whatever the phase ended with.        *)
endPhase(r, why) ==
  /\ ended' = [ended EXCEPT ![r] = @ \cup (ensured[r] \cap {at[r]})]
  /\ UNCHANGED <<begun, ensured>>

(* Routes.Handler: a route, or nothing for the path or the method.         *)
Dispatch(r) ==
  /\ at[r] = "routing"
  /\ \/ Goto(r, "decode") /\ UNCHANGED response
     \/ (\E status \in {404, 405} : Answer(r, Empty(status))) /\ Goto(r, "writing")
  /\ UNCHANGED <<requestVars, cause, phaseVars, recordVars, cache, received>>

(* Upgrade: a route without codecs or phases, whose handler takes over the *)
(* connection.                                                             *)
Upgrade(r) ==
  /\ at[r] = "routing"
  /\ Answer(r, Empty(101))
  /\ Goto(r, "writing")
  /\ UNCHANGED <<requestVars, cause, phaseVars, recordVars, cache, received>>

(* Decode refuses, which is an outcome of its phase and no failure: the    *)
(* handler is not run.                                                     *)
Refuse(r) ==
  /\ at[r] = "decode" /\ Within(r)
  /\ endPhase(r, {})
  /\ Goto(r, "refusing")
  /\ UNCHANGED <<requestVars, cause, response, recordVars, cache, received>>

(* The refusal is logged in one effect...                                  *)
logRefusal(r) ==
  /\ at[r] = "refusing"
  /\ warnings' = [warnings EXCEPT ![r] = @ + 1]
  /\ Goto(r, "refused")
  /\ UNCHANGED <<requestVars, cause, response, phaseVars, reports, cache, received>>

(* ...and answered in the next.                                            *)
Reject(r) ==
  /\ at[r] = "refused"
  /\ Answer(r, Empty(400))
  /\ Goto(r, "writing")
  /\ UNCHANGED <<requestVars, cause, phaseVars, recordVars, cache, received>>

Decoded(r) ==
  /\ at[r] = "decode" /\ Within(r)
  /\ endPhase(r, {})
  /\ Goto(r, "handle")
  /\ UNCHANGED <<requestVars, cause, response, recordVars, cache, received>>

Handled(r) ==
  /\ at[r] = "handle" /\ Within(r)
  /\ endPhase(r, {})
  /\ Goto(r, "encode")
  /\ UNCHANGED <<requestVars, cause, response, recordVars, cache, received>>

(* encodeOutput; the rendering may say what its answer varies by.          *)
Encoded(r) ==
  /\ at[r] = "encode" /\ Within(r)
  /\ endPhase(r, {})
  /\ \E vary \in SUBSET {"Accept"} : Answer(r, [Empty(200) EXCEPT !.vary = vary])
  /\ Goto(r, "writing")
  /\ UNCHANGED <<requestVars, cause, recordVars, cache, received>>

(* What the work can end with at each place.  An interruption comes at any *)
(* of them, except where the runtime is prompt.  Code that panics (a codec,*)
(* a sampler, the logger) and an output that cannot be encoded are defects.*)
(* A failure is the handler's, or that of a wrapper around the route, which*)
(* has not called the route yet; a finalizer adds to what there is.        *)
CausesOf(r) ==
  {c \in (SUBSET Faults) \ {{}} :
     /\ "failure" \in c => at[r] = "routing" \/ (at[r] = "handle" /\ Within(r))
     /\ at[r] = "refused" => c = {"interrupt"}
     /\ at[r] \in begun[r] /\ ~Within(r) => c = {"interrupt"} /\ ~settings.prompt}

(* A wrong variant: a typed failure is looked for first.                   *)
failureFirst(c) ==
  IF "failure" \in c THEN "refused" ELSE IF "defect" \in c THEN "died" ELSE "interrupted"

(* responseForCause: a defect outranks a failure, a failure an interruption*)
verdict(c) ==
  IF "defect" \in c THEN "died" ELSE IF "failure" \in c THEN "refused" ELSE "interrupted"

StatusFor(v) == CASE v = "died" -> 500 [] v = "refused" -> 422 [] v = "interrupted" -> 503

(* The cause is recorded: a defect always, a refusal unless quiet.         *)
Recorded(v) == v = "died" \/ (v = "refused" /\ ~settings.quiet)

Fail(r) ==
  /\ at[r] \in Phases \cup {"routing", "refusing", "refused"}
  /\ \E c \in CausesOf(r) :
       LET v == verdict(c) IN
       /\ cause' = [cause EXCEPT ![r] = c]
       /\ reports' = [reports EXCEPT ![r] = IF Recorded(v) THEN @ + 1 ELSE @]
       /\ Answer(r, Empty(StatusFor(v)))
       /\ endPhase(r, c)
  /\ Goto(r, "writing")
  /\ UNCHANGED <<requestVars, warnings, cache, received>>

-----------------------------------------------------------------------------
(* WriteTo: the answer goes out, past the cache, which may keep it.        *)
WriteTo(r) ==
  /\ at[r] = "writing" /\ response[r].status # 101
  /\ received' = [received EXCEPT ![r] = response[r]]
  /\ \/ UNCHANGED cache
     \/ ~preflight[r] /\ cache' = cache \cup {[for |-> origin[r], answer |-> response[r]]}
  /\ Goto(r, "done")
  /\ UNCHANGED <<requestVars, cause, response, phaseVars, recordVars>>

(* websocket.Accept, which an upgrade delegates to: it refuses the request *)
(* itself, or the exchange goes on as a conversation.                      *)
Accept(r) ==
  /\ at[r] = "writing" /\ response[r].status = 101
  /\ received' = [received EXCEPT ![r] = response[r]]
  /\ Goto(r, "done") \/ Goto(r, "conversing")
  /\ UNCHANGED <<requestVars, cause, response, phaseVars, recordVars, cache>>

(* The status is out and the body fails: that can only be reported.        *)
WriteFails(r) ==
  /\ at[r] = "writing" /\ response[r].status # 101
  /\ reports' = [reports EXCEPT ![r] = @ + 1]
  /\ Goto(r, "done")
  /\ UNCHANGED <<requestVars, cause, response, phaseVars, warnings, cache, received>>

(* Interpret: a conversation that ended in more than an interruption is    *)
(* reported.                                                               *)
Interpret(r) ==
  /\ at[r] = "conversing"
  /\ \E c \in SUBSET Faults :
       reports' = [reports EXCEPT ![r] = IF c \subseteq {"interrupt"} THEN @ ELSE @ + 1]
  /\ Goto(r, "done")
  /\ UNCHANGED <<requestVars, cause, response, phaseVars, warnings, cache, received>>

(* External: the cache answers in the surface's place.                     *)
CacheHit(r) ==
  /\ at[r] = "idle" /\ ~preflight[r]
  /\ \E kept \in cache :
       /\ "Origin" \in kept.answer.vary => kept.for = origin[r]
       /\ received' = [received EXCEPT ![r] = kept.answer]
  /\ Goto(r, "done")
  /\ UNCHANGED <<requestVars, cause, response, phaseVars, recordVars, cache>>

Next == \E r \in Requests :
  \/ Preflight(r) \/ Arrive(r) \/ Dispatch(r) \/ Upgrade(r) \/ Accept(r)
  \/ beginPhase(r) \/ ensurePhase(r) \/ Refuse(r) \/ logRefusal(r) \/ Reject(r)
  \/ Decoded(r) \/ Handled(r) \/ Encoded(r) \/ Fail(r)
  \/ WriteTo(r) \/ WriteFails(r) \/ Interpret(r) \/ CacheHit(r)

Spec == Init /\ [][Next]_vars

-----------------------------------------------------------------------------
(* Properties.                                                             *)

(* A sampler that was told a phase began is told that it ended, "however   *)
(* it ended, including a failure or an interruption" (phase.go): a phase   *)
(* ends before the next one begins, before a refusal is logged and before  *)
(* an answer is made.  The one phase that may be left open is one that was *)
(* interrupted between the sampler's call and Ensuring, by a runtime that  *)
(* looks at interruption there; whatever has a finalizer ends.             *)
EveryPhaseEnds ==
  \A r \in Requests : settings.sampler = "paired" =>
    LET open == begun[r] \ ended[r] IN
    /\ at[r] \in Phases => open \subseteq {at[r]}
    /\ at[r] \in {"refusing", "refused"} => open = {}
    /\ at[r] \in {"writing", "conversing", "done"} /\ open # {} =>
         /\ ~settings.prompt /\ cause[r] = {"interrupt"}
         /\ \E phase \in Phases \ ensured[r] : open = {phase}

(* What goes wrong leaves one account, and nothing hides it: a defect is   *)
(* answered 500 and reported even beside a failure or an interruption and  *)
(* on a quiet surface; an interruption by itself, wherever it comes from,  *)
(* is a 503, "must not reach the failure mapping" (web_adapter_test.go)    *)
(* and is not reported; a refusal answered 400 has been warned about, and  *)
(* one warned about is answered 400 unless it is cut off on the way, and   *)
(* never reaches the handler; where nothing failed nothing is reported.    *)
AccountedFor ==
  \A r \in Requests : at[r] = "writing" =>
    /\ "defect" \in cause[r] => response[r].status = 500 /\ reports[r] = 1
    /\ cause[r] = {"interrupt"} <=> response[r].status = 503
    /\ response[r].status = 503 => reports[r] = 0
    /\ response[r].status = 422 => "failure" \in cause[r]
    /\ response[r].status = 400 => warnings[r] = 1 /\ cause[r] = {}
    /\ warnings[r] = 1 => /\ response[r].status = 400 \/ cause[r] # {}
                          /\ "handle" \notin begun[r]
    /\ cause[r] = {} => reports[r] = 0

(* What a page receives, from the surface or from a cache in front of it,  *)
(* names its own origin or none: never another page's.                     *)
NamesTheAsker ==
  \A r \in Requests : received[r].allow \in {NoOrigin, origin[r]}
=============================================================================
