--------------------------- MODULE UpstreamClient ---------------------------
(***************************************************************************)
(* Reading a service this program does not own: web.FetchUpstream.         *)
(*                                                                         *)
(* A caller looks its question up in the answer store and otherwise joins  *)
(* the reading already under way for its key, or starts one.  A reading is *)
(* a detached fiber: it takes a turn at the limiter, asks the service,     *)
(* asks again under the retry policy, keeps a successful answer, and then  *)
(* (on every outcome) forgets its key and completes the deferred its       *)
(* callers await.                                                          *)
(*                                                                         *)
(* One step of the model is one effect of the code between two points      *)
(* where the runtime may run somebody else: the store's operations, the    *)
(* critical sections of inFlightReads.mutex, the limiter, the exchange     *)
(* with the service, the completion of a deferred.                         *)
(***************************************************************************)
EXTENDS Naturals

CONSTANTS
  Callers,      \* the fibers that call FetchUpstream
  Questions,    \* what cacheKey tells apart: about, method, path and query
  Entities,     \* what it does not: the request's body and headers
  Readings,     \* identities of deferreds; a deferred nobody holds is reused
  NoReading,    \* the absent deferred
  Retries,      \* UpstreamTerms.Retry.Retries
  RetryBase,    \* UpstreamTerms.Retry.Base
  StoreFails,   \* whether the answer store may fail or hand back rubbish
  ForkIsPrompt  \* whether the runtime goes from a claim to its fork without
                \* looking at the caller's own interruption in between

ASSUME UpstreamAssumption ==
  /\ NoReading \notin Readings
  /\ Retries \in Nat
  /\ RetryBase \in Nat
  /\ StoreFails \in BOOLEAN
  /\ ForkIsPrompt \in BOOLEAN

Requests == [question : Questions, entity : Entities]

(* Status classes the code tells apart: IsSuccessful accepts 2xx,          *)
(* isRetryable accepts 5xx, and every other status is an answer like 4xx.  *)
Statuses == {"2xx", "4xx", "5xx"}

(* How a reading ends without a response: a Fault that is no Refusal (no   *)
(* turn, no response, an answer that cannot be written down), or the death *)
(* of the fiber that reads: a defect, or its interruption by the closing   *)
(* of the runtime that owns it.                                            *)
Failures == {"fault", "death"}

(* Fetch: a response read whole, whatever its status, or one Fault for a   *)
(* request that cannot be made, sent or answered.                          *)
Fetch == Statuses \cup {"fault"}

Exits == [status : Statuses \cup Failures, from : Readings]
NoExit == [status |-> "none", from |-> NoReading]

VARIABLES
  store,     \* the answer kept under each key
  pending,   \* inFlightReads.pending: the reading under way for each key
  pc,        \* where each caller is
  request,   \* what each caller asked for
  ticket,    \* the deferred each caller awaits or is about to fork for
  result,    \* what FetchUpstream gave each caller
  phase,     \* where each reading is
  asked,     \* the request a reading asks the service
  retries,   \* how often a reading was scheduled again
  turns,     \* turns the limiter granted a reading
  asks,      \* times a reading asked the service
  outcome    \* the exit a reading hands to its deferred

callerVars  == <<pc, request, ticket, result>>
readingVars == <<phase, asked, retries, turns, asks, outcome>>
vars == <<store, pending, callerVars, readingVars>>

(* Phases in which a reading stands under its key in pending.              *)
Live == {"claimed", "turn", "asking", "keeping", "forgetting"}

TypeOK ==
  /\ store \in [Questions -> Exits \cup {NoExit}]
  /\ pending \in [Questions -> Readings \cup {NoReading}]
  /\ pc \in [Callers -> {"idle", "lookup", "claim", "fork", "await", "done"}]
  /\ request \in [Callers -> Requests]
  /\ ticket \in [Callers -> Readings \cup {NoReading}]
  /\ result \in [Callers -> Exits \cup {NoExit}]
  /\ phase \in [Readings -> Live \cup {"free", "completing", "over"}]
  /\ asked \in [Readings -> Requests]
  /\ retries \in [Readings -> 0 .. Retries]
  /\ turns \in [Readings -> Nat]
  /\ asks \in [Readings -> Nat]
  /\ outcome \in [Readings -> Exits \cup {NoExit}]

Init ==
  /\ store = [k \in Questions |-> NoExit]
  /\ pending = [k \in Questions |-> NoReading]
  /\ pc = [c \in Callers |-> "idle"]
  /\ \E q \in Requests : /\ request = [c \in Callers |-> q]
                         /\ asked = [r \in Readings |-> q]
  /\ ticket = [c \in Callers |-> NoReading]
  /\ result = [c \in Callers |-> NoExit]
  /\ phase = [r \in Readings |-> "free"]
  /\ retries = [r \in Readings |-> 0]
  /\ turns = [r \in Readings |-> 0]
  /\ asks = [r \in Readings |-> 0]
  /\ outcome = [r \in Readings |-> NoExit]

-----------------------------------------------------------------------------
(* What the code computes.                                                 *)

(* cacheKey: the entity and the headers of a request are not in its key.   *)
cacheKey(q) == q.question

(* A wrong variant: keep whatever the service said.                        *)
IsSuccessfulAny(status) == status \in Statuses

IsSuccessful(status) == status = "2xx"

IsEnabled == Retries > 0 /\ RetryBase > 0

isRetryable(status) == status \in {"fault", "5xx"}

retrySchedule(r, status) ==
  /\ IsEnabled
  /\ retries[r] < Retries
  /\ isRetryable(status)

(* A deferred nobody holds: no caller, no kept answer, no key.             *)
Fresh(r) ==
  /\ phase[r] \in {"free", "over"}
  /\ \A c \in Callers : ticket[c] # r /\ result[c].from # r
  /\ \A k \in Questions : store[k].from # r

-----------------------------------------------------------------------------
(* The callers.                                                            *)

(* FetchUpstream begins.                                                   *)
FetchUpstream(c, q) ==
  /\ pc[c] \in {"idle", "done"}
  /\ pc' = [pc EXCEPT ![c] = "lookup"]
  /\ request' = [request EXCEPT ![c] = q]
  /\ result' = [result EXCEPT ![c] = NoExit]
  /\ UNCHANGED <<store, pending, ticket, readingVars>>

(* lookupCache found an answer and responseFrom could read it back.        *)
ReplayKept(c) ==
  /\ pc[c] = "lookup"
  /\ store[cacheKey(request[c])] # NoExit
  /\ result' = [result EXCEPT ![c] = store[cacheKey(request[c])]]
  /\ pc' = [pc EXCEPT ![c] = "done"]
  /\ UNCHANGED <<store, pending, request, ticket, readingVars>>

(* Nothing is kept, the store could not be read, or what it kept could not *)
(* be read back: all three are "nothing kept".                             *)
MissKept(c) ==
  /\ pc[c] = "lookup"
  /\ store[cacheKey(request[c])] = NoExit \/ StoreFails
  /\ pc' = [pc EXCEPT ![c] = "claim"]
  /\ UNCHANGED <<store, pending, request, ticket, result, readingVars>>

(* joinOrStart, under the mutex: a reading is pending for this key.        *)
Join(c) ==
  /\ pc[c] = "claim"
  /\ pending[cacheKey(request[c])] # NoReading
  /\ ticket' = [ticket EXCEPT ![c] = pending[cacheKey(request[c])]]
  /\ pc' = [pc EXCEPT ![c] = "await"]
  /\ UNCHANGED <<store, pending, request, result, readingVars>>

(* Register a new deferred under the key; which one is immaterial.         *)
Claim(c, r) ==
  /\ pc[c] = "claim"
  /\ Fresh(r)
  /\ r = CHOOSE x \in Readings : Fresh(x)
  /\ pending' = [pending EXCEPT ![cacheKey(request[c])] = r]
  /\ ticket' = [ticket EXCEPT ![c] = r]
  /\ pc' = [pc EXCEPT ![c] = "fork"]
  /\ phase' = [phase EXCEPT ![r] = "claimed"]
  /\ asked' = [asked EXCEPT ![r] = request[c]]
  /\ outcome' = [outcome EXCEPT ![r] = NoExit]
  /\ UNCHANGED <<store, request, result, retries, turns, asks>>

(* A wrong variant: register a reading without looking for one.            *)
StartAlways(c, r) == Claim(c, r)

(* joinOrStart, under the mutex: nothing is pending, so this caller leads. *)
Start(c, r) ==
  /\ pending[cacheKey(request[c])] = NoReading
  /\ Claim(c, r)

(* forkRead: the leader forks the reading detached and awaits like anybody.*)
forkRead(c) ==
  /\ pc[c] = "fork"
  /\ phase' = [phase EXCEPT ![ticket[c]] = "turn"]
  /\ pc' = [pc EXCEPT ![c] = "await"]
  /\ UNCHANGED <<store, pending, request, ticket, result,
                 asked, retries, turns, asks, outcome>>

(* Await returns the exit the deferred was completed with.                 *)
Await(c) ==
  /\ pc[c] = "await"
  /\ phase[ticket[c]] = "over"
  /\ result' = [result EXCEPT ![c] = outcome[ticket[c]]]
  /\ ticket' = [ticket EXCEPT ![c] = NoReading]
  /\ pc' = [pc EXCEPT ![c] = "done"]
  /\ UNCHANGED <<store, pending, request, readingVars>>

Leave(c) ==
  /\ ticket' = [ticket EXCEPT ![c] = NoReading]
  /\ pc' = [pc EXCEPT ![c] = "idle"]
  /\ UNCHANGED <<store, pending, request, result, readingVars>>

(* The caller goes away (or its runtime closes): it stops looking, or      *)
(* stops awaiting.  The reading it may have started goes on.               *)
Abandon(c) ==
  /\ pc[c] \in {"lookup", "claim", "await"} \cup
               (IF ForkIsPrompt THEN {} ELSE {"fork"})
  /\ Leave(c)

-----------------------------------------------------------------------------
(* The reading: askUpstream, then writeCache, then the exit handler.       *)

(* The reading has its exit: forgetKey comes next.                         *)
EndWith(r, status) ==
  /\ outcome' = [outcome EXCEPT ![r] = [status |-> status, from |-> r]]
  /\ phase' = [phase EXCEPT ![r] = "forgetting"]
  /\ UNCHANGED retries

(* A wrong variant: the turn is around the retry, not inside it.           *)
AttemptFailedKeepTurn(r, status) ==
  \/ /\ retrySchedule(r, status)
     /\ retries' = [retries EXCEPT ![r] = @ + 1]
     /\ phase' = [phase EXCEPT ![r] = "asking"]
     /\ UNCHANGED outcome
  \/ /\ ~retrySchedule(r, status)
     /\ EndWith(r, status)

(* An attempt did not succeed: Retry schedules another, which waits for    *)
(* its own turn; with the schedule spent, recoverRefusal hands a refusal   *)
(* back as the response it came from and passes any other fault on.        *)
AttemptFailed(r, status) ==
  \/ /\ retrySchedule(r, status)
     /\ retries' = [retries EXCEPT ![r] = @ + 1]
     /\ phase' = [phase EXCEPT ![r] = "turn"]
     /\ UNCHANGED outcome
  \/ /\ ~retrySchedule(r, status)
     /\ EndWith(r, status)

(* awaitTurn: the limiter grants a turn.                                   *)
TakeTurn(r) ==
  /\ phase[r] = "turn"
  /\ turns' = [turns EXCEPT ![r] = @ + 1]
  /\ phase' = [phase EXCEPT ![r] = "asking"]
  /\ UNCHANGED <<store, pending, callerVars,
                 asked, retries, asks, outcome>>

(* awaitTurn: the turn is further off than MaxWait, or the limiter cannot  *)
(* be consulted.  The fault is not a Refusal, so isRetryable accepts it.   *)
RefuseTurn(r) ==
  /\ phase[r] = "turn"
  /\ AttemptFailed(r, "fault")
  /\ UNCHANGED <<store, pending, callerVars, asked, turns, asks>>

(* Fetch and failUnsuccessful: the service answers, or does not.           *)
Exchange(r, status) ==
  /\ phase[r] = "asking"
  /\ asks' = [asks EXCEPT ![r] = @ + 1]
  /\ IF IsSuccessful(status)
     THEN /\ outcome' = [outcome EXCEPT ![r] = [status |-> status, from |-> r]]
          /\ phase' = [phase EXCEPT ![r] = "keeping"]
          /\ UNCHANGED retries
     ELSE AttemptFailed(r, status)
  /\ UNCHANGED <<store, pending, callerVars, asked, turns>>

KeepUnder(k, r) ==
  /\ phase[r] = "keeping"
  /\ phase' = [phase EXCEPT ![r] = "forgetting"]
  /\ store' = [store EXCEPT ![k] = outcome[r]]
  /\ UNCHANGED <<pending, callerVars,
                 asked, retries, turns, asks, outcome>>

(* A wrong variant: the answer is filed under some other question.         *)
KeepElsewhere(r) == \E k \in Questions : KeepUnder(k, r)

(* writeCache: the answer is marshalled and written.                       *)
Keep(r) == KeepUnder(cacheKey(asked[r]), r)

(* writeCache: the store reports a fault, whether or not the entry landed, *)
(* and the caller is answered all the same.                                *)
KeepFails(r) ==
  /\ StoreFails
  /\ phase[r] = "keeping"
  /\ phase' = [phase EXCEPT ![r] = "forgetting"]
  /\ store' \in {store, [store EXCEPT ![cacheKey(asked[r])] = outcome[r]]}
  /\ UNCHANGED <<pending, callerVars,
                 asked, retries, turns, asks, outcome>>

(* marshalResponse fails: the reading fails although the service answered. *)
MarshalFails(r) ==
  /\ phase[r] = "keeping"
  /\ EndWith(r, "fault")
  /\ UNCHANGED <<store, pending, callerVars, asked, turns, asks>>

(* A wrong variant: the exit handler runs on success and failure only, so  *)
(* a reading that dies neither forgets its key nor completes its deferred. *)
DieSilently(r) ==
  /\ phase[r] \in {"turn", "asking", "keeping"}
  /\ phase' = [phase EXCEPT ![r] = "free"]
  /\ UNCHANGED <<store, pending, callerVars,
                 asked, retries, turns, asks, outcome>>

(* The reading dies: a panic, or the interruption of its fiber when the    *)
(* runtime closes.  OnExit runs all the same.                              *)
Die(r) ==
  /\ phase[r] \in {"turn", "asking", "keeping"}
  /\ EndWith(r, "death")
  /\ UNCHANGED <<store, pending, callerVars, asked, turns, asks>>

(* A wrong variant: the deferred is completed and the key is kept.         *)
forgetNothing(r) ==
  /\ phase[r] = "forgetting"
  /\ phase' = [phase EXCEPT ![r] = "completing"]
  /\ UNCHANGED <<store, pending, callerVars,
                 asked, retries, turns, asks, outcome>>

(* A wrong variant: the deferred is completed before the key is forgotten. *)
completeFirst(r) ==
  \/ /\ phase[r] = "forgetting"
     /\ phase' = [phase EXCEPT ![r] = "over"]
     /\ UNCHANGED pending
     /\ UNCHANGED <<store, callerVars,
                    asked, retries, turns, asks, outcome>>
  \/ /\ phase[r] = "over"
     /\ pending' = [pending EXCEPT ![cacheKey(asked[r])] = NoReading]
     /\ UNCHANGED <<store, callerVars, readingVars>>

(* forgetKey deletes whatever stands under the reading's key.              *)
forgetKey(r) ==
  /\ phase[r] = "forgetting"
  /\ pending' = [pending EXCEPT ![cacheKey(asked[r])] = NoReading]
  /\ phase' = [phase EXCEPT ![r] = "completing"]
  /\ UNCHANGED <<store, callerVars,
                 asked, retries, turns, asks, outcome>>

(* answer.Complete(outcome): the fiber ends, and its counts end with it.   *)
Complete(r) ==
  /\ phase[r] = "completing"
  /\ phase' = [phase EXCEPT ![r] = "over"]
  /\ retries' = [retries EXCEPT ![r] = 0]
  /\ turns' = [turns EXCEPT ![r] = 0]
  /\ asks' = [asks EXCEPT ![r] = 0]
  /\ UNCHANGED <<store, pending, callerVars, asked, outcome>>

-----------------------------------------------------------------------------
(* The environment.                                                        *)

(* An answer's TimeToLive passes, or everything about one thing is dropped.*)
Expire(k) ==
  /\ store[k] # NoExit
  /\ store' = [store EXCEPT ![k] = NoExit]
  /\ UNCHANGED <<pending, callerVars, readingVars>>

-----------------------------------------------------------------------------
CallerStep(c) ==
  \/ ReplayKept(c)
  \/ MissKept(c)
  \/ Join(c)
  \/ \E r \in Readings : Start(c, r)
  \/ forkRead(c)
  \/ Await(c)

ReadingStep(r) ==
  \/ TakeTurn(r)
  \/ RefuseTurn(r)
  \/ \E status \in Fetch : Exchange(r, status)
  \/ Keep(r)
  \/ KeepFails(r)
  \/ MarshalFails(r)
  \/ Die(r)
  \/ forgetKey(r)
  \/ Complete(r)

Next ==
  \/ \E c \in Callers : CallerStep(c) \/ Abandon(c)
  \/ \E c \in Callers, q \in Requests : FetchUpstream(c, q)
  \/ \E r \in Readings : ReadingStep(r)
  \/ \E k \in Questions : Expire(k)

Spec == Init /\ [][Next]_vars

(* A fiber that can run is run, the limiter ends a wait by granting or     *)
(* refusing, and an exchange ends by an answer or a fault (the transport's *)
(* time limit).  Nothing obliges a caller to call or to go away, an answer *)
(* to expire or a reading to die.                                          *)
Fairness ==
  /\ \A c \in Callers : WF_vars(CallerStep(c))
  /\ \A r \in Readings : WF_vars(ReadingStep(r))

FairSpec == Spec /\ Fairness

-----------------------------------------------------------------------------
(* Properties.                                                             *)

(* One reading serves every caller that wants the same key: a key stands   *)
(* in pending exactly as long as a reading of that key is under way, and   *)
(* so no two readings of one key ever are (upstream_inflight.go, "under    *)
(* one lock", "released on every outcome").                                *)
SingleFlight ==
  /\ \A k \in Questions : pending[k] # NoReading =>
        phase[pending[k]] \in Live /\ cacheKey(asked[pending[k]]) = k
  /\ \A r \in Readings : phase[r] \in Live => pending[cacheKey(asked[r])] = r

(* What a caller is handed, replayed or read by whoever led, answers the   *)
(* question it asked: the exit comes from a reading of the caller's key,   *)
(* however the steps of callers, readings and expiry interleave.           *)
AnswersTheQuestion ==
  \A c \in Callers :
    /\ result[c] # NoExit =>
         cacheKey(asked[result[c].from]) = cacheKey(request[c])
    /\ ticket[c] # NoReading =>
         cacheKey(asked[ticket[c]]) = cacheKey(request[c])

(* "Only a successful answer is kept", under the key it answers, whatever  *)
(* the retries before it and the callers beside it did.                    *)
OnlySuccessKept ==
  \A k \in Questions : store[k] # NoExit =>
    /\ store[k].status = "2xx"
    /\ cacheKey(asked[store[k].from]) = k

(* Every time the service is asked, retries included, a turn was taken for *)
(* that attempt, and no reading takes more turns than the terms allow.     *)
AskedInTurn ==
  \A r \in Readings :
    /\ asks[r] <= turns[r]
    /\ phase[r] = "asking" => asks[r] < turns[r]
    /\ turns[r] <= Retries + 1

(* What callers are promised of a shared reading, in SharedReading's terms:*)
(* a key's reading in flight, each caller's share in one, and what a       *)
(* reading landed with.                                                    *)
Promise == INSTANCE SharedReading WITH
  Keys <- Questions,
  flight <- pending,
  landed <- [r \in Readings |-> IF phase[r] = "over" THEN outcome[r]
                                                    ELSE NoExit]

(* The interleaving of critical sections, detached fibers and exit         *)
(* handlers implements the promise: no caller joins a reading that has     *)
(* landed, and a reading lands once, after its key was released.           *)
ImplementsPromise == Promise!Spec

(* Nobody waits forever: a caller that claimed or joined a reading is      *)
(* handed its exit or has gone away, also when the reading's leader left,  *)
(* and when the reading failed, died or was interrupted ("a failure the    *)
(* waiters see rather than a wait that never ends").                       *)
EveryWaitEnds ==
  \A c \in Callers : pc[c] \in {"fork", "await"} ~> pc[c] \in {"done", "idle"}

(* Every key is released: a reading never leaves its key behind.           *)
EveryKeyReleased ==
  \A k \in Questions : pending[k] # NoReading ~> pending[k] = NoReading

(* The key is "the service, what the request was about, and the request    *)
(* itself" (upstream_cache.go): an answer handed to a caller is the answer *)
(* to the request that caller made.                                        *)
AnswersTheRequest ==
  \A c \in Callers : result[c] # NoExit => asked[result[c].from] = request[c]

-----------------------------------------------------------------------------
(* The inductive invariant behind the safety properties.                   *)

(* A share is held exactly between the claim and the end of the wait; only *)
(* one caller leads a reading, and it leads one that is not yet forked.    *)
Shares ==
  \A c \in Callers :
    /\ pc[c] \in {"fork", "await"} <=> ticket[c] # NoReading
    /\ pc[c] = "await" => phase[ticket[c]] # "free"
    /\ pc[c] = "fork" =>
         /\ phase[ticket[c]] = "claimed"
         /\ \A d \in Callers : pc[d] = "fork" /\ ticket[d] = ticket[c] => d = c

(* A reading that is past the service has an exit of its own to hand over. *)
ExitsInHand ==
  \A r \in Readings :
    /\ phase[r] = "keeping" =>
         outcome[r] \in Exits /\ outcome[r].from = r /\ outcome[r].status = "2xx"
    /\ phase[r] \in {"forgetting", "completing", "over"} =>
         outcome[r] \in Exits /\ outcome[r].from = r

(* Turns taken, retries made and attempts spent, phase by phase.           *)
TurnCount ==
  \A r \in Readings :
    /\ asks[r] <= turns[r]
    /\ turns[r] <= retries[r] + 1
    /\ phase[r] = "turn" => turns[r] <= retries[r]
    /\ phase[r] = "asking" => asks[r] < turns[r]
    /\ phase[r] \in {"free", "over", "claimed"} =>
         turns[r] = 0 /\ asks[r] = 0 /\ retries[r] = 0

IInv ==
  /\ TypeOK
  /\ SingleFlight
  /\ Shares
  /\ ExitsInHand
  /\ AnswersTheQuestion
  /\ OnlySuccessKept
  /\ TurnCount
=============================================================================
