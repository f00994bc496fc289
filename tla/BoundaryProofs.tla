--------------------------- MODULE BoundaryProofs --------------------------
(***************************************************************************)
(* What the boundary says of an exchange, and to whom, for any number of   *)
(* requests and origins; and which handler a call reaches, what its caller *)
(* may conclude from what it is told and which calls are reported, for any *)
(* procedures, package, handlers and calls.                                *)
(***************************************************************************)
EXTENDS Exchange, RpcCall, SequenceTheorems, TLAPS

-----------------------------------------------------------------------------
(* Exchanges.                                                              *)

(* Nothing has been answered yet.                                          *)
Working == Phases \cup {"idle", "routing", "refusing", "refused"}

(* An answer that names an origin names the one it was made for, and says  *)
(* that it varies by it.                                                   *)
MadeFor(answer, asker) ==
  /\ answer.allow \in {NoOrigin, asker}
  /\ answer.allow # NoOrigin => "Origin" \in answer.vary

(* Every answer under way and every answer kept is one made for its asker. *)
Vouched ==
  /\ \A r \in Requests : MadeFor(response[r], origin[r])
  /\ \A kept \in cache : MadeFor(kept.answer, kept.for)

(* Nothing is recorded while an exchange works, and at most one report     *)
(* before its answer, or its conversation, is under way; a refusal warned  *)
(* about has not been answered while it is "refused", and what is refused  *)
(* has not been handled.                                                   *)
LedgerOf(r) ==
  /\ at[r] \in Working => cause[r] = {} /\ reports[r] = 0
  /\ at[r] \in Working \ {"refused"} => warnings[r] = 0
  /\ at[r] = "refused" => warnings[r] = 1
  /\ at[r] \in {"writing", "conversing"} => reports[r] <= 1
  /\ at[r] \in {"idle", "routing", "decode", "refusing"} => begun[r] \subseteq {"decode"}
  /\ warnings[r] = 1 => begun[r] \subseteq {"decode"}

Ledger == \A r \in Requests : LedgerOf(r)

(* What AccountedFor says of one exchange.                                 *)
AccountOf(r) ==
  at[r] = "writing" =>
    /\ "defect" \in cause[r] => response[r].status = 500 /\ reports[r] = 1
    /\ cause[r] = {"interrupt"} <=> response[r].status = 503
    /\ response[r].status = 503 => reports[r] = 0
    /\ response[r].status = 422 => "failure" \in cause[r]
    /\ response[r].status = 400 => warnings[r] = 1 /\ cause[r] = {}
    /\ warnings[r] = 1 => /\ response[r].status = 400 \/ cause[r] # {}
                          /\ "handle" \notin begun[r]
    /\ cause[r] = {} => reports[r] = 0

(* Invariant by induction: what NamesTheAsker and AccountedFor rest on.    *)
ExchangeInv ==
  TypeOK /\ Vouched /\ NamesTheAsker /\ Ledger /\ AccountedFor

-----------------------------------------------------------------------------
(* The empty answer is a response, names nobody and varies by nothing.     *)
LEMMA EmptyAnswer ==
  ASSUME NEW status \in {0, 101, 200, 204, 400, 404, 405, 422, 500, 503}
  PROVE  /\ Empty(status) \in Response
         /\ Empty(status).status = status
         /\ Empty(status).allow = NoOrigin
         /\ Empty(status).vary = {}
BY DEF Empty, Response

(* The rendering's own answer: it may vary by what was accepted.           *)
LEMMA RenderedAnswer ==
  ASSUME NEW vary \in SUBSET {"Accept"}
  PROVE  /\ [Empty(200) EXCEPT !.vary = vary] \in Response
         /\ [Empty(200) EXCEPT !.vary = vary].status = 200
         /\ [Empty(200) EXCEPT !.vary = vary].allow = NoOrigin
BY DEF Empty, Response

(* What share makes of an answer, field by field.                          *)
LEMMA ShareFields ==
  ASSUME NEW what \in Response, NEW asker \in Origins
  PROVE  /\ share(what, asker) \in Response
         /\ share(what, asker).status = what.status
         /\ share(what, asker).allow = asker
         /\ "Origin" \in share(what, asker).vary
BY DEF share, Response

(* Answer keeps the status it is given and vouches for the origin it adds. *)
LEMMA AnswerVouches ==
  ASSUME TypeOK, NEW r \in Requests, NEW what \in Response,
         what.allow = NoOrigin, Answer(r, what)
  PROVE  /\ response' \in [Requests -> Response]
         /\ response'[r].status = what.status
         /\ MadeFor(response'[r], origin[r])
         /\ \A x \in Requests \ {r} : response'[x] = response[x]
<1> DEFINE said == IF Shared(r) THEN share(what, origin[r]) ELSE what
<1>1. response' = [response EXCEPT ![r] = said]
  BY DEF Answer
<1>2. /\ said \in Response
      /\ said.status = what.status
      /\ MadeFor(said, origin[r])
  <2>1. CASE Shared(r)
    <3>1. origin[r] \in Origins
      BY <2>1 DEF Shared, TypeOK, Settings
    <3>2. said = share(what, origin[r])
      BY <2>1
    <3> HIDE DEF said
    <3>3. QED
      BY <3>1, <3>2, ShareFields DEF MadeFor
  <2>2. CASE ~Shared(r)
    BY <2>2 DEF MadeFor
  <2>3. QED
    BY <2>1, <2>2
<1>3. response \in [Requests -> Response]
  BY DEF TypeOK
<1> HIDE DEF said
<1>4. QED
  BY <1>1, <1>2, <1>3

(* An exchange begins with nothing said and nothing recorded.              *)
LEMMA ExchangeInitial == Init => ExchangeInv
<1> SUFFICES ASSUME Init PROVE ExchangeInv
  OBVIOUS
<1>1. Nothing \in Response /\ Nothing.allow = NoOrigin
  BY EmptyAnswer DEF Nothing
<1>2. TypeOK
  BY <1>1 DEF Init, TypeOK
<1>3. Vouched /\ NamesTheAsker
  BY <1>1 DEF Init, Vouched, MadeFor, NamesTheAsker
<1>4. Ledger /\ AccountedFor
  BY DEF Init, Ledger, LedgerOf, AccountedFor, Working
<1>5. QED
  BY <1>2, <1>3, <1>4 DEF ExchangeInv

(* What another exchange, or the answer of this one, leaves alone.         *)
LEMMA AnswersVouched ==
  ASSUME ExchangeInv, NEW r \in Requests, NEW what \in Response,
         what.allow = NoOrigin, Answer(r, what),
         UNCHANGED <<requestVars, cache, received>>
  PROVE  Vouched' /\ NamesTheAsker'
<1>1. /\ MadeFor(response'[r], origin[r])
      /\ \A x \in Requests \ {r} : response'[x] = response[x]
  BY AnswerVouches DEF ExchangeInv
<1>2. Vouched'
  BY <1>1 DEF ExchangeInv, Vouched, MadeFor, requestVars
<1>3. NamesTheAsker'
  BY DEF ExchangeInv, NamesTheAsker, requestVars
<1>4. QED
  BY <1>2, <1>3

(* A step that says nothing to anybody.                                    *)
LEMMA NothingSaid ==
  ASSUME ExchangeInv, UNCHANGED <<requestVars, response, cache, received>>
  PROVE  Vouched' /\ NamesTheAsker'
BY DEF ExchangeInv, Vouched, MadeFor, NamesTheAsker, requestVars

(* The end of a phase touches the phases ended and keeps their type.       *)
LEMMA EndTyped ==
  ASSUME TypeOK, NEW r \in Requests, NEW why, endPhase(r, why)
  PROVE  /\ ended' \in [Requests -> SUBSET Phases]
         /\ UNCHANGED <<begun, ensured>>
BY DEF TypeOK, endPhase

(* The answer to a cause: its status and whether it is recorded.           *)
LEMMA CauseAnswered ==
  ASSUME NEW c \in (SUBSET Faults) \ {{}}
  PROVE  /\ verdict(c) \in {"died", "refused", "interrupted"}
         /\ StatusFor(verdict(c)) \in {500, 422, 503}
         /\ "defect" \in c => StatusFor(verdict(c)) = 500 /\ Recorded(verdict(c))
         /\ c = {"interrupt"} <=> StatusFor(verdict(c)) = 503
         /\ StatusFor(verdict(c)) = 503 => ~Recorded(verdict(c))
         /\ StatusFor(verdict(c)) = 422 => "failure" \in c
BY DEF Faults, verdict, StatusFor, Recorded

(* Every step keeps the types.                                             *)
LEMMA TypesKept == ExchangeInv /\ [Next]_vars => TypeOK'
<1> SUFFICES ASSUME ExchangeInv, [Next]_vars PROVE TypeOK'
  OBVIOUS
<1> USE DEF ExchangeInv, requestVars, phaseVars, recordVars, Goto
<1>1. ASSUME NEW r \in Requests, Preflight(r) PROVE TypeOK'
  BY <1>1 DEF Preflight, TypeOK, Response, Shared
<1>2. ASSUME NEW r \in Requests, Arrive(r) PROVE TypeOK'
  BY <1>2 DEF Arrive, TypeOK
<1>3. ASSUME NEW r \in Requests, Dispatch(r) PROVE TypeOK'
  <2>1. CASE Goto(r, "decode") /\ UNCHANGED response
    BY <1>3, <2>1 DEF Dispatch, TypeOK, Phases
  <2>2. ASSUME NEW status \in {404, 405}, Answer(r, Empty(status)), Goto(r, "writing")
        PROVE  TypeOK'
    <3>1. response' \in [Requests -> Response]
      BY <2>2, EmptyAnswer, AnswerVouches
    <3>2. QED
      BY <1>3, <2>2, <3>1, ZenonT(40) DEF Dispatch, TypeOK
  <2>3. QED
    BY <1>3, <2>1, <2>2 DEF Dispatch
<1>4. ASSUME NEW r \in Requests, Upgrade(r) PROVE TypeOK'
  <2>1. response' \in [Requests -> Response]
    BY <1>4, EmptyAnswer, AnswerVouches DEF Upgrade
  <2>2. QED
    BY <1>4, <2>1 DEF Upgrade, TypeOK
<1>5. ASSUME NEW r \in Requests, Reject(r) PROVE TypeOK'
  <2>1. response' \in [Requests -> Response]
    BY <1>5, EmptyAnswer, AnswerVouches DEF Reject
  <2>2. QED
    BY <1>5, <2>1 DEF Reject, TypeOK
<1>6. ASSUME NEW r \in Requests, Refuse(r) \/ Decoded(r) \/ Handled(r) PROVE TypeOK'
  <2>1. ended' \in [Requests -> SUBSET Phases] /\ UNCHANGED <<begun, ensured>>
    BY <1>6, EndTyped DEF Refuse, Decoded, Handled
  <2>2. at' \in [Requests -> Phases \cup {"idle", "routing", "refusing", "refused",
                                         "writing", "conversing", "done"}]
    BY <1>6 DEF Refuse, Decoded, Handled, TypeOK, Phases
  <2>3. UNCHANGED <<settings, origin, preflight, cause, response, reports, warnings, cache, received>>
    BY <1>6 DEF Refuse, Decoded, Handled
  <2>4. QED
    BY <2>1, <2>2, <2>3 DEF TypeOK
<1>7. ASSUME NEW r \in Requests, logRefusal(r) PROVE TypeOK'
  <2>1. warnings[r] = 0
    BY <1>7 DEF logRefusal, Ledger, LedgerOf, Working
  <2>2. QED
    BY <1>7, <2>1 DEF logRefusal, TypeOK
<1>8. ASSUME NEW r \in Requests, Encoded(r) PROVE TypeOK'
  <2>1. PICK vary \in SUBSET {"Accept"} : Answer(r, [Empty(200) EXCEPT !.vary = vary])
    BY <1>8 DEF Encoded
  <2>2. response' \in [Requests -> Response]
    BY <2>1, RenderedAnswer, AnswerVouches
  <2>3. ended' \in [Requests -> SUBSET Phases] /\ UNCHANGED <<begun, ensured>>
    BY <1>8, EndTyped DEF Encoded
  <2>4. QED
    BY <1>8, <2>2, <2>3 DEF Encoded, TypeOK
<1>9. ASSUME NEW r \in Requests, Fail(r) PROVE TypeOK'
  <2>1. PICK c \in CausesOf(r) :
          /\ cause' = [cause EXCEPT ![r] = c]
          /\ reports' = [reports EXCEPT ![r] = IF Recorded(verdict(c)) THEN @ + 1 ELSE @]
          /\ Answer(r, Empty(StatusFor(verdict(c))))
          /\ endPhase(r, c)
    BY <1>9 DEF Fail
  <2>2. c \in (SUBSET Faults) \ {{}}
    BY DEF CausesOf
  <2>3. response' \in [Requests -> Response]
    BY <2>1, <2>2, CauseAnswered, EmptyAnswer, AnswerVouches
  <2>4. ended' \in [Requests -> SUBSET Phases] /\ UNCHANGED <<begun, ensured>>
    BY <2>1, EndTyped
  <2>5. reports[r] = 0
    BY <1>9 DEF Fail, Ledger, LedgerOf, Working
  <2>6. reports' \in [Requests -> 0 .. 2]
    BY <2>1, <2>5 DEF TypeOK
  <2>7. QED
    BY <1>9, <2>1, <2>2, <2>3, <2>4, <2>6 DEF Fail, TypeOK
<1>10. ASSUME NEW r \in Requests, WriteTo(r) PROVE TypeOK'
  BY <1>10 DEF WriteTo, TypeOK
<1>11. ASSUME NEW r \in Requests, Accept(r) PROVE TypeOK'
  BY <1>11 DEF Accept, TypeOK
<1>12. ASSUME NEW r \in Requests, WriteFails(r) PROVE TypeOK'
  <2>1. reports[r] \in {0, 1}
    BY <1>12 DEF WriteFails, Ledger, LedgerOf, TypeOK
  <2>2. QED
    BY <1>12, <2>1 DEF WriteFails, TypeOK
<1>13. ASSUME NEW r \in Requests, Interpret(r) PROVE TypeOK'
  <2>1. reports[r] \in {0, 1}
    BY <1>13 DEF Interpret, Ledger, LedgerOf, TypeOK
  <2>2. QED
    BY <1>13, <2>1 DEF Interpret, TypeOK
<1>14. ASSUME NEW r \in Requests, beginPhase(r) \/ ensurePhase(r) PROVE TypeOK'
  BY <1>14 DEF beginPhase, ensurePhase, TypeOK
<1>15. ASSUME NEW r \in Requests, CacheHit(r) PROVE TypeOK'
  BY <1>15 DEF CacheHit, TypeOK
<1>16. CASE UNCHANGED vars
  BY <1>16 DEF vars, TypeOK
<1>17. QED
  BY <1>1, <1>2, <1>3, <1>4, <1>5, <1>6, <1>7, <1>8, <1>9, <1>10, <1>11, <1>12,
     <1>13, <1>14, <1>15, <1>16 DEF Next

(* Every answer made is made for its asker, and no cache gives one to      *)
(* another: what it may replay either names nobody or varies by origin.    *)
LEMMA AskersNamed == ExchangeInv /\ [Next]_vars => Vouched' /\ NamesTheAsker'
<1> SUFFICES ASSUME ExchangeInv, [Next]_vars PROVE Vouched' /\ NamesTheAsker'
  OBVIOUS
<1> USE DEF ExchangeInv
<1>1. ASSUME NEW r \in Requests, Preflight(r) PROVE Vouched' /\ NamesTheAsker'
  <2>1. /\ MadeFor(response'[r], origin[r])
        /\ \A x \in Requests \ {r} : response'[x] = response[x]
    BY <1>1 DEF Preflight, TypeOK, MadeFor
  <2>2. QED
    BY <1>1, <2>1 DEF Preflight, Vouched, NamesTheAsker, MadeFor, requestVars
<1>2. ASSUME NEW r \in Requests,
             \/ Arrive(r) \/ beginPhase(r) \/ ensurePhase(r) \/ Refuse(r) \/ logRefusal(r)
             \/ Decoded(r) \/ Handled(r) \/ WriteFails(r) \/ Interpret(r)
      PROVE  Vouched' /\ NamesTheAsker'
  BY <1>2, NothingSaid DEF Arrive, beginPhase, ensurePhase, Refuse, logRefusal, Decoded,
     Handled, WriteFails, Interpret
<1>3. ASSUME NEW r \in Requests, Dispatch(r) PROVE Vouched' /\ NamesTheAsker'
  <2>1. CASE UNCHANGED response
    BY <1>3, <2>1, NothingSaid DEF Dispatch
  <2>2. CASE \E status \in {404, 405} : Answer(r, Empty(status))
    BY <1>3, <2>2, EmptyAnswer, AnswersVouched DEF Dispatch
  <2>3. QED
    BY <1>3, <2>1, <2>2 DEF Dispatch
<1>4. ASSUME NEW r \in Requests, Upgrade(r) \/ Reject(r) PROVE Vouched' /\ NamesTheAsker'
  BY <1>4, EmptyAnswer, AnswersVouched DEF Upgrade, Reject
<1>5. ASSUME NEW r \in Requests, Encoded(r) PROVE Vouched' /\ NamesTheAsker'
  <2>1. PICK vary \in SUBSET {"Accept"} : Answer(r, [Empty(200) EXCEPT !.vary = vary])
    BY <1>5 DEF Encoded
  <2>2. UNCHANGED <<requestVars, cache, received>>
    BY <1>5 DEF Encoded
  <2>3. QED
    BY <2>1, <2>2, RenderedAnswer, AnswersVouched
<1>6. ASSUME NEW r \in Requests, Fail(r) PROVE Vouched' /\ NamesTheAsker'
  <2>1. PICK c \in CausesOf(r) : Answer(r, Empty(StatusFor(verdict(c))))
    BY <1>6 DEF Fail
  <2>2. StatusFor(verdict(c)) \in {500, 422, 503}
    BY CauseAnswered DEF CausesOf
  <2>3. QED
    BY <1>6, <2>1, <2>2, EmptyAnswer, AnswersVouched DEF Fail
<1>7. ASSUME NEW r \in Requests, WriteTo(r) PROVE Vouched' /\ NamesTheAsker'
  <2>1. Vouched'
    BY <1>7 DEF WriteTo, Vouched, MadeFor, requestVars
  <2>2. NamesTheAsker'
    BY <1>7 DEF WriteTo, TypeOK, Vouched, MadeFor, NamesTheAsker, requestVars
  <2>3. QED
    BY <2>1, <2>2
<1>8. ASSUME NEW r \in Requests, Accept(r) PROVE Vouched' /\ NamesTheAsker'
  <2>1. Vouched'
    BY <1>8 DEF Accept, Vouched, MadeFor, requestVars
  <2>2. NamesTheAsker'
    BY <1>8 DEF Accept, TypeOK, Vouched, MadeFor, NamesTheAsker, requestVars
  <2>3. QED
    BY <2>1, <2>2
<1>9. ASSUME NEW r \in Requests, CacheHit(r) PROVE Vouched' /\ NamesTheAsker'
  <2>1. PICK kept \in cache :
          /\ "Origin" \in kept.answer.vary => kept.for = origin[r]
          /\ received' = [received EXCEPT ![r] = kept.answer]
    BY <1>9 DEF CacheHit
  <2>2. kept.answer.allow \in {NoOrigin, origin[r]}
    BY <2>1 DEF Vouched, MadeFor
  <2>3. NamesTheAsker'
    BY <1>9, <2>1, <2>2 DEF CacheHit, TypeOK, NamesTheAsker, requestVars
  <2>4. Vouched'
    BY <1>9 DEF CacheHit, Vouched, MadeFor, requestVars
  <2>5. QED
    BY <2>3, <2>4
<1>10. CASE UNCHANGED vars
  BY <1>10, NothingSaid DEF vars
<1>11. QED
  BY <1>1, <1>2, <1>3, <1>4, <1>5, <1>6, <1>7, <1>8, <1>9, <1>10 DEF Next

(* A step of one exchange keeps the accounts if it keeps its own.          *)
LEMMA AccountKept ==
  ASSUME ExchangeInv, NEW r \in Requests, LedgerOf(r)', AccountOf(r)',
         \A x \in Requests \ {r} :
           /\ at'[x] = at[x] /\ response'[x] = response[x] /\ cause'[x] = cause[x]
           /\ reports'[x] = reports[x] /\ warnings'[x] = warnings[x] /\ begun'[x] = begun[x]
  PROVE  Ledger' /\ AccountedFor'
<1>1. ASSUME NEW x \in Requests \ {r} PROVE LedgerOf(x)' /\ AccountOf(x)'
  <2>1. LedgerOf(x) /\ AccountOf(x)
    BY DEF ExchangeInv, Ledger, AccountedFor, AccountOf
  <2>2. QED
    BY <2>1 DEF LedgerOf, AccountOf
<1>2. Ledger'
  BY <1>1 DEF Ledger
<1>3. AccountedFor'
  BY <1>1 DEF AccountedFor, AccountOf
<1>4. QED
  BY <1>2, <1>3

(* An exchange goes from one place of its work to another.                 *)
LEMMA WorkGoesOn ==
  ASSUME ExchangeInv, NEW r \in Requests, NEW where \in Working, LedgerOf(r)',
         Goto(r, where), UNCHANGED <<response, cause, reports, begun>>,
         \A x \in Requests \ {r} : warnings'[x] = warnings[x]
  PROVE  Ledger' /\ AccountedFor'
<1>1. at'[r] = where /\ \A x \in Requests \ {r} : at'[x] = at[x]
  BY DEF ExchangeInv, TypeOK, Goto
<1>2. where # "writing"
  BY DEF Working, Phases
<1>3. AccountOf(r)'
  BY <1>1, <1>2 DEF AccountOf
<1>4. QED
  BY <1>1, <1>3, AccountKept

(* An exchange in which nothing failed is answered.                        *)
LEMMA WorkAnswered ==
  ASSUME ExchangeInv, NEW r \in Requests, at[r] \in Working, Goto(r, "writing"),
         UNCHANGED <<cause, reports, warnings, begun>>,
         \A x \in Requests \ {r} : response'[x] = response[x],
         response'[r].status \notin {422, 503},
         response'[r].status = 400 <=> at[r] = "refused"
  PROVE  Ledger' /\ AccountedFor'
<1>1. at'[r] = "writing" /\ \A x \in Requests \ {r} : at'[x] = at[x]
  BY DEF ExchangeInv, TypeOK, Goto
<1>2. LedgerOf(r)
  BY DEF ExchangeInv, Ledger
<1>3. cause[r] = {} /\ reports[r] = 0 /\ (warnings[r] = 1 => begun[r] \subseteq {"decode"})
  BY <1>2 DEF LedgerOf
<1>4. warnings[r] = 1 <=> at[r] = "refused"
  BY <1>2 DEF LedgerOf
<1>5. LedgerOf(r)'
  BY <1>1, <1>3 DEF LedgerOf, Working, Phases
<1>6. AccountOf(r)'
  BY <1>1, <1>3, <1>4 DEF AccountOf
<1>7. QED
  BY <1>1, <1>5, <1>6, AccountKept

(* Every step keeps the account of what went wrong.                        *)
LEMMA AccountsKept == ExchangeInv /\ [Next]_vars => Ledger' /\ AccountedFor'
<1> SUFFICES ASSUME ExchangeInv, [Next]_vars PROVE Ledger' /\ AccountedFor'
  OBVIOUS
<1>0. TypeOK /\ \A r \in Requests : LedgerOf(r)
  BY DEF ExchangeInv, Ledger
<1> USE DEF requestVars, phaseVars, recordVars
<1>1. ASSUME NEW r \in Requests, Preflight(r) PROVE Ledger' /\ AccountedFor'
  <2>1. response'[r].status = 204 /\ \A x \in Requests \ {r} : response'[x] = response[x]
    BY <1>0, <1>1 DEF Preflight, TypeOK
  <2>2. at[r] = "idle" /\ Goto(r, "writing") /\ UNCHANGED <<cause, reports, warnings, begun>>
    BY <1>1 DEF Preflight
  <2>3. QED
    BY <2>1, <2>2, WorkAnswered DEF Working
<1>2. ASSUME NEW r \in Requests, Arrive(r) PROVE Ledger' /\ AccountedFor'
  <2>1. /\ at[r] = "idle" /\ Goto(r, "routing")
        /\ UNCHANGED <<response, cause, reports, warnings, begun>>
    BY <1>2 DEF Arrive
  <2>2. LedgerOf(r)'
    BY <1>0, <2>1 DEF Goto, LedgerOf, Working, Phases, TypeOK
  <2>3. QED
    BY <2>1, <2>2, WorkGoesOn DEF Working
<1>3. ASSUME NEW r \in Requests, Dispatch(r) PROVE Ledger' /\ AccountedFor'
  <2>1. at[r] = "routing" /\ UNCHANGED <<cause, reports, warnings, begun>>
    BY <1>3 DEF Dispatch
  <2>2. CASE Goto(r, "decode") /\ UNCHANGED response
    <3>1. LedgerOf(r)'
      BY <1>0, <2>1, <2>2 DEF Goto, LedgerOf, Working, Phases, TypeOK
    <3>2. QED
      BY <2>1, <2>2, <3>1, WorkGoesOn DEF Working, Phases
  <2>3. ASSUME NEW status \in {404, 405}, Answer(r, Empty(status)), Goto(r, "writing")
        PROVE  Ledger' /\ AccountedFor'
    <3>1. /\ response'[r].status = status
          /\ \A x \in Requests \ {r} : response'[x] = response[x]
      BY <1>0, <2>3, EmptyAnswer, AnswerVouches
    <3>2. QED
      BY <2>1, <2>3, <3>1, WorkAnswered DEF Working
  <2>4. QED
    BY <1>3, <2>2, <2>3 DEF Dispatch
<1>4. ASSUME NEW r \in Requests, Upgrade(r) PROVE Ledger' /\ AccountedFor'
  <2>1. /\ at[r] = "routing" /\ Goto(r, "writing") /\ Answer(r, Empty(101))
        /\ UNCHANGED <<cause, reports, warnings, begun>>
    BY <1>4 DEF Upgrade
  <2>2. /\ response'[r].status = 101
        /\ \A x \in Requests \ {r} : response'[x] = response[x]
    BY <1>0, <2>1, EmptyAnswer, AnswerVouches
  <2>3. QED
    BY <2>1, <2>2, WorkAnswered DEF Working
<1>5. ASSUME NEW r \in Requests, Reject(r) PROVE Ledger' /\ AccountedFor'
  <2>1. /\ at[r] = "refused" /\ Goto(r, "writing") /\ Answer(r, Empty(400))
        /\ UNCHANGED <<cause, reports, warnings, begun>>
    BY <1>5 DEF Reject
  <2>2. /\ response'[r].status = 400
        /\ \A x \in Requests \ {r} : response'[x] = response[x]
    BY <1>0, <2>1, EmptyAnswer, AnswerVouches
  <2>3. QED
    BY <2>1, <2>2, WorkAnswered DEF Working
<1>6. ASSUME NEW r \in Requests, Encoded(r) PROVE Ledger' /\ AccountedFor'
  <2>1. /\ at[r] = "encode" /\ Goto(r, "writing")
        /\ UNCHANGED <<cause, reports, warnings, begun>>
    BY <1>6 DEF Encoded, endPhase
  <2>2. PICK vary \in SUBSET {"Accept"} : Answer(r, [Empty(200) EXCEPT !.vary = vary])
    BY <1>6 DEF Encoded
  <2> DEFINE rendered == [Empty(200) EXCEPT !.vary = vary]
  <2>3. rendered \in Response /\ rendered.status = 200 /\ rendered.allow = NoOrigin
    BY RenderedAnswer
  <2>4. Answer(r, rendered)
    BY <2>2
  <2> HIDE DEF rendered
  <2>5. /\ response'[r].status = 200
        /\ \A x \in Requests \ {r} : response'[x] = response[x]
    BY <1>0, <2>3, <2>4, AnswerVouches
  <2>6. QED
    BY <2>1, <2>5, WorkAnswered DEF Working, Phases
<1>7. ASSUME NEW r \in Requests, Refuse(r) \/ Decoded(r) \/ Handled(r)
      PROVE  Ledger' /\ AccountedFor'
  <2>1. UNCHANGED <<response, cause, reports, warnings, begun>>
    BY <1>7 DEF Refuse, Decoded, Handled, endPhase
  <2>2. PICK where \in {"refusing", "handle", "encode"} :
          Goto(r, where) /\ (where = "refusing" => at[r] = "decode")
    BY <1>7 DEF Refuse, Decoded, Handled
  <2>3. at[r] \in {"decode", "handle"}
    BY <1>7 DEF Refuse, Decoded, Handled
  <2>4. at'[r] = where
    BY <1>0, <2>2 DEF Goto, TypeOK
  <2>5. LedgerOf(r)'
    BY <1>0, <2>1, <2>2, <2>3, <2>4 DEF LedgerOf, Working, Phases
  <2>6. QED
    BY <2>1, <2>2, <2>5, WorkGoesOn DEF Working, Phases
<1>8. ASSUME NEW r \in Requests, logRefusal(r) PROVE Ledger' /\ AccountedFor'
  <2>1. /\ at[r] = "refusing" /\ Goto(r, "refused")
        /\ UNCHANGED <<response, cause, reports, begun>>
        /\ warnings' = [warnings EXCEPT ![r] = @ + 1]
    BY <1>8 DEF logRefusal
  <2>2. warnings[r] = 0
    BY <1>0, <2>1 DEF LedgerOf, Working
  <2>3. warnings'[r] = 1 /\ \A x \in Requests \ {r} : warnings'[x] = warnings[x]
    BY <1>0, <2>1, <2>2 DEF TypeOK
  <2>4. at'[r] = "refused"
    BY <1>0, <2>1 DEF Goto, TypeOK
  <2>5. LedgerOf(r)'
    BY <1>0, <2>1, <2>3, <2>4 DEF LedgerOf, Working, Phases
  <2>6. QED
    BY <2>1, <2>3, <2>5, WorkGoesOn DEF Working
<1>9. ASSUME NEW r \in Requests, beginPhase(r) PROVE Ledger' /\ AccountedFor'
  <2>1. /\ at[r] \in Phases /\ begun' = [begun EXCEPT ![r] = @ \cup {at[r]}]
        /\ UNCHANGED <<at, response, cause, reports, warnings>>
    BY <1>9 DEF beginPhase
  <2>2. warnings[r] = 0
    BY <1>0, <2>1 DEF LedgerOf, Working, Phases
  <2>3. /\ begun'[r] = begun[r] \cup {at[r]}
        /\ \A x \in Requests \ {r} : begun'[x] = begun[x]
    BY <1>0, <2>1 DEF TypeOK
  <2>4. LedgerOf(r)'
    BY <1>0, <2>1, <2>2, <2>3 DEF LedgerOf, Working, Phases
  <2>5. AccountOf(r)'
    BY <2>1 DEF AccountOf, Phases
  <2>6. QED
    BY <2>1, <2>3, <2>4, <2>5, AccountKept
<1>10. ASSUME NEW r \in Requests, Fail(r) PROVE Ledger' /\ AccountedFor'
  <2>1. PICK c \in CausesOf(r) :
          /\ cause' = [cause EXCEPT ![r] = c]
          /\ reports' = [reports EXCEPT ![r] = IF Recorded(verdict(c)) THEN @ + 1 ELSE @]
          /\ Answer(r, Empty(StatusFor(verdict(c))))
          /\ endPhase(r, c)
    BY <1>10 DEF Fail
  <2>2. c \in (SUBSET Faults) \ {{}}
    BY DEF CausesOf
  <2>3. /\ StatusFor(verdict(c)) \in {500, 422, 503}
        /\ "defect" \in c => StatusFor(verdict(c)) = 500 /\ Recorded(verdict(c))
        /\ c = {"interrupt"} <=> StatusFor(verdict(c)) = 503
        /\ StatusFor(verdict(c)) = 503 => ~Recorded(verdict(c))
        /\ StatusFor(verdict(c)) = 422 => "failure" \in c
    BY <2>2, CauseAnswered
  <2>4. reports[r] = 0 /\ (warnings[r] = 1 => begun[r] \subseteq {"decode"})
    BY <1>0, <1>10 DEF Fail, LedgerOf, Working
  <2>5. at'[r] = "writing" /\ \A x \in Requests \ {r} : at'[x] = at[x]
    BY <1>0, <1>10 DEF Fail, Goto, TypeOK
  <2>6. /\ response'[r].status = StatusFor(verdict(c))
        /\ \A x \in Requests \ {r} : response'[x] = response[x]
    BY <1>0, <2>1, <2>3, EmptyAnswer, AnswerVouches
  <2>7. cause'[r] = c /\ \A x \in Requests \ {r} : cause'[x] = cause[x]
    BY <1>0, <2>1 DEF TypeOK
  <2>8. /\ reports'[r] = IF Recorded(verdict(c)) THEN 1 ELSE 0
        /\ \A x \in Requests \ {r} : reports'[x] = reports[x]
    BY <1>0, <2>1, <2>4 DEF TypeOK
  <2>9. UNCHANGED <<warnings, begun>>
    BY <1>10, <2>1 DEF Fail, endPhase
  <2>10. LedgerOf(r)'
    BY <2>4, <2>5, <2>8, <2>9 DEF LedgerOf, Working, Phases
  <2>11. AccountOf(r)'
    BY <2>2, <2>3, <2>4, <2>6, <2>7, <2>8, <2>9 DEF AccountOf
  <2>12. QED
    BY <2>5, <2>6, <2>7, <2>8, <2>9, <2>10, <2>11, AccountKept
<1>11. ASSUME NEW r \in Requests,
              WriteTo(r) \/ Accept(r) \/ CacheHit(r) \/ WriteFails(r) \/ Interpret(r)
       PROVE  Ledger' /\ AccountedFor'
  <2>1. /\ at'[r] \in {"done", "conversing"}
        /\ at'[r] = "conversing" => at[r] = "writing" /\ reports'[r] = reports[r]
        /\ \A x \in Requests \ {r} : at'[x] = at[x] /\ reports'[x] = reports[x]
    BY <1>0, <1>11 DEF WriteTo, Accept, CacheHit, WriteFails, Interpret, Goto, TypeOK
  <2>2. UNCHANGED <<cause, warnings, response, begun>>
    BY <1>11 DEF WriteTo, Accept, CacheHit, WriteFails, Interpret
  <2>3. LedgerOf(r)'
    BY <1>0, <2>1, <2>2 DEF LedgerOf, Working, Phases
  <2>4. AccountOf(r)'
    BY <2>1 DEF AccountOf
  <2>5. QED
    BY <2>1, <2>2, <2>3, <2>4, AccountKept
<1>12. ASSUME UNCHANGED <<at, cause, response, begun, reports, warnings>>
       PROVE  Ledger' /\ AccountedFor'
  BY <1>12 DEF ExchangeInv, Ledger, LedgerOf, AccountedFor
<1>13. ASSUME NEW r \in Requests, ensurePhase(r) PROVE Ledger' /\ AccountedFor'
  BY <1>12, <1>13 DEF ensurePhase
<1>14. CASE UNCHANGED vars
  BY <1>12, <1>14 DEF vars
<1>15. QED
  BY <1>1, <1>2, <1>3, <1>4, <1>5, <1>6, <1>7, <1>8, <1>9, <1>10, <1>11, <1>13, <1>14 DEF Next

(* The invariant holds in every state of the boundary.                     *)
LEMMA ExchangeInvariant == Spec => []ExchangeInv
<1>1. ExchangeInv /\ [Next]_vars => ExchangeInv'
  BY TypesKept, AskersNamed, AccountsKept DEF ExchangeInv
<1>2. QED
  BY <1>1, ExchangeInitial, PTL DEF Spec

(* What a page receives names its own origin or none, whatever a cache     *)
(* that honours Vary replays (cross_origin.go).                            *)
THEOREM AskerCorrect == Spec => []NamesTheAsker
BY ExchangeInvariant, PTL DEF ExchangeInv

(* What went wrong in an exchange is answered and recorded for what it was,*)
(* whatever else the cause holds, wherever an interruption comes from and  *)
(* whatever it cuts off (adapter.go, responseForCause; route.go, Handle).  *)
THEOREM AccountCorrect == Spec => []AccountedFor
BY ExchangeInvariant, PTL DEF ExchangeInv

-----------------------------------------------------------------------------
(* With a sampler that is told both: only a phase that was told of has a   *)
(* finalizer, and only one with a finalizer is told to have ended; what is *)
(* open while an exchange works is the phase it is in, and what is open    *)
(* afterwards was cut off before it had a finalizer.                       *)
PhasesOf(r) ==
  /\ ensured[r] \subseteq begun[r] /\ ended[r] \subseteq ensured[r]
  /\ at[r] \in Phases => begun[r] \ ended[r] \subseteq {at[r]}
  /\ at[r] \in Working \ Phases => begun[r] = ended[r]
  /\ begun[r] # ended[r] /\ at[r] \notin Working =>
       /\ ~settings.prompt /\ cause[r] = {"interrupt"}
       /\ \E phase \in Phases \ ensured[r] : begun[r] \ ended[r] = {phase}

PhasesInv == settings.sampler = "paired" => \A r \in Requests : PhasesOf(r)

(* A step of one exchange keeps the phases if it keeps its own.            *)
LEMMA PhasesKept ==
  ASSUME NEW r \in Requests, \A x \in Requests : PhasesOf(x), PhasesOf(r)',
         UNCHANGED settings,
         \A x \in Requests \ {r} :
           /\ at'[x] = at[x] /\ cause'[x] = cause[x] /\ begun'[x] = begun[x]
           /\ ensured'[x] = ensured[x] /\ ended'[x] = ended[x]
  PROVE  \A x \in Requests : PhasesOf(x)'
BY DEF PhasesOf

(* A phase that ends leaves nothing open, if it has its finalizer.         *)
LEMMA EndsIt ==
  ASSUME TypeOK, NEW r \in Requests, NEW why, endPhase(r, why), PhasesOf(r)
  PROVE  /\ UNCHANGED <<begun, ensured>>
         /\ ended'[r] = ended[r] \cup (ensured[r] \cap {at[r]})
         /\ \A x \in Requests \ {r} : ended'[x] = ended[x]
         /\ at[r] \in ensured[r] \cap Phases => ended'[r] = begun[r]
<1>1. /\ UNCHANGED <<begun, ensured>>
      /\ ended'[r] = ended[r] \cup (ensured[r] \cap {at[r]})
      /\ \A x \in Requests \ {r} : ended'[x] = ended[x]
  BY DEF TypeOK, endPhase
<1>2. QED
  BY <1>1 DEF PhasesOf

(* No step leaves a phase open, but an interruption before its finalizer.  *)
LEMMA PhasesPaired == TypeOK /\ PhasesInv /\ [Next]_vars => PhasesInv'
<1> SUFFICES ASSUME TypeOK, PhasesInv, [Next]_vars, settings'.sampler = "paired"
             PROVE  \A x \in Requests : PhasesOf(x)'
  BY DEF PhasesInv
<1> USE DEF requestVars, phaseVars
<1>1. UNCHANGED settings
  BY DEF Next, vars, Preflight, Arrive, Dispatch, Upgrade, Accept, beginPhase, ensurePhase,
     Refuse, logRefusal, Reject, Decoded, Handled, Encoded, Fail, WriteTo, WriteFails,
     Interpret, CacheHit
<1>2. settings.sampler = "paired" /\ \A x \in Requests : PhasesOf(x)
  BY <1>1 DEF PhasesInv
<1>3. CASE UNCHANGED vars
  BY <1>2, <1>3 DEF vars, PhasesOf
<1>4. ASSUME NEW r \in Requests, beginPhase(r)
      PROVE  \A x \in Requests : PhasesOf(x)'
  <2>1. /\ at[r] \in Phases /\ begun'[r] = begun[r] \cup {at[r]}
        /\ \A x \in Requests \ {r} : begun'[x] = begun[x]
        /\ UNCHANGED <<at, cause, ensured, ended>>
    BY <1>4 DEF beginPhase, TypeOK
  <2>2. PhasesOf(r)'
    BY <1>1, <1>2, <2>1 DEF PhasesOf, Working
  <2>3. QED
    BY <1>1, <1>2, <2>1, <2>2, PhasesKept
<1>5. ASSUME NEW r \in Requests, ensurePhase(r)
      PROVE  \A x \in Requests : PhasesOf(x)'
  <2>1. /\ at[r] \in begun[r] /\ ensured'[r] = ensured[r] \cup {at[r]}
        /\ \A x \in Requests \ {r} : ensured'[x] = ensured[x]
        /\ UNCHANGED <<at, cause, begun, ended>>
    BY <1>5 DEF ensurePhase, TypeOK
  <2>2. at[r] \in Phases
    BY <2>1 DEF TypeOK
  <2>3. PhasesOf(r)'
    BY <1>1, <1>2, <2>1, <2>2 DEF PhasesOf, Working
  <2>4. QED
    BY <1>1, <1>2, <2>1, <2>3, PhasesKept
<1>6. ASSUME NEW r \in Requests, Refuse(r) \/ Decoded(r) \/ Handled(r) \/ Encoded(r)
      PROVE  \A x \in Requests : PhasesOf(x)'
  <2>1. at[r] \in ensured[r] \cap Phases
    BY <1>2, <1>6 DEF Refuse, Decoded, Handled, Encoded, Within
  <2>2. UNCHANGED cause /\ endPhase(r, {})
    BY <1>6 DEF Refuse, Decoded, Handled, Encoded
  <2>3. /\ UNCHANGED <<begun, ensured>> /\ ended'[r] = begun[r]
        /\ \A x \in Requests \ {r} : ended'[x] = ended[x]
    BY <1>2, <2>1, <2>2, EndsIt
  <2>4. \A x \in Requests \ {r} : at'[x] = at[x]
    BY <1>6 DEF Refuse, Decoded, Handled, Encoded, Goto, TypeOK
  <2>5. ended'[r] \subseteq ensured[r]
    <3>1. ended'[r] = ended[r] \cup (ensured[r] \cap {at[r]})
      BY <1>2, <2>2, EndsIt
    <3>2. QED
      BY <1>2, <3>1 DEF PhasesOf
  <2>6. PhasesOf(r)'
    BY <1>2, <2>3, <2>5 DEF PhasesOf
  <2>7. QED
    BY <1>1, <1>2, <2>2, <2>3, <2>4, <2>6, PhasesKept
<1>7. ASSUME NEW r \in Requests, Fail(r)
      PROVE  \A x \in Requests : PhasesOf(x)'
  <2>1. PICK c \in CausesOf(r) : cause' = [cause EXCEPT ![r] = c] /\ endPhase(r, c)
    BY <1>7 DEF Fail
  <2>2. /\ UNCHANGED <<begun, ensured>>
        /\ ended'[r] = ended[r] \cup (ensured[r] \cap {at[r]})
        /\ \A x \in Requests \ {r} : ended'[x] = ended[x]
        /\ at[r] \in ensured[r] \cap Phases => ended'[r] = begun[r]
    BY <1>2, <2>1, EndsIt
  <2>3. /\ at'[r] = "writing" /\ cause'[r] = c
        /\ \A x \in Requests \ {r} : at'[x] = at[x] /\ cause'[x] = cause[x]
    BY <1>7, <2>1 DEF Fail, Goto, TypeOK
  <2>4. at[r] \in Working
    BY <1>7 DEF Fail, Working
  <2>5. /\ ensured[r] \subseteq begun[r] /\ ended'[r] \subseteq ensured[r]
    BY <1>2, <2>2 DEF PhasesOf
  <2>6. ASSUME begun[r] # ended'[r]
        PROVE  /\ ~settings.prompt /\ c = {"interrupt"}
               /\ at[r] \in Phases \ ensured[r] /\ begun[r] \ ended'[r] = {at[r]}
    <3>1. at[r] \in Phases \ ensured[r]
      BY <1>2, <2>2, <2>4, <2>6 DEF PhasesOf, Working
    <3>2. begun[r] \ ended'[r] = {at[r]} /\ at[r] \in begun[r]
      BY <1>2, <2>2, <2>6, <3>1 DEF PhasesOf
    <3>3. ~Within(r)
      BY <1>2, <3>1 DEF Within
    <3>4. QED
      BY <3>1, <3>2, <3>3 DEF CausesOf
  <2>7. PhasesOf(r)'
    BY <1>1, <2>2, <2>3, <2>5, <2>6 DEF PhasesOf, Working, Phases
  <2>8. QED
    BY <1>1, <1>2, <2>2, <2>3, <2>7, PhasesKept
<1>8. ASSUME NEW r \in Requests,
             \/ Preflight(r) \/ Arrive(r) \/ Dispatch(r) \/ Upgrade(r) \/ logRefusal(r)
             \/ Reject(r) \/ CacheHit(r)
      PROVE  \A x \in Requests : PhasesOf(x)'
  <2>1. at[r] \in Working \ Phases
    BY <1>8 DEF Preflight, Arrive, Dispatch, Upgrade, logRefusal, Reject, CacheHit, Working,
       Phases
  <2>2. /\ UNCHANGED <<cause, begun, ensured, ended>>
        /\ \A x \in Requests \ {r} : at'[x] = at[x]
    BY <1>8 DEF Preflight, Arrive, Dispatch, Upgrade, logRefusal, Reject, CacheHit, Goto, TypeOK
  <2>3. PhasesOf(r)'
    BY <1>2, <2>1, <2>2 DEF PhasesOf
  <2>4. QED
    BY <1>1, <1>2, <2>2, <2>3, PhasesKept
<1>9. ASSUME NEW r \in Requests, WriteTo(r) \/ Accept(r) \/ WriteFails(r) \/ Interpret(r)
      PROVE  \A x \in Requests : PhasesOf(x)'
  <2>1. at[r] \in {"writing", "conversing"} /\ at'[r] \in {"conversing", "done"}
    BY <1>9 DEF WriteTo, Accept, WriteFails, Interpret, Goto, TypeOK
  <2>2. /\ UNCHANGED <<cause, begun, ensured, ended>>
        /\ \A x \in Requests \ {r} : at'[x] = at[x]
    BY <1>9 DEF WriteTo, Accept, WriteFails, Interpret, Goto, TypeOK
  <2>3. PhasesOf(r)'
    BY <1>1, <1>2, <2>1, <2>2 DEF PhasesOf, Working, Phases
  <2>4. QED
    BY <1>1, <1>2, <2>2, <2>3, PhasesKept
<1>10. QED
  BY <1>3, <1>4, <1>5, <1>6, <1>7, <1>8, <1>9 DEF Next

(* Every phase a sampler saw begin has ended before the next begins and    *)
(* before an answer is made, unless the runtime took an interruption       *)
(* between the sampler's call and Ensuring (phase.go, measurePhase).       *)
THEOREM PhasesCorrect == Spec => []EveryPhaseEnds
<1>1. Init => PhasesInv
  BY DEF Init, PhasesInv, PhasesOf, Working, Phases
<1>2. PhasesInv => EveryPhaseEnds
  <2> SUFFICES ASSUME PhasesInv, NEW r \in Requests, settings.sampler = "paired"
               PROVE  /\ at[r] \in Phases => begun[r] \ ended[r] \subseteq {at[r]}
                      /\ at[r] \in {"refusing", "refused"} => begun[r] \ ended[r] = {}
                      /\ (at[r] \in {"writing", "conversing", "done"} /\ begun[r] \ ended[r] # {})
                           => /\ ~settings.prompt /\ cause[r] = {"interrupt"}
                              /\ \E phase \in Phases \ ensured[r] :
                                   begun[r] \ ended[r] = {phase}
    BY DEF EveryPhaseEnds
  <2>1. PhasesOf(r)
    BY DEF PhasesInv
  <2>2. QED
    BY <2>1 DEF PhasesOf, Working, Phases
<1>3. Spec => []TypeOK
  BY ExchangeInvariant, PTL DEF ExchangeInv
<1>4. QED
  BY <1>1, <1>2, <1>3, PhasesPaired, PTL DEF Spec

-----------------------------------------------------------------------------
(* Calls.                                                                  *)

Typed ==
  /\ DOMAIN call = Calls
  /\ caller \in [Calls -> {"idle", "waiting", "over"}]
  /\ desk \in [Calls -> {"none", "arriving", "running", "answered"}]
  /\ runBy \in [Calls -> Handlers \cup {NoHandler}]
  /\ mounted \in [Paths -> Handlers \cup {NoHandler}]

(* A call asks at the path of the procedure its caller means, and nothing  *)
(* is known of one that was not made.                                      *)
Asked ==
  \A k \in Calls :
    IF caller[k] = "idle" THEN desk[k] = "none" /\ runBy[k] = NoHandler
    ELSE /\ call[k].procedure \in Procedures
         /\ call[k].path = Path(call[k].procedure)

(* Invariant by induction.                                                 *)
RpcInv == Typed /\ Asked /\ ReachesItsProcedure

-----------------------------------------------------------------------------
(* A sequence one longer than a prefix of it is the prefix and its last.   *)
LEMMA PrefixAndLast ==
  ASSUME NEW S, NEW p \in Seq(S), NEW s \in Seq(S),
         IsPrefix(p, s), Len(s) = Len(p) + 1
  PROVE  Append(p, Last(s)) = s
<1> DEFINE whole == Append(p, Last(s))
<1>1. Len(p) \in Nat /\ \A i \in 1 .. Len(p) + 1 : s[i] \in S
  BY LenProperties, ElementOfSeq
<1>2. Last(s) = s[Len(p) + 1] /\ Last(s) \in S
  BY <1>1 DEF Last
<1>3. p = SubSeq(s, 1, Len(p))
  BY SubSeqFull DEF IsPrefix
<1>4. \A i \in 1 .. Len(p) : p[i] = s[i]
  <2>1. \A i \in 1 .. Len(p) - 1 + 1 : SubSeq(s, 1, Len(p))[i] = s[1 + i - 1]
    BY <1>1, SubSeqProperties
  <2>2. QED
    BY <1>1, <1>3, <2>1
<1>5. /\ whole \in Seq(S) /\ Len(whole) = Len(p) + 1
      /\ \A i \in 1 .. Len(p) : whole[i] = p[i]
      /\ whole[Len(p) + 1] = Last(s)
  BY <1>2, AppendProperties
<1> HIDE DEF whole
<1>6. \A i \in 1 .. Len(whole) : whole[i] = s[i]
  BY <1>1, <1>2, <1>4, <1>5
<1>7. whole = s
  BY <1>5, <1>6, SeqEqual
<1>8. QED
  BY <1>7 DEF whole

(* A service directly in the package is the package and its bare name.     *)
LEMMA BareName ==
  ASSUME NEW service \in Seq(STRING), bareServiceName(service) # ""
  PROVE  Append(PackageName, bareServiceName(service)) = service
<1>1. /\ IsPrefix(PackageName, service) /\ Len(service) = Len(PackageName) + 1
      /\ bareServiceName(service) = Last(service)
  BY DEF bareServiceName
<1>2. Append(PackageName, Last(service)) = service
  BY <1>1, PrefixAndLast, RpcAssumption
<1>3. QED
  BY <1>1, <1>2

(* A client generated from the contract calls the path the procedure was   *)
(* declared with.                                                          *)
LEMMA ContractKeepsPaths ==
  ASSUME NEW procedure \in Procedures, InContract(procedure)
  PROVE  ContractPath(procedure) = Path(procedure)
BY BareName, RpcAssumption DEF InContract, ContractPath, Path

(* Nothing is mounted and nobody has called.                               *)
LEMMA RpcInitial == RpcInit => RpcInv
BY DEF RpcInit, RpcInv, Typed, Asked, ReachesItsProcedure

(* Every step preserves the invariant.                                     *)
LEMMA RpcStep == RpcInv /\ [RpcNext]_rpcVars => RpcInv'
<1> SUFFICES ASSUME RpcInv, [RpcNext]_rpcVars PROVE RpcInv'
  OBVIOUS
<1> USE DEF RpcInv, mountVars, callerVars, deskVars
<1>1. ASSUME NEW procedure \in Procedures, NEW h \in Handlers, Mount(procedure, h)
      PROVE  RpcInv'
  <2>1. Path(procedure) \in Paths
    BY DEF Paths
  <2>2. \A path \in Paths : mounted[path] # NoHandler => mounted'[path] = mounted[path]
    BY <1>1, <2>1 DEF Mount, Typed
  <2>3. Typed' /\ Asked'
    BY <1>1 DEF Mount, Typed, Asked
  <2>4. \A k \in Calls : runBy[k] # NoHandler => Path(call[k].procedure) \in Paths
    BY DEF Asked, Paths
  <2>5. ReachesItsProcedure'
    BY <1>1, <2>2, <2>4 DEF Mount, ReachesItsProcedure
  <2>6. QED
    BY <2>3, <2>5
<1>2. CASE Handler
  BY <1>2 DEF Handler, Typed, Asked, ReachesItsProcedure
<1>3. ASSUME NEW k \in Calls, NEW procedure \in Procedures, NEW who \in Callers,
             NEW enquiry \in Enquiries, Ask(k, procedure, who, enquiry)
      PROVE  RpcInv'
  <2>1. /\ call'[k].procedure = procedure
        /\ call'[k].path = IF who = "generated" THEN ContractPath(procedure)
                           ELSE Path(procedure)
        /\ \A x \in Calls \ {k} : call'[x] = call[x]
        /\ DOMAIN call' = Calls
    BY <1>3 DEF Ask, Typed
  <2>2. call'[k].path = Path(procedure)
    BY <1>3, <2>1, ContractKeepsPaths DEF Ask
  <2>3. /\ caller'[k] # "idle" /\ runBy[k] = NoHandler /\ UNCHANGED <<mounted, runBy>>
        /\ \A x \in Calls \ {k} : caller'[x] = caller[x] /\ desk'[x] = desk[x]
    BY <1>3 DEF Ask, Tell, Typed, Asked
  <2>4. Typed'
    BY <1>3, <2>1 DEF Ask, Tell, Typed
  <2>5. Asked' /\ ReachesItsProcedure'
    BY <2>1, <2>2, <2>3 DEF Asked, ReachesItsProcedure
  <2>6. QED
    BY <2>4, <2>5
<1>4. ASSUME NEW k \in Calls,
             callRefusal(k) \/ GoAway(k) \/ Expire(k) \/ TimeOut(k) \/ sendRequest(k)
      PROVE  RpcInv'
  <2>1. UNCHANGED <<call, mounted, runBy>>
    BY <1>4 DEF callRefusal, GoAway, Expire, TimeOut, sendRequest
  <2>2. \A x \in Calls : caller'[x] = "idle" <=> caller[x] = "idle"
    BY <1>4 DEF callRefusal, GoAway, Expire, TimeOut, sendRequest, Tell, Typed
  <2>3. \A x \in Calls : desk[x] = "none" => desk'[x] = "none"
    BY <1>4 DEF callRefusal, GoAway, Expire, TimeOut, sendRequest, Dropped, Typed
  <2>4. Typed'
    BY <1>4, <2>1 DEF callRefusal, GoAway, Expire, TimeOut, sendRequest, Dropped, Tell, Typed
  <2>5. Asked' /\ ReachesItsProcedure'
    BY <2>1, <2>2, <2>3 DEF Asked, ReachesItsProcedure
  <2>6. QED
    BY <2>4, <2>5
<1>5. ASSUME NEW k \in Calls, handleCall(k) PROVE RpcInv'
  <2>1. caller[k] # "idle" /\ call[k].path = Path(call[k].procedure)
    BY <1>5 DEF handleCall, Asked
  <2>2. /\ UNCHANGED <<call, caller, mounted>>
        /\ \A x \in Calls \ {k} : desk'[x] = desk[x] /\ runBy'[x] = runBy[x]
        /\ runBy'[k] \in {runBy[k], mounted[call[k].path]}
    BY <1>5 DEF handleCall, Say, Typed
  <2>3. Typed'
    BY <1>5 DEF handleCall, Say, Typed
  <2>4. Asked' /\ ReachesItsProcedure'
    BY <2>1, <2>2 DEF Asked, ReachesItsProcedure
  <2>5. QED
    BY <2>3, <2>4
<1>6. ASSUME NEW k \in Calls, Fails(k) \/ \E value \in {"rate", "misprint"} : Succeeds(k, value)
      PROVE  RpcInv'
  <2>1. /\ UNCHANGED <<call, caller, mounted, runBy>> /\ desk[k] = "running"
        /\ desk' = [desk EXCEPT ![k] = "answered"]
    BY <1>6 DEF Fails, Succeeds, Say
  <2>2. Typed'
    BY <2>1 DEF Typed
  <2>3. Asked' /\ ReachesItsProcedure'
    BY <2>1 DEF Typed, Asked, ReachesItsProcedure
  <2>4. QED
    BY <2>2, <2>3
<1>7. CASE UNCHANGED rpcVars
  BY <1>7 DEF rpcVars, Typed, Asked, ReachesItsProcedure
<1>8. QED
  BY <1>1, <1>2, <1>3, <1>4, <1>5, <1>6, <1>7 DEF RpcNext

(* A call is run by the one handler there ever is for the procedure its    *)
(* caller means, also when the caller knows it only from the contract      *)
(* (contract.go, boundary.go).                                             *)
THEOREM ReachCorrect == RpcSpec => []ReachesItsProcedure
BY RpcInitial, RpcStep, PTL DEF RpcSpec, RpcInv

-----------------------------------------------------------------------------
(* Codes come back as they went.                                           *)

(* There are sixteen codes.                                                *)
LEMMA CodesAre == Len(everyCode) = 16 /\ DOMAIN everyCode = 1 .. 16
BY DEF everyCode

(* No code is listed twice.                                                *)
LEMMA CodesOnce == \A i, j \in 1 .. 16 : everyCode[i] = everyCode[j] => i = j
BY SMTT(60) DEF everyCode

(* The least of one number is that number.                                 *)
LEMMA LeastOfOne == ASSUME NEW j \in Nat PROVE Min({j}) = j
BY DEF Min

(* The code a peer reads is the one it was sent (connectCode and           *)
(* codeFromConnect are inverses on the codes there are).                   *)
LEMMA RoundTrip ==
  ASSUME NEW c \in ToSet(everyCode)
  PROVE  codeFromConnect(connectCode(c)) = c
<1>1. PICK j \in 1 .. 16 : everyCode[j] = c
  BY CodesAre DEF ToSet
<1>2. \A i \in 1 .. 16 : everyCode[i] \in ToSet(everyCode)
  BY CodesAre DEF ToSet
<1>3. \A i \in 1 .. 16 : connectCode(everyCode[i]) = connectCode(c) <=> i = j
  BY <1>1, <1>2, CodesOnce DEF connectCode
<1>4. {i \in 1 .. Len(everyCode) : connectCode(everyCode[i]) = connectCode(c)} = {j}
  BY <1>1, <1>3, CodesAre
<1>5. SelectInSeq(everyCode, LAMBDA each : connectCode(each) = connectCode(c)) = j
  BY <1>1, <1>4, LeastOfOne DEF SelectInSeq
<1>6. QED
  BY <1>1, <1>5 DEF codeFromConnect

-----------------------------------------------------------------------------
(* What a caller is told, and why.                                         *)

Spoken == {"Unimplemented", "InvalidArgument", "Internal", "FailedPrecondition",
           "Unavailable", "NotFound", "Cancelled", "Unknown"}

(* Every code a boundary speaks is listed.                                 *)
LEMMA SpokenAreCodes == Spoken \subseteq ToSet(everyCode)
<1>1. /\ everyCode[1] = "Cancelled" /\ everyCode[2] = "Unknown"
      /\ everyCode[3] = "InvalidArgument" /\ everyCode[5] = "NotFound"
      /\ everyCode[9] = "FailedPrecondition" /\ everyCode[12] = "Unimplemented"
      /\ everyCode[13] = "Internal" /\ everyCode[14] = "Unavailable"
  BY DEF everyCode
<1>2. \A i \in 1 .. 16 : everyCode[i] \in ToSet(everyCode)
  BY CodesAre DEF ToSet
<1>3. QED
  BY <1>1, <1>2 DEF Spoken

(* What a code says of the cause it was made from.                         *)
Justified(code, why) ==
  /\ code \in {"FailedPrecondition", "Unavailable", "NotFound", "Cancelled", "Unknown"}
  /\ code = "NotFound" => why \in {{"NoRoute"}, {"NoRoute", "interrupt"}}
  /\ code = "FailedPrecondition" => why \in {{"TooHeavy"}, {"TooHeavy", "interrupt"}}
  /\ code = "Unknown" <=> "defect" \in why
  /\ code = "Cancelled" => "interrupt" \in why

(* The ways a call's answer comes about.                                   *)
NotServed(k) ==
  /\ did[k] = NotRun /\ runBy[k] = NoHandler /\ recorded[k] = 0
  /\ \E code \in {"Unimplemented", "InvalidArgument"} : answered[k] = connectCode(code)
Served(k) ==
  \/ /\ did[k] = [value |-> "rate", cause |-> {}] /\ recorded[k] = 0
     /\ answered[k] = [message |-> "rate"]
  \/ /\ did[k] = [value |-> "misprint", cause |-> {}] /\ recorded[k] = 1
     /\ answered[k] = connectCode("Internal")
Failed(k) ==
  /\ did[k].value = "none" /\ recorded[k] = IF "defect" \in did[k].cause THEN 1 ELSE 0
  /\ "interrupt" \in did[k].cause => context[k] # "live"
  /\ \E code : Justified(code, did[k].cause) /\ answered[k] = connectCode(code)

Fate ==
  \A k \in Calls :
    /\ desk[k] # "answered" => did[k] = NotRun /\ recorded[k] = 0
    /\ desk[k] \in {"none", "arriving"} => runBy[k] = NoHandler
    /\ desk[k] = "running" => call[k].enquiry \in {"fine", "heavy", "nowhere"}
    /\ desk[k] = "answered" => NotServed(k) \/ Served(k) \/ Failed(k)

(* What the answer of a call tells its caller.                             *)
Heard(k) ==
  IF "connect" \in DOMAIN answered[k] THEN codeFromConnect(answered[k])
  ELSE IF call[k].caller = "stale" THEN "Internal" ELSE answered[k].message

Learned ==
  \A k \in Calls :
    IF caller[k] # "over" THEN told[k] = "nothing"
    ELSE \/ told[k] = "InvalidArgument" /\ desk[k] = "none"
         \/ told[k] \in {"Unavailable", "DeadlineExceeded"}
         \/ told[k] = "Cancelled" /\ context[k] # "live"
         \/ desk[k] = "answered" /\ told[k] = Heard(k)

Shaped ==
  /\ DOMAIN did = Calls /\ DOMAIN recorded = Calls /\ DOMAIN answered = Calls
  /\ DOMAIN told = Calls /\ DOMAIN context = Calls
  /\ \A k \in Calls : caller[k] # "idle" => call[k].enquiry \in Enquiries

(* Invariant by induction, with RpcInv.                                    *)
TellInv == Shaped /\ Fate /\ Learned

(* What failureForCause makes of anything a handler can fail with.         *)
LEMMA CauseCode ==
  ASSUME NEW k \in Calls, NEW why \in CausesFor(k),
         call[k].enquiry \in {"fine", "heavy", "nowhere"}
  PROVE  /\ Justified(failureForCause(why).code, why)
         /\ failureForCause(why).report = IF "defect" \in why THEN 1 ELSE 0
<1>1. PICK reason \in Reasons :
        /\ Price(call[k].enquiry) = {reason}
        /\ why \subseteq {reason, "defect", "interrupt"} /\ why # {}
  <2>1. Price(call[k].enquiry) \in {{"TooHeavy"}, {"NoRoute"}, {"NoCapacity"}}
    BY DEF Price
  <2>2. PICK reason \in Reasons : Price(call[k].enquiry) = {reason}
    BY <2>1 DEF Reasons
  <2>3. why \subseteq Price(call[k].enquiry) \cup {"defect", "interrupt"} /\ why # {}
    BY DEF CausesFor
  <2>4. QED
    BY <2>2, <2>3
<1>2. why \cap Reasons = IF reason \in why THEN {reason} ELSE {}
  BY <1>1 DEF Reasons
<1>3. CASE "defect" \in why
  BY <1>3 DEF failureForCause, defectFailure, Justified
<1>4. CASE "defect" \notin why /\ reason \in why
  <2>1. (CHOOSE each \in why \cap Reasons : TRUE) = reason
    BY <1>2, <1>4
  <2>2. failureForCause(why).code = FailureFor(reason)
    BY <1>2, <1>4, <2>1 DEF failureForCause
  <2>3. why \in {{reason}, {reason, "interrupt"}}
    BY <1>1, <1>4
  <2>4. QED
    BY <1>4, <2>2, <2>3 DEF failureForCause, FailureFor, Reasons, Justified
<1>5. CASE "defect" \notin why /\ reason \notin why
  <2>1. why = {"interrupt"}
    BY <1>1, <1>5
  <2>2. failureForCause(why).code = "Cancelled"
    BY <1>2, <1>5, <2>1 DEF failureForCause, defectFailure
  <2>3. QED
    BY <1>5, <2>1, <2>2 DEF failureForCause, Justified
<1>6. QED
  BY <1>3, <1>4, <1>5

(* No call has been made.                                                  *)
LEMMA TellInitial == RpcInit => TellInv
BY DEF RpcInit, TellInv, Shaped, Fate, Learned, NotRun

(* What a step does not touch of a call leaves what is said of it.         *)
LEMMA Untouched ==
  ASSUME NEW k \in Calls,
         did'[k] = did[k], recorded'[k] = recorded[k], answered'[k] = answered[k],
         runBy'[k] = runBy[k], context[k] # "live" => context'[k] # "live"
  PROVE  NotServed(k) \/ Served(k) \/ Failed(k)
           => (NotServed(k) \/ Served(k) \/ Failed(k))'
BY DEF NotServed, Served, Failed

(* Every step preserves what is known of callers and answers.              *)
LEMMA TellStep == RpcInv /\ TellInv /\ [RpcNext]_rpcVars => TellInv'
<1> SUFFICES ASSUME RpcInv, TellInv, [RpcNext]_rpcVars PROVE TellInv'
  OBVIOUS
<1> USE DEF RpcInv, TellInv, mountVars, callerVars, deskVars
<1>1. ASSUME UNCHANGED <<callerVars, context, deskVars>> PROVE TellInv'
  BY <1>1, Untouched DEF Shaped, Fate, Learned, Heard
<1>2. ASSUME NEW k \in Calls, NEW procedure \in Procedures, NEW who \in Callers,
             NEW enquiry \in Enquiries, Ask(k, procedure, who, enquiry)
      PROVE  TellInv'
  <2>1. /\ UNCHANGED <<context, runBy, did, answered, recorded>>
        /\ caller[k] = "idle" /\ desk[k] = "none" /\ desk'[k] \in {"none", "arriving"}
        /\ \A x \in Calls \ {k} : /\ call'[x] = call[x] /\ caller'[x] = caller[x]
                                  /\ desk'[x] = desk[x] /\ told'[x] = told[x]
    BY <1>2 DEF Ask, Tell, Typed, Asked, Shaped
  <2>2. call'[k].enquiry = enquiry /\ DOMAIN told' = Calls
    BY <1>2 DEF Ask, Tell, Typed, Shaped
  <2>3. \/ caller'[k] = "over" /\ told'[k] = "InvalidArgument" /\ desk'[k] = "none"
        \/ caller'[k] = "waiting" /\ told'[k] = told[k]
    BY <1>2, <2>1 DEF Ask, Tell, Typed, Shaped
  <2>4. Shaped'
    BY <2>1, <2>2 DEF Shaped
  <2>5. Fate'
    BY <2>1, Untouched DEF Fate
  <2>6. Learned'
    BY <2>1, <2>3 DEF Learned, Heard
  <2>7. QED
    BY <2>4, <2>5, <2>6
<1>3. ASSUME NEW k \in Calls, callRefusal(k) \/ GoAway(k) \/ TimeOut(k) PROVE TellInv'
  <2>1. /\ UNCHANGED <<call, runBy, did, answered, recorded>>
        /\ caller[k] = "waiting" /\ caller' = [caller EXCEPT ![k] = "over"]
        /\ \E what \in {"Unavailable", "Cancelled", "DeadlineExceeded"} :
             /\ told' = [told EXCEPT ![k] = what]
             /\ what = "Cancelled" => context' = [context EXCEPT ![k] = "left"]
        /\ context' \in {context, [context EXCEPT ![k] = "left"]}
        /\ Dropped(k)
    BY <1>3 DEF callRefusal, GoAway, TimeOut, Tell
  <2>2. /\ \A x \in Calls : /\ context[x] # "live" => context'[x] # "live"
                            /\ desk'[x] # desk[x] => desk[x] = "arriving" /\ desk'[x] = "none"
        /\ \A x \in Calls \ {k} : caller'[x] = caller[x] /\ told'[x] = told[x]
    BY <2>1 DEF Dropped, Typed, Shaped
  <2>3. Shaped'
    BY <2>1 DEF Shaped, Typed
  <2>4. Fate'
    <3>1. \A x \in Calls : desk'[x] = "answered" => desk[x] = "answered"
      BY <2>2
    <3>2. \A x \in Calls :
            desk'[x] = "answered" => (NotServed(x) \/ Served(x) \/ Failed(x))'
      BY <2>1, <2>2, <3>1, Untouched DEF Fate
    <3>3. QED
      BY <2>1, <2>2, <3>2 DEF Fate
  <2>5. \/ told'[k] \in {"Unavailable", "DeadlineExceeded"}
        \/ told'[k] = "Cancelled" /\ context'[k] # "live"
    BY <2>1 DEF Shaped
  <2>6. Learned'
    BY <2>1, <2>2, <2>5 DEF Learned, Heard, Typed
  <2>7. QED
    BY <2>3, <2>4, <2>6
<1>4. ASSUME NEW k \in Calls, Expire(k) PROVE TellInv'
  <2>1. /\ UNCHANGED <<callerVars, deskVars>> /\ context' = [context EXCEPT ![k] = "expired"]
    BY <1>4 DEF Expire
  <2>2. \A x \in Calls : context[x] # "live" => context'[x] # "live"
    BY <2>1 DEF Shaped
  <2>3. Shaped'
    BY <2>1 DEF Shaped
  <2>4. Fate'
    BY <2>1, <2>2, Untouched DEF Fate
  <2>5. Learned'
    BY <2>1, <2>2 DEF Learned, Heard
  <2>6. QED
    BY <2>3, <2>4, <2>5
<1>5. ASSUME NEW k \in Calls, handleCall(k) PROVE TellInv'
  <2>1. /\ UNCHANGED <<call, caller, told, context, did, recorded>>
        /\ desk[k] = "arriving" /\ caller[k] # "idle"
        /\ \A x \in Calls \ {k} : /\ desk'[x] = desk[x] /\ runBy'[x] = runBy[x]
                                  /\ answered'[x] = answered[x]
        /\ DOMAIN answered' = Calls
    BY <1>5 DEF handleCall, Say, Typed, Asked, Shaped
  <2>2. \/ /\ desk'[k] = "answered" /\ runBy'[k] = runBy[k]
           /\ \E code \in {"Unimplemented", "InvalidArgument"} : answered'[k] = connectCode(code)
        \/ desk'[k] = "running" /\ call[k].enquiry # "unfit"
    BY <1>5 DEF handleCall, Say, Typed, Shaped
  <2>3. Shaped'
    BY <2>1 DEF Shaped
  <2>4. \A x \in Calls \ {k} : desk[x] = "answered" => NotServed(x) \/ Served(x) \/ Failed(x)
    BY DEF Fate
  <2>5. \A x \in Calls \ {k} : desk'[x] = "answered" => (NotServed(x) \/ Served(x) \/ Failed(x))'
    BY <2>1, <2>4, Untouched
  <2>6. desk'[k] = "answered" => NotServed(k)'
    BY <2>1, <2>2 DEF Fate, NotServed
  <2>7. Fate'
    BY <2>1, <2>2, <2>5, <2>6 DEF Fate, Shaped, Enquiries
  <2>8. Learned'
    BY <2>1 DEF Learned, Heard
  <2>9. QED
    BY <2>3, <2>7, <2>8
<1>6. ASSUME NEW k \in Calls, Fails(k) \/ \E value \in {"rate", "misprint"} : Succeeds(k, value)
      PROVE  TellInv'
  <2>1. /\ UNCHANGED <<call, caller, told, context, runBy>>
        /\ desk[k] = "running" /\ desk'[k] = "answered"
        /\ \A x \in Calls \ {k} : /\ desk'[x] = desk[x] /\ did'[x] = did[x]
                                  /\ answered'[x] = answered[x] /\ recorded'[x] = recorded[x]
        /\ DOMAIN answered' = Calls /\ DOMAIN did' = Calls /\ DOMAIN recorded' = Calls
    BY <1>6 DEF Fails, Succeeds, Say, Typed, Shaped
  <2>2. recorded[k] = 0 /\ call[k].enquiry \in {"fine", "heavy", "nowhere"}
    BY <2>1 DEF Fate
  <2>3. ASSUME Fails(k) PROVE Failed(k)'
    <3>1. PICK why \in CausesFor(k) :
            /\ did'[k] = [value |-> "none", cause |-> why]
            /\ answered'[k] = connectCode(failureForCause(why).code)
            /\ recorded'[k] = recorded[k] + failureForCause(why).report
      BY <2>3 DEF Fails, Say, Shaped
    <3>2. "interrupt" \in why => context[k] # "live"
      BY DEF CausesFor
    <3>3. /\ Justified(failureForCause(why).code, why)
          /\ failureForCause(why).report = IF "defect" \in why THEN 1 ELSE 0
      BY <2>2, CauseCode
    <3>4. did'[k].cause = why /\ did'[k].value = "none"
      BY <3>1
    <3>5. QED
      BY <2>1, <2>2, <3>1, <3>2, <3>3, <3>4 DEF Failed
  <2>4. ASSUME NEW value \in {"rate", "misprint"}, Succeeds(k, value) PROVE Served(k)'
    <3>1. did'[k] = [value |-> value, cause |-> {}]
      BY <2>4 DEF Succeeds, Shaped
    <3>2. CASE value = "misprint"
      <4>1. recorded'[k] = 1 /\ answered'[k] = connectCode("Internal")
        BY <2>2, <2>4, <3>2 DEF Succeeds, Say, Shaped
      <4>2. QED
        BY <3>1, <3>2, <4>1 DEF Served
    <3>3. CASE value = "rate"
      <4>1. recorded'[k] = 0 /\ answered'[k] = [message |-> "rate"]
        BY <2>2, <2>4, <3>3 DEF Succeeds, Say, Shaped
      <4>2. QED
        BY <3>1, <3>3, <4>1 DEF Served
    <3>4. QED
      BY <3>2, <3>3
  <2>5. (NotServed(k) \/ Served(k) \/ Failed(k))'
    BY <1>6, <2>3, <2>4
  <2>6. \A x \in Calls \ {k} : desk'[x] = "answered" => (NotServed(x) \/ Served(x) \/ Failed(x))'
    BY <2>1, Untouched DEF Fate
  <2>7. Shaped'
    BY <2>1 DEF Shaped
  <2>8. Fate'
    BY <2>1, <2>5, <2>6 DEF Fate
  <2>9. Learned'
    BY <2>1 DEF Learned, Heard
  <2>10. QED
    BY <2>7, <2>8, <2>9
<1>7. ASSUME NEW k \in Calls, sendRequest(k) PROVE TellInv'
  <2>1. /\ UNCHANGED <<call, context, deskVars>> /\ caller[k] = "waiting"
        /\ desk[k] = "answered" /\ caller' = [caller EXCEPT ![k] = "over"]
        /\ told' = [told EXCEPT ![k] = Heard(k)]
    BY <1>7 DEF sendRequest, Tell, Heard
  <2>2. Shaped'
    BY <2>1 DEF Shaped, Typed
  <2>3. Fate'
    BY <2>1, Untouched DEF Fate
  <2>4. Learned'
    BY <2>1 DEF Learned, Heard, Typed, Shaped
  <2>5. QED
    BY <2>2, <2>3, <2>4
<1>8. CASE Handler \/ \E procedure \in Procedures, h \in Handlers : Mount(procedure, h)
  BY <1>1, <1>8 DEF Handler, Mount
<1>9. CASE UNCHANGED rpcVars
  BY <1>1, <1>9 DEF rpcVars
<1>10. QED
  BY <1>2, <1>3, <1>4, <1>5, <1>6, <1>7, <1>8, <1>9 DEF RpcNext

(* What a caller hears of an answer, case by case.                         *)
LEMMA HeardOfIt ==
  ASSUME NEW k \in Calls, NotServed(k) \/ Served(k) \/ Failed(k)
  PROVE  \/ NotServed(k) /\ Heard(k) \in {"Unimplemented", "InvalidArgument"}
         \/ Served(k) /\ Heard(k) \in {"rate", "Internal"}
         \/ Failed(k) /\ Justified(Heard(k), did[k].cause)
<1>1. ASSUME NEW code \in Spoken, answered[k] = connectCode(code)
      PROVE  Heard(k) = code
  <2>1. "connect" \in DOMAIN connectCode(code)
    BY DEF connectCode
  <2>2. QED
    BY <1>1, <2>1, RoundTrip, SpokenAreCodes DEF Heard
<1>2. CASE NotServed(k)
  BY <1>1, <1>2 DEF NotServed, Spoken
<1>3. CASE Served(k)
  <2>1. CASE answered[k] = [message |-> "rate"]
    BY <1>3, <2>1 DEF Heard
  <2>2. CASE answered[k] = connectCode("Internal")
    BY <1>1, <1>3, <2>2 DEF Spoken
  <2>3. QED
    BY <1>3, <2>1, <2>2 DEF Served
<1>4. CASE Failed(k)
  BY <1>1, <1>4 DEF Failed, Justified, Spoken
<1>5. QED
  BY <1>2, <1>3, <1>4

(* What is known of callers and answers says what the properties say.      *)
LEMMA TellImplies == RpcInv /\ TellInv => CallerKnows /\ FaultsReported
<1> SUFFICES ASSUME RpcInv, TellInv PROVE CallerKnows /\ FaultsReported
  OBVIOUS
<1> USE DEF RpcInv, TellInv
<1>1. \A k \in Calls :
        desk[k] = "answered" =>
          \/ NotServed(k) /\ Heard(k) \in {"Unimplemented", "InvalidArgument"}
          \/ Served(k) /\ Heard(k) \in {"rate", "Internal"}
          \/ Failed(k) /\ Justified(Heard(k), did[k].cause)
  BY HeardOfIt DEF Fate
<1>2. \A k \in Calls :
        \/ told[k] \in {"nothing", "Unavailable", "DeadlineExceeded"}
        \/ told[k] = "InvalidArgument" /\ desk[k] = "none"
        \/ told[k] = "Cancelled" /\ context[k] # "live"
        \/ desk[k] = "answered" /\ told[k] = Heard(k)
  BY DEF Learned
<1>3. CallerKnows
  <2> SUFFICES ASSUME NEW k \in Calls
               PROVE  /\ told[k] \in {"rate", "Internal"} => did[k].value # "none"
                      /\ told[k] = "InvalidArgument" => /\ runBy[k] = NoHandler
                                                        /\ desk[k] # "arriving"
                      /\ told[k] = "NotFound" =>
                           did[k].cause \in {{"NoRoute"}, {"NoRoute", "interrupt"}}
                      /\ told[k] = "FailedPrecondition" =>
                           did[k].cause \in {{"TooHeavy"}, {"TooHeavy", "interrupt"}}
                      /\ told[k] = "Unknown" => "defect" \in did[k].cause
                      /\ told[k] = "Cancelled" => context[k] # "live"
    BY DEF CallerKnows
  <2>1. CASE desk[k] = "answered" /\ told[k] = Heard(k)
    <3>1. CASE NotServed(k) /\ Heard(k) \in {"Unimplemented", "InvalidArgument"}
      BY <2>1, <3>1 DEF NotServed
    <3>2. CASE Served(k) /\ Heard(k) \in {"rate", "Internal"}
      BY <2>1, <3>2 DEF Served
    <3>3. CASE Failed(k) /\ Justified(Heard(k), did[k].cause)
      BY <2>1, <3>3 DEF Failed, Justified
    <3>4. QED
      BY <1>1, <2>1, <3>1, <3>2, <3>3
  <2>2. CASE told[k] = "InvalidArgument" /\ desk[k] = "none"
    BY <2>2 DEF Fate
  <2>3. QED
    BY <1>2, <2>1, <2>2
<1>4. FaultsReported
  <2> SUFFICES ASSUME NEW k \in Calls
               PROVE  /\ recorded[k] = IF \/ "defect" \in did[k].cause
                                          \/ did[k].value = "misprint" THEN 1 ELSE 0
                      /\ "defect" \in did[k].cause =>
                           told[k] \notin {"NotFound", "FailedPrecondition", "rate"}
    BY DEF FaultsReported
  <2>1. CASE desk[k] # "answered"
    BY <2>1 DEF Fate, NotRun
  <2>2. CASE desk[k] = "answered"
    <3>1. CASE NotServed(k)
      BY <3>1 DEF NotServed, NotRun
    <3>2. CASE Served(k)
      BY <3>2 DEF Served
    <3>3. CASE Failed(k) /\ Justified(Heard(k), did[k].cause)
      BY <1>2, <3>3 DEF Failed, Justified
    <3>4. QED
      BY <1>1, <2>2, <3>1, <3>2, <3>3
  <2>3. QED
    BY <2>1, <2>2
<1>5. QED
  BY <1>3, <1>4

(* Both invariants hold in every state.                                    *)
LEMMA RpcAlways == RpcSpec => [](RpcInv /\ TellInv)
BY RpcInitial, RpcStep, TellInitial, TellStep, PTL DEF RpcSpec

(* A caller may conclude from what it is told what CallerKnows says,       *)
(* however its leaving, its deadline and the handler raced (boundary.go,   *)
(* connect_client.go).                                                     *)
THEOREM CallerCorrect == RpcSpec => []CallerKnows
BY RpcAlways, TellImplies, PTL

(* A handler that died, or made what its description refuses, is reported  *)
(* once and no other call is, and nothing is told of why (boundary.go).    *)
THEOREM ReportCorrect == RpcSpec => []FaultsReported
BY RpcAlways, TellImplies, PTL
=============================================================================
