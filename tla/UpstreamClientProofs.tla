------------------------ MODULE UpstreamClientProofs ------------------------
(***************************************************************************)
(* The safety of shared upstream readings, for any number of callers,      *)
(* questions, readings and retries.                                        *)
(***************************************************************************)
EXTENDS UpstreamClient, TLAPS

(* The absent exit is not one a reading can end with: its source would be  *)
(* a reading.                                                              *)
LEMMA NoExitIsNone == NoExit \notin Exits
BY UpstreamAssumption DEF NoExit, Exits

(* The program starts with nothing kept, nothing in flight, nobody waiting.*)
LEMMA Initial == Init => IInv
<1> SUFFICES ASSUME Init PROVE IInv
  OBVIOUS
<1> USE UpstreamAssumption DEF Init, Live, cacheKey
<1>1. TypeOK
  BY DEF TypeOK, Requests
<1>2. SingleFlight /\ OnlySuccessKept
  BY DEF SingleFlight, OnlySuccessKept
<1>3. Shares /\ ExitsInHand
  BY DEF Shares, ExitsInHand
<1>4. AnswersTheQuestion /\ TurnCount
  BY DEF AnswersTheQuestion, TurnCount
<1>5. QED
  BY <1>1, <1>2, <1>3, <1>4 DEF IInv

(* The schedule's count stays within the policy's.                         *)
LEMMA RetryWithinPolicy ==
  ASSUME TypeOK, NEW r \in Readings, NEW s, retrySchedule(r, s)
  PROVE  retries[r] + 1 \in 0 .. Retries
<1>1. retries[r] \in 0 .. Retries /\ retries[r] < Retries
  BY DEF TypeOK, retrySchedule
<1>2. QED
  BY <1>1, UpstreamAssumption

(* A step of a caller that leaves readings, keys and the store alone       *)
(* disturbs only what relates the caller to its reading.                   *)
LEMMA CallerMoves ==
  ASSUME IInv, UNCHANGED <<store, pending, readingVars>>
  PROVE  SingleFlight' /\ ExitsInHand' /\ OnlySuccessKept' /\ TurnCount'
BY DEF IInv, SingleFlight, ExitsInHand, OnlySuccessKept, TurnCount,
       readingVars, cacheKey

(* A reading that moves on between its fork and forgetKey stays under its  *)
(* key, and whoever shares it goes on sharing it.                          *)
LEMMA ReadingMoves ==
  ASSUME IInv, NEW r \in Readings,
         phase[r] \in {"turn", "asking", "keeping"},
         NEW p \in {"turn", "asking", "keeping", "forgetting"},
         phase' = [phase EXCEPT ![r] = p],
         UNCHANGED <<pending, callerVars, asked>>
  PROVE  SingleFlight' /\ Shares' /\ AnswersTheQuestion'
<1> USE DEF IInv, TypeOK, callerVars, cacheKey, Live
<1>1. \A x \in Readings : phase'[x] = IF x = r THEN p ELSE phase[x]
  OBVIOUS
<1>2. SingleFlight'
  BY <1>1 DEF SingleFlight
<1>3. Shares'
  BY <1>1 DEF Shares
<1>4. AnswersTheQuestion'
  BY DEF AnswersTheQuestion
<1>5. QED
  BY <1>2, <1>3, <1>4

(* Every step preserves the invariant.                                     *)
LEMMA InductiveStep == IInv /\ [Next]_vars => IInv'
<1> SUFFICES ASSUME IInv, [Next]_vars PROVE IInv'
  OBVIOUS
<1> USE UpstreamAssumption, NoExitIsNone
    DEF IInv, TypeOK, Requests, callerVars, readingVars, cacheKey
<1>1. ASSUME NEW c \in Callers, NEW q \in Requests, FetchUpstream(c, q) PROVE IInv'
  <2>1. TypeOK'
    BY <1>1 DEF FetchUpstream
  <2>2. Shares'
    BY <1>1 DEF Shares, FetchUpstream
  <2>3. AnswersTheQuestion'
    BY <1>1 DEF AnswersTheQuestion, FetchUpstream, Shares
  <2>4. QED
    BY <1>1, <2>1, <2>2, <2>3, CallerMoves DEF FetchUpstream
<1>2. ASSUME NEW c \in Callers, ReplayKept(c) PROVE IInv'
  <2>1. TypeOK'
    BY <1>2 DEF ReplayKept
  <2>2. Shares'
    BY <1>2 DEF Shares, ReplayKept
  <2>3. AnswersTheQuestion'
    BY <1>2 DEF AnswersTheQuestion, ReplayKept, OnlySuccessKept
  <2>4. QED
    BY <1>2, <2>1, <2>2, <2>3, CallerMoves DEF ReplayKept
<1>3. ASSUME NEW c \in Callers, MissKept(c) PROVE IInv'
  <2>1. TypeOK'
    BY <1>3 DEF MissKept
  <2>2. Shares'
    BY <1>3 DEF Shares, MissKept
  <2>3. AnswersTheQuestion'
    BY <1>3 DEF AnswersTheQuestion, MissKept
  <2>4. QED
    BY <1>3, <2>1, <2>2, <2>3, CallerMoves DEF MissKept
<1>4. ASSUME NEW c \in Callers, Join(c) PROVE IInv'
  <2>1. TypeOK'
    BY <1>4 DEF Join
  <2>2. Shares'
    BY <1>4 DEF Shares, Join, SingleFlight, Live
  <2>3. AnswersTheQuestion'
    BY <1>4 DEF AnswersTheQuestion, Join, SingleFlight
  <2>4. QED
    BY <1>4, <2>1, <2>2, <2>3, CallerMoves DEF Join
<1>5. ASSUME NEW c \in Callers, NEW r \in Readings, Start(c, r) PROVE IInv'
  <2>1. /\ phase[r] \in {"free", "over"}
        /\ \A d \in Callers : ticket[d] # r /\ result[d].from # r
        /\ \A k \in Questions : store[k].from # r
    BY <1>5 DEF Start, Claim, Fresh
  <2>2. pending[request[c].question] = NoReading /\ request[c].question \in Questions
    BY <1>5 DEF Start
  <2>3. TypeOK'
    BY <1>5 DEF Start, Claim, Live
  <2>4. SingleFlight'
    <3>1. ASSUME NEW k \in Questions, pending'[k] # NoReading
          PROVE  phase'[pending'[k]] \in Live /\ asked'[pending'[k]].question = k
      <4>1. CASE k = request[c].question
        BY <1>5, <4>1 DEF Start, Claim, Live
      <4>2. CASE k # request[c].question
        <5>1. pending'[k] = pending[k] /\ pending[k] \in Readings
          BY <1>5, <3>1, <4>2 DEF Start, Claim
        <5>2. phase[pending[k]] \in Live /\ asked[pending[k]].question = k
          BY <5>1 DEF SingleFlight
        <5>3. pending[k] # r
          BY <2>1, <5>2 DEF Live
        <5>4. QED
          BY <1>5, <5>1, <5>2, <5>3 DEF Start, Claim
      <4>3. QED
        BY <4>1, <4>2
    <3>2. ASSUME NEW x \in Readings, phase'[x] \in Live
          PROVE  pending'[asked'[x].question] = x
      BY <1>5, <2>2, <3>2 DEF Start, Claim, Live, SingleFlight
    <3>3. QED
      BY <3>1, <3>2 DEF SingleFlight
  <2>5. Shares'
    BY <1>5, <2>1 DEF Shares, Start, Claim
  <2>6. ExitsInHand' /\ TurnCount'
    BY <1>5, <2>1, ZenonT(40) DEF ExitsInHand, TurnCount, Start, Claim
  <2>7. AnswersTheQuestion'
    BY <1>5, <2>1 DEF AnswersTheQuestion, Start, Claim
  <2>8. OnlySuccessKept'
    BY <1>5, <2>1 DEF OnlySuccessKept, Start, Claim
  <2>9. QED
    BY <2>3, <2>4, <2>5, <2>6, <2>7, <2>8
<1>6. ASSUME NEW c \in Callers, forkRead(c) PROVE IInv'
  <2>1. ticket[c] \in Readings /\ phase[ticket[c]] = "claimed"
    BY <1>6 DEF forkRead, Shares
  <2>2. TypeOK'
    BY <1>6 DEF forkRead, Live
  <2>3. SingleFlight' /\ OnlySuccessKept' /\ AnswersTheQuestion'
    BY <1>6, <2>1
       DEF forkRead, SingleFlight, OnlySuccessKept, AnswersTheQuestion, Live
  <2>4. Shares'
    BY <1>6, <2>1 DEF forkRead, Shares
  <2>5. ExitsInHand' /\ TurnCount'
    BY <1>6, <2>1 DEF forkRead, ExitsInHand, TurnCount
  <2>6. QED
    BY <2>2, <2>3, <2>4, <2>5
<1>7. ASSUME NEW c \in Callers, Await(c) PROVE IInv'
  <2>1. TypeOK'
    BY <1>7 DEF Await, Shares
  <2>2. Shares'
    BY <1>7 DEF Shares, Await
  <2>3. AnswersTheQuestion'
    BY <1>7 DEF AnswersTheQuestion, Await, Shares, ExitsInHand
  <2>4. QED
    BY <1>7, <2>1, <2>2, <2>3, CallerMoves DEF Await
<1>8. ASSUME NEW c \in Callers, Abandon(c) PROVE IInv'
  <2>1. TypeOK'
    BY <1>8 DEF Abandon, Leave
  <2>2. Shares'
    BY <1>8 DEF Shares, Abandon, Leave
  <2>3. AnswersTheQuestion'
    BY <1>8 DEF AnswersTheQuestion, Abandon, Leave
  <2>4. QED
    BY <1>8, <2>1, <2>2, <2>3, CallerMoves DEF Abandon, Leave
<1>9. ASSUME NEW r \in Readings, TakeTurn(r) PROVE IInv'
  <2>1. TypeOK'
    BY <1>9 DEF TakeTurn, Live
  <2>2. SingleFlight' /\ Shares' /\ AnswersTheQuestion'
    BY <1>9, ReadingMoves DEF TakeTurn
  <2>3. ExitsInHand'
    BY <1>9 DEF ExitsInHand, TakeTurn
  <2>4. OnlySuccessKept'
    BY <1>9 DEF OnlySuccessKept, TakeTurn
  <2>5. TurnCount'
    BY <1>9 DEF TurnCount, TakeTurn
  <2>6. QED
    BY <2>1, <2>2, <2>3, <2>4, <2>5
<1>10. ASSUME NEW r \in Readings, NEW s \in Statuses \cup Failures,
              phase[r] \in {"turn", "asking"}, AttemptFailed(r, s),
              UNCHANGED <<store, pending, callerVars, asked, turns>>,
              asks' \in [Readings -> Nat], asks'[r] <= turns[r],
              \A x \in Readings : x # r => asks'[x] = asks[x]
       PROVE  IInv'
  <2>1. CASE retrySchedule(r, s)
    <3>1. /\ retries[r] + 1 \in 0 .. Retries
          /\ retries' = [retries EXCEPT ![r] = retries[r] + 1]
          /\ phase' = [phase EXCEPT ![r] = "turn"]
          /\ outcome' = outcome
      BY <1>10, <2>1, RetryWithinPolicy DEF AttemptFailed
    <3>2. TypeOK'
      BY <1>10, <3>1 DEF Live
    <3>3. SingleFlight' /\ Shares' /\ AnswersTheQuestion'
      BY <1>10, <3>1, ReadingMoves
    <3>4. ExitsInHand' /\ OnlySuccessKept'
      BY <1>10, <3>1 DEF ExitsInHand, OnlySuccessKept
    <3>5. TurnCount'
      BY <1>10, <3>1 DEF TurnCount
    <3>6. QED
      BY <3>2, <3>3, <3>4, <3>5
  <2>2. CASE ~retrySchedule(r, s)
    <3>1. /\ outcome' = [outcome EXCEPT ![r] = [status |-> s, from |-> r]]
          /\ [status |-> s, from |-> r] \in Exits
          /\ phase' = [phase EXCEPT ![r] = "forgetting"]
          /\ retries' = retries
      BY <1>10, <2>2 DEF AttemptFailed, EndWith, Exits
    <3>2. TypeOK'
      BY <1>10, <3>1 DEF Live
    <3>3. SingleFlight' /\ Shares' /\ AnswersTheQuestion'
      BY <1>10, <3>1, ReadingMoves
    <3>4. ExitsInHand' /\ OnlySuccessKept'
      BY <1>10, <3>1 DEF ExitsInHand, OnlySuccessKept
    <3>5. TurnCount'
      BY <1>10, <3>1 DEF TurnCount
    <3>6. QED
      BY <3>2, <3>3, <3>4, <3>5
  <2>3. QED
    BY <2>1, <2>2
<1>11. ASSUME NEW r \in Readings, RefuseTurn(r) PROVE IInv'
  <2>1. asks[r] <= turns[r] /\ asks' = asks
    BY <1>11 DEF RefuseTurn, TurnCount
  <2>2. QED
    BY <1>10, <1>11, <2>1 DEF RefuseTurn, Failures
<1>12. ASSUME NEW r \in Readings, NEW s \in Fetch,
              Exchange(r, s)
       PROVE  IInv'
  <2>1. /\ phase[r] = "asking"
        /\ asks' = [asks EXCEPT ![r] = asks[r] + 1]
        /\ asks[r] + 1 \in Nat /\ asks[r] + 1 <= turns[r]
        /\ UNCHANGED <<store, pending, callerVars, asked, turns>>
    BY <1>12 DEF Exchange, TurnCount
  <2>2. CASE ~IsSuccessful(s)
    <3>1. AttemptFailed(r, s)
      BY <1>12, <2>2 DEF Exchange
    <3>2. QED
      BY <1>10, <2>1, <3>1 DEF Failures, Fetch
  <2>3. CASE IsSuccessful(s)
    <3>1. /\ outcome' = [outcome EXCEPT ![r] = [status |-> s, from |-> r]]
          /\ [status |-> s, from |-> r] \in Exits
          /\ s = "2xx"
          /\ phase' = [phase EXCEPT ![r] = "keeping"]
          /\ retries' = retries
      BY <1>12, <2>3 DEF Exchange, Exits, Failures, Fetch, IsSuccessful
    <3>2. TypeOK'
      BY <2>1, <3>1 DEF Live
    <3>3. SingleFlight' /\ Shares' /\ AnswersTheQuestion'
      BY <2>1, <3>1, ReadingMoves
    <3>4. ExitsInHand' /\ OnlySuccessKept'
      BY <2>1, <3>1 DEF ExitsInHand, OnlySuccessKept
    <3>5. TurnCount'
      BY <2>1, <3>1 DEF TurnCount
    <3>6. QED
      BY <3>2, <3>3, <3>4, <3>5
  <2>4. QED
    BY <2>2, <2>3
<1>13. ASSUME NEW r \in Readings, Keep(r) PROVE IInv'
  <2>1. TypeOK'
    BY <1>13 DEF Keep, KeepUnder, Live
  <2>2. SingleFlight' /\ Shares' /\ AnswersTheQuestion'
    BY <1>13, ReadingMoves DEF Keep, KeepUnder
  <2>3. ExitsInHand'
    BY <1>13 DEF ExitsInHand, Keep, KeepUnder
  <2>4. OnlySuccessKept'
    BY <1>13 DEF OnlySuccessKept, Keep, KeepUnder, ExitsInHand
  <2>5. TurnCount'
    BY <1>13 DEF TurnCount, Keep, KeepUnder
  <2>6. QED
    BY <2>1, <2>2, <2>3, <2>4, <2>5
<1>14. ASSUME NEW r \in Readings, KeepFails(r) PROVE IInv'
  <2>1. TypeOK'
    BY <1>14 DEF KeepFails, Live
  <2>2. SingleFlight' /\ Shares' /\ AnswersTheQuestion'
    BY <1>14, ReadingMoves DEF KeepFails
  <2>3. ExitsInHand'
    BY <1>14 DEF ExitsInHand, KeepFails
  <2>4. OnlySuccessKept'
    BY <1>14 DEF OnlySuccessKept, KeepFails, ExitsInHand
  <2>5. TurnCount'
    BY <1>14 DEF TurnCount, KeepFails
  <2>6. QED
    BY <2>1, <2>2, <2>3, <2>4, <2>5
<1>15. ASSUME NEW r \in Readings, MarshalFails(r) PROVE IInv'
  <2>1. TypeOK'
    BY <1>15 DEF MarshalFails, EndWith, Live, Exits, Failures
  <2>2. SingleFlight' /\ Shares' /\ AnswersTheQuestion'
    BY <1>15, ReadingMoves DEF MarshalFails, EndWith
  <2>3. ExitsInHand'
    BY <1>15 DEF ExitsInHand, MarshalFails, EndWith, Exits, Failures
  <2>4. OnlySuccessKept'
    BY <1>15 DEF OnlySuccessKept, MarshalFails, EndWith
  <2>5. TurnCount'
    BY <1>15 DEF TurnCount, MarshalFails, EndWith
  <2>6. QED
    BY <2>1, <2>2, <2>3, <2>4, <2>5
<1>16. ASSUME NEW r \in Readings, Die(r) PROVE IInv'
  <2>1. TypeOK'
    BY <1>16 DEF Die, EndWith, Live, Exits, Failures
  <2>2. SingleFlight' /\ Shares' /\ AnswersTheQuestion'
    BY <1>16, ReadingMoves DEF Die, EndWith
  <2>3. ExitsInHand'
    BY <1>16 DEF ExitsInHand, Die, EndWith, Exits, Failures
  <2>4. OnlySuccessKept'
    BY <1>16 DEF OnlySuccessKept, Die, EndWith
  <2>5. TurnCount'
    BY <1>16 DEF TurnCount, Die, EndWith
  <2>6. QED
    BY <2>1, <2>2, <2>3, <2>4, <2>5
<1>17. ASSUME NEW r \in Readings, forgetKey(r) PROVE IInv'
  <2>1. TypeOK'
    BY <1>17 DEF forgetKey
  <2>2. SingleFlight'
    BY <1>17 DEF SingleFlight, forgetKey, Live
  <2>3. Shares' /\ AnswersTheQuestion'
    BY <1>17 DEF Shares, AnswersTheQuestion, forgetKey
  <2>4. ExitsInHand' /\ OnlySuccessKept' /\ TurnCount'
    BY <1>17 DEF ExitsInHand, OnlySuccessKept, TurnCount, forgetKey
  <2>5. QED
    BY <2>1, <2>2, <2>3, <2>4
<1>18. ASSUME NEW r \in Readings, Complete(r) PROVE IInv'
  <2>1. TypeOK'
    BY <1>18 DEF Complete
  <2>2. SingleFlight'
    BY <1>18 DEF SingleFlight, Complete, Live
  <2>3. Shares' /\ AnswersTheQuestion'
    BY <1>18 DEF Shares, AnswersTheQuestion, Complete
  <2>4. ExitsInHand' /\ OnlySuccessKept' /\ TurnCount'
    BY <1>18 DEF ExitsInHand, OnlySuccessKept, TurnCount, Complete
  <2>5. QED
    BY <2>1, <2>2, <2>3, <2>4
<1>19. ASSUME NEW k \in Questions, Expire(k) PROVE IInv'
  <2>1. TypeOK'
    BY <1>19 DEF Expire
  <2>2. OnlySuccessKept'
    BY <1>19 DEF OnlySuccessKept, Expire
  <2>3. SingleFlight' /\ Shares' /\ ExitsInHand' /\ AnswersTheQuestion' /\ TurnCount'
    BY <1>19 DEF SingleFlight, Shares, ExitsInHand, AnswersTheQuestion, TurnCount, Expire
  <2>4. QED
    BY <2>1, <2>2, <2>3
<1>20. CASE UNCHANGED vars
  BY <1>20 DEF vars, SingleFlight, Shares, ExitsInHand, AnswersTheQuestion,
               OnlySuccessKept, TurnCount
<1>21. QED
  BY <1>1, <1>2, <1>3, <1>4, <1>5, <1>6, <1>7, <1>8, <1>9, <1>11, <1>12,
     <1>13, <1>14, <1>15, <1>16, <1>17, <1>18, <1>19, <1>20
     DEF Next, CallerStep, ReadingStep

(* The inductive invariant holds throughout.                               *)
THEOREM Invariance == Spec => []IInv
BY Initial, InductiveStep, PTL DEF Spec

(* Every variable keeps its type; in particular no reading is scheduled    *)
(* again more often than the retry policy says.                            *)
THEOREM TypeCorrect == Spec => []TypeOK
<1>1. IInv => TypeOK
  BY DEF IInv
<1>2. QED
  BY <1>1, Invariance, PTL

(* One reading per key, and every key in pending has one.                  *)
THEOREM SingleFlightCorrect == Spec => []SingleFlight
<1>1. IInv => SingleFlight
  BY DEF IInv
<1>2. QED
  BY <1>1, Invariance, PTL

(* Whatever a caller is handed answers the question it asked.              *)
THEOREM AnswersCorrect == Spec => []AnswersTheQuestion
<1>1. IInv => AnswersTheQuestion
  BY DEF IInv
<1>2. QED
  BY <1>1, Invariance, PTL

(* Only successful answers are kept, under the keys they answer.           *)
THEOREM StoreCorrect == Spec => []OnlySuccessKept
<1>1. IInv => OnlySuccessKept
  BY DEF IInv
<1>2. QED
  BY <1>1, Invariance, PTL

(* The service is never asked without a turn, nor more often than agreed.  *)
THEOREM PacingCorrect == Spec => []AskedInTurn
<1>1. IInv => AskedInTurn
  BY UpstreamAssumption DEF IInv, TypeOK, TurnCount, AskedInTurn
<1>2. QED
  BY <1>1, Invariance, PTL

-----------------------------------------------------------------------------
(* The reading coordinator implements the promise of SharedReading.        *)

(* Initially nothing is in flight, nobody shares, nothing has landed.      *)
LEMMA PromiseInitial == Init => Promise!Init
BY DEF Init, Promise!Init

(* Every step of the code is a step of the promise, or invisible to it.    *)
LEMMA PromiseStep == IInv /\ [Next]_vars => [Promise!Next]_(Promise!vars)
<1> SUFFICES ASSUME IInv, [Next]_vars PROVE [Promise!Next]_(Promise!vars)
  OBVIOUS
<1> DEFINE landed == [r \in Readings |-> IF phase[r] = "over" THEN outcome[r]
                                                           ELSE NoExit]
<1> USE UpstreamAssumption
    DEF IInv, TypeOK, Requests, callerVars, readingVars, cacheKey
<1>1. ASSUME NEW c \in Callers,
             \/ \E q \in Requests : FetchUpstream(c, q)
             \/ ReplayKept(c)
             \/ MissKept(c)
      PROVE  UNCHANGED Promise!vars
  BY <1>1 DEF FetchUpstream, ReplayKept, MissKept, Promise!vars
<1>2. ASSUME NEW c \in Callers, Join(c) PROVE Promise!Next
  <2>1. request[c].question \in Questions /\ pending[request[c].question] \in Readings
    BY <1>2 DEF Join
  <2>2. phase[pending[request[c].question]] # "over"
    BY <2>1 DEF SingleFlight, Live
  <2>3. ticket[c] = NoReading
    BY <1>2 DEF Join, Shares
  <2>4. Promise!Follow(c, request[c].question)
    BY <1>2, <2>1, <2>2, <2>3 DEF Join, Promise!Follow
  <2>5. QED
    BY <2>1, <2>4 DEF Promise!Next
<1>3. ASSUME NEW c \in Callers, NEW r \in Readings, Start(c, r) PROVE Promise!Next
  <2>1. phase[r] \in {"free", "over"} /\ \A d \in Callers : ticket[d] # r
    BY <1>3 DEF Start, Claim, Fresh
  <2>2. \A j \in Questions : pending[j] # r
    BY <2>1 DEF SingleFlight, Live
  <2>3. ticket[c] = NoReading
    BY <1>3 DEF Start, Claim, Shares
  <2>4. landed' = [landed EXCEPT ![r] = NoExit]
    BY <1>3, <2>1 DEF Start, Claim
  <2>5. Promise!Lead(c, request[c].question, r)
    BY <1>3, <2>1, <2>2, <2>3, <2>4 DEF Start, Claim, Promise!Lead
  <2>6. QED
    BY <2>5 DEF Promise!Next
<1>4. ASSUME NEW c \in Callers, forkRead(c) PROVE UNCHANGED Promise!vars
  <2>1. ticket[c] \in Readings /\ phase[ticket[c]] = "claimed"
    BY <1>4 DEF forkRead, Shares
  <2>2. landed' = landed
    BY <1>4, <2>1 DEF forkRead
  <2>3. QED
    BY <1>4, <2>2 DEF forkRead, Promise!vars
<1>5. ASSUME NEW c \in Callers, Await(c) \/ Abandon(c)
      PROVE  [Promise!Next]_(Promise!vars)
  <2>1. ticket' = [ticket EXCEPT ![c] = NoReading] /\ pending' = pending
        /\ phase' = phase /\ outcome' = outcome
    BY <1>5 DEF Await, Abandon, Leave
  <2>2. CASE ticket[c] = NoReading
    BY <2>1, <2>2 DEF Promise!vars
  <2>3. CASE ticket[c] # NoReading
    BY <2>1, <2>3 DEF Promise!Next, Promise!GiveBack
  <2>4. QED
    BY <2>2, <2>3
<1>6. ASSUME NEW r \in Readings, NEW p, phase[r] # "over", p # "over",
             phase' = [phase EXCEPT ![r] = p],
             outcome' = outcome \/ \E e : outcome' = [outcome EXCEPT ![r] = e],
             UNCHANGED <<pending, ticket>>
      PROVE  UNCHANGED Promise!vars
  <2>1. landed' = landed
    BY <1>6
  <2>2. QED
    BY <1>6, <2>1 DEF Promise!vars
<1>7. ASSUME NEW r \in Readings,
             \/ TakeTurn(r) \/ RefuseTurn(r)
             \/ \E s \in Fetch : Exchange(r, s)
             \/ Keep(r) \/ KeepFails(r) \/ MarshalFails(r) \/ Die(r)
      PROVE  UNCHANGED Promise!vars
  BY <1>6, <1>7 DEF TakeTurn, RefuseTurn, Exchange, AttemptFailed, EndWith,
                    Keep, KeepUnder, KeepFails, MarshalFails, Die
<1>8. ASSUME NEW r \in Readings, forgetKey(r) PROVE Promise!Next
  <2>1. asked[r].question \in Questions /\ pending[asked[r].question] = r
    BY <1>8 DEF forgetKey, SingleFlight, Live
  <2>2. landed' = landed
    BY <1>8 DEF forgetKey
  <2>3. Promise!Release(asked[r].question)
    BY <1>8, <2>1, <2>2 DEF forgetKey, Promise!Release
  <2>4. QED
    BY <2>1, <2>3 DEF Promise!Next
<1>9. ASSUME NEW r \in Readings, Complete(r) PROVE Promise!Next
  <2>1. \A k \in Questions : pending[k] # r
    BY <1>9 DEF Complete, SingleFlight, Live
  <2>2. PICK e \in Exits : e = outcome[r]
    BY <1>9 DEF Complete, ExitsInHand
  <2>3. landed[r] = NoExit /\ landed' = [landed EXCEPT ![r] = e]
    BY <1>9, <2>2 DEF Complete
  <2>4. Promise!Land(r, e)
    BY <1>9, <2>1, <2>3 DEF Complete, Promise!Land
  <2>5. QED
    BY <2>4 DEF Promise!Next
<1>10. ASSUME NEW k \in Questions, Expire(k) PROVE UNCHANGED Promise!vars
  BY <1>10 DEF Expire, Promise!vars
<1>11. CASE UNCHANGED vars
  BY <1>11 DEF vars, Promise!vars
<1>12. QED
  BY <1>1, <1>2, <1>3, <1>4, <1>5, <1>7, <1>8, <1>9, <1>10, <1>11
     DEF Next, CallerStep, ReadingStep

(* The detailed specification implements the promise: no caller joins a    *)
(* reading that has landed, a key is read by one reading at a time, and a  *)
(* reading lands once.                                                     *)
THEOREM Refinement == Spec => ImplementsPromise
BY PromiseInitial, PromiseStep, Invariance, PTL
   DEF Spec, ImplementsPromise, Promise!Spec
=============================================================================
