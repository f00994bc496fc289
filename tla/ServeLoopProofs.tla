-------------------------- MODULE ServeLoopProofs --------------------------
(***************************************************************************)
(* What a server gives back and tells when its scope closes, for any       *)
(* number of connections and whatever net/http does between two steps.     *)
(***************************************************************************)
EXTENDS ServeLoop, SequenceTheorems, TLAPS

(* How far ServeWith came.                                                 *)
Nothing   == <<>>
Listening == <<"listener">>
Reporting == <<"listener", "abandonment">>

(* A connection no shutdown waits for, and on which no request begins.     *)
Quiet(c) == conn[c] \in {"none", "hijacked", "closed"}

(* Who owns what: the port is held only by a scope that will release it,   *)
(* the fiber runs only while it is owned, and its report is read after it. *)
Ownership ==
  /\ owned \in {Nothing, Listening, Reporting, Acquired}
  /\ owned = Nothing => listener \in {"none", "closed"}
  /\ scope = "closed" => owned = Nothing
  /\ owned # Acquired => fiber \in {"none", "done"}
  /\ owned # Acquired /\ scope = "open" => fiber = "none"
  /\ owned \in {Nothing, Listening} => abandonment = <<>>

(* What a shutdown has done so far.                                        *)
Shutdown ==
  /\ cancelled => scope # "open"
  /\ fiber \in {"none", "forked", "selecting"} => ~inShutdown
  /\ inShutdown => cancelled
  /\ inShutdown /\ goroutine = "accepting" => listener = "closed"
  /\ abandonment \in {<<>>, <<"in-flight">>}
  /\ fiber \notin {"done"} => abandonment = <<>>
  /\ inShutdown /\ fiber \in {"reaping", "done"} =>
       \/ \A c \in Connections : Quiet(c)
       \/ abandonment = <<"in-flight">>
       \/ "in-flight" \in faults

Typed ==
  /\ inShutdown \in BOOLEAN /\ cancelled \in BOOLEAN
  /\ conn \in [Connections -> {"none", "new", "active", "idle", "hijacked", "closed"}]

(* Invariant by induction.                                                 *)
ServeInv == Typed /\ Ownership /\ Shutdown

-----------------------------------------------------------------------------
Things == {"listener", "abandonment", "fiber"}

(* ServeWith's progress is a sequence of things, told apart by its length. *)
LEMMA Progress ==
  /\ Nothing \in Seq(Things) /\ Len(Nothing) = 0
  /\ Listening \in Seq(Things) /\ Len(Listening) = 1 /\ Listening[1] = "listener"
  /\ Reporting \in Seq(Things) /\ Len(Reporting) = 2
  /\ Reporting[1] = "listener" /\ Reporting[2] = "abandonment"
  /\ Acquired \in Seq(Things) /\ Len(Acquired) = 3
  /\ Acquired[1] = "listener" /\ Acquired[2] = "abandonment" /\ Acquired[3] = "fiber"
<1>1. Nothing \in Seq(Things) /\ Len(Nothing) = 0
  BY DEF Nothing
<1>2. Listening \in Seq(Things) /\ Len(Listening) = 1 /\ Listening[1] = "listener"
  BY DEF Listening, Things
<1>3. Reporting \in Seq(Things)
  BY DEF Reporting, Things
<1>4. /\ Len(Reporting) = 2
      /\ Reporting[1] = "listener" /\ Reporting[2] = "abandonment"
  BY DEF Reporting
<1>5. Acquired \in Seq(Things)
  BY DEF Acquired, Things
<1>6. /\ Len(Acquired) = 3
      /\ Acquired[1] = "listener" /\ Acquired[2] = "abandonment" /\ Acquired[3] = "fiber"
  BY DEF Acquired
<1>7. QED
  BY <1>1, <1>2, <1>3, <1>4, <1>5, <1>6

(* No two stages of ServeWith's progress are the same.                     *)
LEMMA Distinct ==
  /\ Nothing # Listening /\ Nothing # Reporting /\ Nothing # Acquired
  /\ Listening # Reporting /\ Listening # Acquired /\ Reporting # Acquired
<1>1. Nothing # Listening
  BY Progress
<1>2. Nothing # Reporting
  BY Progress
<1>3. Nothing # Acquired
  BY DEF Nothing, Acquired
<1>4. Listening # Reporting
  BY Progress
<1>5. Listening # Acquired
  BY Progress
<1>6. Reporting # Acquired
  BY Progress
<1>7. QED
  BY <1>1, <1>2, <1>3, <1>4, <1>5, <1>6

(* Putting one thing on top of a sequence of things, and taking it off.    *)
LEMMA OneMore ==
  ASSUME NEW s \in Seq(Things), NEW t \in Seq(Things), NEW what \in Things,
         Len(t) = Len(s) + 1, \A i \in 1 .. Len(s) : t[i] = s[i], t[Len(t)] = what
  PROVE  Append(s, what) = t /\ Front(t) = s /\ Last(t) = what
<1>1. Append(s, what) = t
  <2>1. /\ Append(s, what) \in Seq(Things) /\ Len(Append(s, what)) = Len(t)
        /\ \A i \in 1 .. Len(s) : Append(s, what)[i] = s[i]
        /\ Append(s, what)[Len(s) + 1] = what
    BY AppendProperties
  <2>2. Len(s) \in Nat
    BY LenProperties
  <2>3. \A i \in 1 .. Len(t) : Append(s, what)[i] = t[i]
    BY <2>1, <2>2
  <2>4. QED
    BY <2>1, <2>3, SeqEqual
<1>2. Front(t) = s
  <2>1. Len(s) \in Nat /\ Len(t) - 1 = Len(s) /\ \A i \in 1 .. Len(s) : t[i] \in Things
    BY LenProperties, ElementOfSeq
  <2>2. /\ Front(t) \in Seq(Things) /\ Len(Front(t)) = Len(s)
        /\ \A i \in 1 .. Len(s) : Front(t)[i] = t[i]
    BY <2>1, SubSeqProperties DEF Front
  <2>3. QED
    BY <2>2, SeqEqual
<1>3. QED
  BY <1>1, <1>2 DEF Last

(* What ServeWith acquires next comes last, and the scope releases first   *)
(* what was acquired last.                                                 *)
LEMMA LastOwned ==
  /\ Last(Listening) = "listener" /\ Front(Listening) = Nothing
  /\ Append(Listening, "abandonment") = Reporting
  /\ Last(Reporting) = "abandonment" /\ Front(Reporting) = Listening
  /\ Append(Reporting, "fiber") = Acquired
  /\ Last(Acquired) = "fiber" /\ Front(Acquired) = Reporting
<1>1. \A i \in 1 .. Len(Nothing) : Listening[i] = Nothing[i]
  BY Progress
<1>2. \A i \in 1 .. Len(Listening) : Reporting[i] = Listening[i]
  BY Progress
<1>3. \A i \in 1 .. Len(Reporting) : Acquired[i] = Reporting[i]
  BY Progress
<1>4. Last(Listening) = "listener" /\ Front(Listening) = Nothing
  <2>1. "listener" \in Things /\ Len(Listening) = Len(Nothing) + 1
        /\ Listening[Len(Listening)] = "listener"
    BY Progress DEF Things
  <2>2. QED
    BY <1>1, <2>1, Progress, OneMore
<1>5. /\ Append(Listening, "abandonment") = Reporting
      /\ Last(Reporting) = "abandonment" /\ Front(Reporting) = Listening
  <2>1. "abandonment" \in Things /\ Len(Reporting) = Len(Listening) + 1
        /\ Reporting[Len(Reporting)] = "abandonment"
    BY Progress DEF Things
  <2>2. QED
    BY <1>2, <2>1, Progress, OneMore
<1>6. /\ Append(Reporting, "fiber") = Acquired
      /\ Last(Acquired) = "fiber" /\ Front(Acquired) = Reporting
  <2>1. "fiber" \in Things /\ Len(Acquired) = Len(Reporting) + 1
        /\ Acquired[Len(Acquired)] = "fiber"
    BY Progress DEF Things
  <2>2. QED
    BY <1>3, <2>1, Progress, OneMore
<1>7. QED
  BY <1>4, <1>5, <1>6

(* A release takes exactly one thing off the scope.                        *)
LEMMA ReleaseOne ==
  ASSUME Ownership, NEW what \in {"listener", "abandonment", "fiber"}, Release(what)
  PROVE  /\ what = "listener" => owned = Listening /\ owned' = Nothing
         /\ what = "abandonment" => owned = Reporting /\ owned' = Listening
         /\ what = "fiber" => owned = Acquired /\ owned' = Reporting /\ fiber = "done"
BY LastOwned DEF Ownership, Release, Nothing

(* Before listen nothing is owned and nothing runs.                        *)
LEMMA ServeInitial == Init => ServeInv
<1> SUFFICES ASSUME Init PROVE ServeInv
  OBVIOUS
<1>1. Typed /\ Shutdown
  BY DEF Init, Typed, Shutdown
<1>2. Ownership
  BY Distinct DEF Init, Ownership, Nothing
<1>3. QED
  BY <1>1, <1>2 DEF ServeInv

(* A step that leaves the scope, the listener, the fiber and its report    *)
(* alone leaves ownership alone.                                           *)
LEMMA OwnershipAlone ==
  ASSUME Ownership, UNCHANGED <<owned, listener, scope, fiber, abandonment>>
  PROVE  Ownership'
BY DEF Ownership

(* Every step preserves the invariant.                                     *)
LEMMA ServeStepKeeps == ServeInv /\ [Next]_vars => ServeInv'
<1> SUFFICES ASSUME ServeInv, [Next]_vars PROVE ServeInv'
  OBVIOUS
<1> USE DEF ServeInv, socketVars, scopeVars, loopVars, serverVars
<1>1. CASE listen
  <2>1. owned = Nothing /\ owned' = Listening
    BY <1>1 DEF listen, Nothing, Listening
  <2>2. Ownership'
    BY <1>1, <2>1, Distinct DEF listen, Ownership
  <2>3. Typed' /\ Shutdown'
    BY <1>1 DEF listen, Typed, Shutdown, Quiet
  <2>4. QED
    BY <2>2, <2>3
<1>2. CASE reportAbandonment
  <2>1. owned = Listening /\ owned' = Reporting
    BY <1>2, LastOwned DEF reportAbandonment, Listening
  <2>2. Ownership'
    BY <1>2, <2>1, Distinct DEF reportAbandonment, Ownership
  <2>3. Typed' /\ Shutdown'
    BY <1>2 DEF reportAbandonment, Typed, Shutdown, Quiet
  <2>4. QED
    BY <2>2, <2>3
<1>3. CASE ForkIn
  <2>1. owned = Reporting /\ owned' = Acquired
    BY <1>3, LastOwned DEF ForkIn, Reporting
  <2>2. fiber = "none" /\ ~inShutdown
    BY <1>3, <2>1, Distinct DEF ForkIn, Ownership, Shutdown
  <2>3. Ownership'
    BY <1>3, <2>1, Distinct DEF ForkIn, Ownership
  <2>4. Typed' /\ Shutdown'
    BY <1>3, <2>2 DEF ForkIn, Typed, Shutdown, Quiet
  <2>5. QED
    BY <2>3, <2>4
<1>4. CASE FiberStep
  <2>1. fiber \notin {"none", "done"}
    BY <1>4 DEF FiberStep, NeverRuns, serveLoop, loopExit, shutDown, ListenersGone,
       Drained, GraceRunsOut, ReapLoop
  <2>2. owned = Acquired
    BY <2>1 DEF Ownership
  <2>3. UNCHANGED <<owned, scope>>
    BY <1>4 DEF FiberStep, NeverRuns, serveLoop, loopExit, shutDown, ListenersGone,
       Drained, GraceRunsOut, ReapLoop
  <2>4. scope # "closed"
    BY <2>2, Distinct DEF Ownership
  <2>5. Ownership'
    BY <2>2, <2>3, <2>4, Distinct DEF Ownership
  <2>6. abandonment = <<>>
    BY <2>1 DEF Shutdown
  <2>7. CASE NeverRuns \/ loopExit
    BY <2>5, <2>7, <2>6 DEF NeverRuns, loopExit, EndFiber, Typed, Shutdown, Quiet
  <2>8. CASE serveLoop
    BY <2>5, <2>8 DEF serveLoop, Typed, Shutdown, Quiet
  <2>9. CASE shutDown
    BY <2>5, <2>9 DEF shutDown, Typed, Shutdown, Quiet
  <2>10. CASE ListenersGone
    BY <2>5, <2>10 DEF ListenersGone, Typed, Shutdown, Quiet
  <2>11. CASE Drained
    <3>1. Typed'
      BY <2>11 DEF Drained, Typed
    <3>2. \A c \in Connections : Quiet(c)'
      BY <2>11 DEF Drained, Quiet, Busy, Typed
    <3>3. abandonment' = <<>> \/ (abandonment' = <<"in-flight">> /\ fiber' = "done")
      BY <2>6, <2>11 DEF Drained, EndFiber
    <3>4. Shutdown'
      BY <2>11, <3>2, <3>3 DEF Drained, EndFiber, Shutdown
    <3>5. QED
      BY <2>5, <3>1, <3>4
  <2>12. CASE GraceRunsOut
    <3>1. abandonment' = <<"in-flight">>
      BY <2>6, <2>12 DEF GraceRunsOut
    <3>2. QED
      BY <2>5, <2>12, <3>1 DEF GraceRunsOut, EndFiber, Typed, Shutdown, Quiet
  <2>13. CASE ReapLoop
    BY <2>5, <2>13, <2>6 DEF ReapLoop, EndFiber, Typed, Shutdown, Quiet
  <2>14. QED
    BY <1>4, <2>7, <2>8, <2>9, <2>10, <2>11, <2>12, <2>13 DEF FiberStep
<1>5. CASE ServeStep
  <2>1. UNCHANGED <<owned, scope, faults, fiber, abandonment, cancelled, inShutdown, conn>>
    BY <1>5 DEF ServeStep, Serve, AcceptFails, SendEnd
  <2>2. listener' \in {listener, "closed"}
    BY <1>5 DEF ServeStep, Serve, AcceptFails, SendEnd
  <2>3. inShutdown /\ goroutine' = "accepting" => goroutine = "accepting"
    BY <1>5 DEF ServeStep, Serve, AcceptFails, SendEnd
  <2>4. Ownership'
    BY <2>1, <2>2 DEF Ownership
  <2>5. Typed' /\ Shutdown'
    BY <2>1, <2>2, <2>3 DEF Typed, Shutdown, Quiet
  <2>6. QED
    BY <2>4, <2>5
<1>6. CASE AwaitFiber
  <2>1. owned = Acquired /\ owned' = Reporting /\ fiber = "done" /\ scope = "closing"
    BY <1>6, ReleaseOne DEF AwaitFiber, Release
  <2>2. UNCHANGED <<settings, listener, scope, faults, loopVars, serverVars, conn>>
    BY <1>6 DEF AwaitFiber, Release
  <2>3. Ownership'
    BY <2>1, <2>2, Distinct DEF Ownership
  <2>4. Typed' /\ Shutdown'
    BY <2>2 DEF Typed, Shutdown, Quiet
  <2>5. QED
    BY <2>3, <2>4
<1>7. CASE SurfaceAbandonment
  <2>1. owned = Reporting /\ owned' = Listening /\ scope = "closing"
    BY <1>7, ReleaseOne DEF SurfaceAbandonment, Release
  <2>2. /\ UNCHANGED <<listener, scope, fiber, cancelled, inShutdown, goroutine, conn>>
        /\ abandonment' = <<>> /\ faults' = faults \cup ToSet(abandonment)
    BY <1>7 DEF SurfaceAbandonment, Release
  <2>3. abandonment = <<"in-flight">> => "in-flight" \in faults'
    BY <2>2 DEF ToSet
  <2>4. Ownership'
    BY <2>1, <2>2, Distinct DEF Ownership
  <2>5. Typed' /\ Shutdown'
    BY <2>2, <2>3 DEF Typed, Shutdown, Quiet
  <2>6. QED
    BY <2>4, <2>5
<1>8. CASE closeListener
  <2>1. owned = Listening /\ owned' = Nothing /\ scope = "closing"
    BY <1>8, ReleaseOne DEF closeListener, Release
  <2>2. /\ UNCHANGED <<scope, fiber, abandonment, cancelled, inShutdown, goroutine, conn>>
        /\ listener' = "closed" /\ faults \subseteq faults'
    BY <1>8 DEF closeListener, Release
  <2>3. Ownership'
    BY <2>1, <2>2, Distinct DEF Ownership
  <2>4. Typed' /\ Shutdown'
    BY <2>2 DEF Typed, Shutdown, Quiet
  <2>5. QED
    BY <2>3, <2>4
<1>9. CASE Closed
  <2>1. Ownership'
    BY <1>9 DEF Closed, Ownership, Nothing
  <2>2. Typed' /\ Shutdown'
    BY <1>9 DEF Closed, Typed, Shutdown, Quiet
  <2>3. QED
    BY <2>1, <2>2
<1>10. CASE Close
  <2>1. Ownership'
    BY <1>10 DEF Close, Ownership
  <2>2. Typed' /\ Shutdown'
    BY <1>10 DEF Close, Typed, Shutdown, Quiet
  <2>3. QED
    BY <2>1, <2>2
<1>11. CASE ListenerBreaks
  <2>1. owned # Nothing
    BY <1>11 DEF ListenerBreaks, Ownership
  <2>2. Ownership'
    BY <1>11, <2>1 DEF ListenerBreaks, Ownership
  <2>3. Typed' /\ Shutdown'
    BY <1>11 DEF ListenerBreaks, Typed, Shutdown, Quiet
  <2>4. QED
    BY <2>2, <2>3
<1>12. ASSUME NEW c \in Connections,
              Accept(c) \/ Request(c) \/ Respond(c) \/ Hijack(c) \/ Hangup(c)
       PROVE  ServeInv'
  <2>1. UNCHANGED <<socketVars, scopeVars, loopVars, serverVars>>
    BY <1>12 DEF Accept, Request, Respond, Hijack, Hangup, SetConn
  <2>2. Ownership'
    BY <2>1, OwnershipAlone
  <2>3. Typed'
    BY <1>12, <2>1 DEF Accept, Request, Respond, Hijack, Hangup, SetConn, Typed
  <2>4. inShutdown /\ (\A x \in Connections : Quiet(x)) =>
          \A x \in Connections : Quiet(x)'
    BY <1>12 DEF Accept, Request, Respond, Hijack, Hangup, SetConn, Typed, Quiet, Shutdown
  <2>5. Shutdown'
    BY <2>1, <2>4 DEF Shutdown
  <2>6. QED
    BY <2>2, <2>3, <2>5
<1>13. CASE UNCHANGED vars
  BY <1>13 DEF vars, Typed, Ownership, Shutdown, Quiet
<1>14. QED
  BY <1>1, <1>2, <1>3, <1>4, <1>5, <1>6, <1>7, <1>8, <1>9, <1>10, <1>11, <1>12, <1>13
     DEF Next, ScopeStep

(* The invariant holds in every state of the server.                       *)
LEMMA ServeInvariant == Spec => []ServeInv
BY ServeInitial, ServeStepKeeps, PTL DEF Spec

(* A caller that forgets its server cannot leak the listener: the port is  *)
(* given back however far ServeWith came (server.go).                      *)
THEOREM PortCorrect == Spec => []PortGivenBack
<1>1. ServeInv => PortGivenBack
  BY DEF ServeInv, Ownership, PortGivenBack
<1>2. QED
  BY <1>1, ServeInvariant, PTL

(* A shutdown that leaves requests behind reports them when the scope is   *)
(* closed (serve_loop.go, shutDown).                                       *)
THEOREM DrainCorrect == Spec => []ShutdownDrains
<1>1. ServeInv => ShutdownDrains
  <2> SUFFICES ASSUME ServeInv, scope = "closed", inShutdown,
                      NEW c \in Connections, Busy(c)
               PROVE  "in-flight" \in faults
    BY DEF ShutdownDrains
  <2>1. owned = Nothing /\ abandonment = <<>> /\ fiber \in {"none", "done"}
    BY Distinct DEF ServeInv, Ownership
  <2>2. fiber = "done"
    BY <2>1 DEF ServeInv, Shutdown
  <2>3. ~Quiet(c)
    BY DEF Quiet, Busy
  <2>4. QED
    BY <2>1, <2>2, <2>3 DEF ServeInv, Shutdown
<1>2. QED
  BY <1>1, ServeInvariant, PTL

(* Once a scope has closed with nothing abandoned, no connection of the    *)
(* server it shut down becomes active.                                     *)
THEOREM NoLateStartCorrect == Spec => NoLateStart
<1>1. ServeInv /\ [Next]_vars =>
        [\A c \in Connections :
           scope = "closed" /\ inShutdown /\ "in-flight" \notin faults /\ conn[c] # "active"
             => conn'[c] # "active"]_vars
  <2> SUFFICES ASSUME ServeInv, Next, scope = "closed", inShutdown,
                      "in-flight" \notin faults, NEW c \in Connections
               PROVE  conn'[c] # "active"
    OBVIOUS
  <2>1. owned = Nothing /\ abandonment = <<>> /\ fiber = "done"
    BY Distinct DEF ServeInv, Ownership, Shutdown
  <2>2. \A x \in Connections : Quiet(x)
    BY <2>1 DEF ServeInv, Shutdown
  <2>3. conn \in [Connections -> {"none", "new", "active", "idle", "hijacked", "closed"}]
    BY DEF ServeInv, Typed
  <2>4. ASSUME NEW x \in Connections,
               Accept(x) \/ Request(x) \/ Respond(x) \/ Hijack(x) \/ Hangup(x)
        PROVE  conn'[c] # "active"
    BY <2>2, <2>3, <2>4 DEF Accept, Request, Respond, Hijack, Hangup, SetConn, Quiet
  <2>5. CASE UNCHANGED conn
    BY <2>2, <2>5 DEF Quiet
  <2>6. ~FiberStep
    BY <2>1 DEF FiberStep, NeverRuns, serveLoop, loopExit, shutDown, ListenersGone,
       Drained, GraceRunsOut, ReapLoop
  <2>7. QED
    BY <2>4, <2>5, <2>6 DEF Next, listen, reportAbandonment, ForkIn, ServeStep, Serve,
       AcceptFails, SendEnd, ScopeStep, AwaitFiber, SurfaceAbandonment, closeListener,
       Release, Closed, Close, ListenerBreaks
<1>2. QED
  BY <1>1, ServeInvariant, PTL DEF Spec, NoLateStart
=============================================================================
