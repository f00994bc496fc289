----------------------------- MODULE ServeLoop -----------------------------
(***************************************************************************)
(* A server owned by a scope (web/server.go, web/serve_loop.go): opening   *)
(* the socket, forking the serve loop, the race between the accept loop    *)
(* ending and the scope closing, graceful shutdown with or without a       *)
(* bound, and the order in which the scope gives back what it owns.        *)
(*                                                                         *)
(* net/http and the effect runtime are external: Serve, Shutdown and the   *)
(* connection states are modelled as far as the loop can tell them apart,  *)
(* and a scope releases what it owns last-acquired first.                  *)
(***************************************************************************)
EXTENDS Naturals, Sequences, SequencesExt, FiniteSets

CONSTANT Connections    \* the connections clients open

ASSUME ServeAssumption == IsFiniteSet(Connections)

VARIABLES
  settings,    \* [usable, grace]: whether there is a socket to open, whether Grace > 0
  owned,       \* what the scope has to release, in the order it was acquired
  scope,       \* "open", "closing" or "closed"
  faults,      \* what the scope's closing reports
  listener,    \* "none", "open", "broken" (failing under the loop) or "closed"
  fiber,       \* where the serve fiber is
  exit,        \* how the serve fiber ended
  goroutine,   \* where the goroutine running Serve is
  reason,      \* why Serve returned
  end,         \* loop.end, a channel of capacity 1
  abandonment, \* a channel of capacity 1
  cancelled,   \* the serve fiber's context is done
  inShutdown,  \* Server.Shutdown has been called
  lnerr,       \* the error Shutdown met closing the listener, if any
  conn         \* net/http's state of each connection

socketVars == <<settings, listener>>
scopeVars  == <<owned, scope, faults>>
loopVars   == <<fiber, exit, end, abandonment, cancelled>>
serverVars == <<goroutine, reason, inShutdown, lnerr>>
vars == <<socketVars, scopeVars, loopVars, serverVars, conn>>

Acquired == <<"listener", "abandonment", "fiber">>

(* A connection net/http counts as busy: shutdown waits for these.         *)
Busy(c) == conn[c] \in {"new", "active"}

(* The values each variable takes.                                         *)
TypeOK ==
  /\ settings \in [usable : BOOLEAN, grace : BOOLEAN]
  /\ IsPrefix(owned, Acquired)
  /\ scope \in {"open", "closing", "closed"}
  /\ faults \subseteq {"in-flight", "close"}
  /\ listener \in {"none", "open", "broken", "closed"}
  /\ fiber \in {"none", "forked", "selecting", "stopping", "draining", "reaping", "done"}
  /\ exit \in {"none", "success", "failure", "interrupted"}
  /\ goroutine \in {"none", "spawned", "accepting", "returning", "gone"}
  /\ reason \in {"none", "closed", "error"}
  /\ end \in Seq({"closed", "error"}) /\ Len(end) <= 1
  /\ abandonment \in Seq({"in-flight"}) /\ Len(abandonment) <= 1
  /\ cancelled \in BOOLEAN /\ inShutdown \in BOOLEAN /\ lnerr \in BOOLEAN
  /\ conn \in [Connections -> {"none", "new", "active", "idle", "hijacked", "closed"}]

Init ==
  /\ settings \in [usable : BOOLEAN, grace : BOOLEAN]
  /\ owned = <<>> /\ scope = "open" /\ faults = {}
  /\ listener = "none"
  /\ fiber = "none" /\ exit = "none"
  /\ goroutine = "none" /\ reason = "none"
  /\ end = <<>> /\ abandonment = <<>>
  /\ cancelled = FALSE /\ inShutdown = FALSE /\ lnerr = FALSE
  /\ conn = [c \in Connections |-> "none"]

-----------------------------------------------------------------------------
(* ServeWith, one effect at a time: the program may be interrupted between *)
(* any two of them.                                                        *)

(* Without a listener or an address, listen fails and nothing is owned.    *)
listen ==
  /\ scope = "open" /\ owned = <<>>
  /\ settings.usable
  /\ listener' = "open"
  /\ owned' = <<"listener">>
  /\ UNCHANGED <<settings, scope, faults, loopVars, serverVars, conn>>

reportAbandonment ==
  /\ scope = "open" /\ owned = <<"listener">>
  /\ owned' = Append(owned, "abandonment")
  /\ UNCHANGED <<socketVars, scope, faults, loopVars, serverVars, conn>>

ForkIn ==
  /\ scope = "open" /\ owned = <<"listener", "abandonment">>
  /\ owned' = Append(owned, "fiber")
  /\ fiber' = "forked"
  /\ UNCHANGED <<socketVars, scope, faults, exit, end, abandonment, cancelled,
                 serverVars, conn>>

-----------------------------------------------------------------------------
(* The serve fiber.                                                        *)

EndFiber(how) == fiber' = "done" /\ exit' = how

(* Interrupted before it ran: nothing was started.                         *)
NeverRuns ==
  /\ fiber = "forked" /\ cancelled
  /\ EndFiber("interrupted")
  /\ UNCHANGED <<socketVars, scopeVars, end, abandonment, cancelled, serverVars, conn>>

serveLoop ==
  /\ fiber = "forked"
  /\ fiber' = "selecting"
  /\ goroutine' = "spawned"
  /\ UNCHANGED <<socketVars, scopeVars, exit, end, abandonment, cancelled,
                 reason, inShutdown, lnerr, conn>>

(* The accept loop ended by itself.                                        *)
loopExit ==
  /\ fiber = "selecting" /\ end # <<>>
  /\ EndFiber(IF Head(end) = "closed" THEN "success" ELSE "failure")
  /\ end' = <<>>
  /\ UNCHANGED <<socketVars, scopeVars, abandonment, cancelled, serverVars, conn>>

(* The context is done; select may choose this though end is ready too.    *)
(* Shutdown stops accepting: it closes the listener the loop is tracking.  *)
shutDown ==
  /\ fiber = "selecting" /\ cancelled
  /\ fiber' = "stopping"
  /\ inShutdown' = TRUE
  /\ lnerr' = (goroutine = "accepting" /\ listener = "broken")
  /\ listener' = IF goroutine = "accepting" THEN "closed" ELSE listener
  /\ UNCHANGED <<settings, scopeVars, exit, end, abandonment, cancelled,
                 goroutine, reason, conn>>

(* Shutdown waits for Serve to stop tracking its listener.                 *)
ListenersGone ==
  /\ fiber = "stopping" /\ goroutine # "accepting"
  /\ fiber' = "draining"
  /\ UNCHANGED <<socketVars, scopeVars, exit, end, abandonment, cancelled,
                 serverVars, conn>>

(* A wrong variant: the requests in flight are not waited for.             *)
DrainedAtOnce ==
  /\ fiber = "draining"
  /\ fiber' = "reaping"
  /\ UNCHANGED <<socketVars, scopeVars, exit, end, abandonment, cancelled, serverVars, conn>>

(* Shutdown finds no busy connection and closes the idle ones.  An error   *)
(* from closing the listener is its result even so.                        *)
Drained ==
  /\ fiber = "draining"
  /\ \A c \in Connections : ~Busy(c)
  /\ conn' = [c \in Connections |-> IF conn[c] = "idle" THEN "closed" ELSE conn[c]]
  /\ IF lnerr
     THEN /\ Len(abandonment) < 1
          /\ abandonment' = Append(abandonment, "in-flight")
          /\ EndFiber("success")
     ELSE fiber' = "reaping" /\ UNCHANGED <<exit, abandonment>>
  /\ UNCHANGED <<socketVars, scopeVars, end, cancelled, serverVars>>

(* A wrong variant: the shutdown reports nothing.                          *)
GraceRunsOutQuietly ==
  /\ fiber = "draining" /\ settings.grace
  /\ EndFiber("success")
  /\ UNCHANGED <<socketVars, scopeVars, end, abandonment, cancelled, serverVars, conn>>

(* A wrong variant: the channel has no buffer, and nobody reads it until   *)
(* the fiber is done.                                                      *)
GraceRunsOutUnbuffered ==
  /\ fiber = "draining" /\ settings.grace
  /\ "fiber" \notin ToSet(owned)
  /\ abandonment' = Append(abandonment, "in-flight")
  /\ EndFiber("success")
  /\ UNCHANGED <<socketVars, scopeVars, end, cancelled, serverVars, conn>>

(* The grace period ended first: the fault is sent, and the accept loop is *)
(* not waited for.                                                         *)
GraceRunsOut ==
  /\ fiber = "draining" /\ settings.grace
  /\ Len(abandonment) < 1
  /\ abandonment' = Append(abandonment, "in-flight")
  /\ EndFiber("success")
  /\ UNCHANGED <<socketVars, scopeVars, end, cancelled, serverVars, conn>>

(* <-loop.end, whatever it says.                                           *)
ReapLoop ==
  /\ fiber = "reaping" /\ end # <<>>
  /\ end' = <<>>
  /\ EndFiber("success")
  /\ UNCHANGED <<socketVars, scopeVars, abandonment, cancelled, serverVars, conn>>

-----------------------------------------------------------------------------
(* The goroutine running net/http's Serve.                                 *)

(* Serve refuses to start on a server already shut down; it closes the     *)
(* listener on its way out either way.                                     *)
Serve ==
  /\ goroutine = "spawned"
  /\ IF inShutdown
     THEN goroutine' = "returning" /\ reason' = "closed" /\ listener' = "closed"
     ELSE goroutine' = "accepting" /\ UNCHANGED <<reason, listener>>
  /\ UNCHANGED <<settings, scopeVars, loopVars, inShutdown, lnerr, conn>>

Accept(c) ==
  /\ goroutine = "accepting" /\ listener = "open"
  /\ conn[c] = "none"
  /\ conn' = [conn EXCEPT ![c] = "new"]
  /\ UNCHANGED <<socketVars, scopeVars, loopVars, serverVars>>

AcceptFails ==
  /\ goroutine = "accepting" /\ listener \in {"broken", "closed"}
  /\ reason' = IF inShutdown THEN "closed" ELSE "error"
  /\ goroutine' = "returning"
  /\ listener' = "closed"
  /\ UNCHANGED <<settings, scopeVars, loopVars, inShutdown, lnerr, conn>>

(* loop.end <- ...: the buffer means this never waits for a reader.        *)
SendEnd ==
  /\ goroutine = "returning" /\ end = <<>>
  /\ end' = Append(end, reason)
  /\ goroutine' = "gone"
  /\ UNCHANGED <<socketVars, scopeVars, fiber, exit, abandonment, cancelled,
                 reason, inShutdown, lnerr, conn>>

(* The socket fails, or the caller who supplied it closes it.              *)
ListenerBreaks ==
  /\ listener = "open"
  /\ listener' = "broken"
  /\ UNCHANGED <<settings, scopeVars, loopVars, serverVars, conn>>

(* A connection, served by a goroutine of net/http's own.                  *)
SetConn(c, from, to) ==
  /\ conn[c] \in from
  /\ conn' = [conn EXCEPT ![c] = to]
  /\ UNCHANGED <<socketVars, scopeVars, loopVars, serverVars>>

Request(c) == SetConn(c, {"new", "idle"}, "active")
Respond(c) == SetConn(c, {"active"}, IF inShutdown THEN "closed" ELSE "idle")
Hijack(c)  == SetConn(c, {"active"}, "hijacked")
Hangup(c)  == SetConn(c, {"new", "idle", "hijacked"}, "closed")

-----------------------------------------------------------------------------
(* The scope.                                                              *)

(* The program ends or is interrupted, at any point of ServeWith or after. *)
Close ==
  /\ scope = "open"
  /\ scope' = "closing"
  /\ cancelled' = (owned = Acquired)
  /\ UNCHANGED <<socketVars, owned, faults, fiber, exit, end, abandonment,
                 serverVars, conn>>

(* Last acquired, first released.  A fiber is awaited.                     *)
Release(what) ==
  /\ scope = "closing" /\ owned # <<>> /\ Last(owned) = what
  /\ what = "fiber" => fiber = "done"
  /\ owned' = Front(owned)
  /\ UNCHANGED <<settings, scope, fiber, exit, end, cancelled, serverVars, conn>>

AwaitFiber ==
  /\ Release("fiber")
  /\ UNCHANGED <<listener, abandonment, faults>>

(* The finalizer reads the channel without waiting.                        *)
SurfaceAbandonment ==
  /\ Release("abandonment")
  /\ faults' = faults \cup ToSet(abandonment)
  /\ abandonment' = <<>>
  /\ UNCHANGED listener

(* A wrong variant: the socket is left to Shutdown, which has usually      *)
(* closed it already.                                                      *)
closeListenerIfServed ==
  /\ Release("listener")
  /\ listener' = IF goroutine = "none" THEN listener ELSE "closed"
  /\ UNCHANGED <<abandonment, faults>>

(* A listener that is closed already is not a failure; any other error is. *)
closeListener ==
  /\ Release("listener")
  /\ listener' = "closed"
  /\ \/ UNCHANGED faults
     \/ listener # "closed" /\ faults' = faults \cup {"close"}
  /\ UNCHANGED abandonment

Closed ==
  /\ scope = "closing" /\ owned = <<>>
  /\ scope' = "closed"
  /\ UNCHANGED <<socketVars, owned, faults, loopVars, serverVars, conn>>

-----------------------------------------------------------------------------
FiberStep == \/ NeverRuns \/ serveLoop \/ loopExit \/ shutDown
             \/ ListenersGone \/ Drained \/ GraceRunsOut \/ ReapLoop
ServeStep == Serve \/ AcceptFails \/ SendEnd
ScopeStep == AwaitFiber \/ SurfaceAbandonment \/ closeListener \/ Closed

Next ==
  \/ listen \/ reportAbandonment \/ ForkIn
  \/ FiberStep \/ ServeStep \/ ScopeStep
  \/ Close \/ ListenerBreaks
  \/ \E c \in Connections :
       Accept(c) \/ Request(c) \/ Respond(c) \/ Hijack(c) \/ Hangup(c)

Spec == Init /\ [][Next]_vars

(* The goroutines and the timer run; nothing is assumed of handlers or of  *)
(* clients, and nothing makes the program close its scope.                 *)
Fairness == WF_vars(FiberStep) /\ WF_vars(ServeStep) /\ WF_vars(ScopeStep)

FairSpec == Spec /\ Fairness

-----------------------------------------------------------------------------
(* Properties.                                                             *)

(* "a caller that forgets it cannot leak a listener" (server.go): however  *)
(* far ServeWith came before the scope closed, the port is given back.     *)
PortGivenBack == scope = "closed" => listener \in {"none", "closed"}

(* A shutdown that left requests behind says so: when the scope of a       *)
(* server that was shut down is closed, either no connection is busy or    *)
(* the closing cause holds the fault.                                      *)
ShutdownDrains ==
  scope = "closed" /\ inShutdown /\ (\E c \in Connections : Busy(c))
    => "in-flight" \in faults

(* After a clean shutdown no handler starts: no connection becomes active  *)
(* once the scope that shut its server down closed with nothing abandoned. *)
NoLateStart ==
  [][\A c \in Connections :
       scope = "closed" /\ inShutdown /\ "in-flight" \notin faults /\ conn[c] # "active"
         => conn'[c] # "active"]_vars

(* Closing a scope ends: always when a grace period is set, and without    *)
(* one unless some connection stays busy for ever.                         *)
CloseEnds ==
  scope = "closing" ~>
    (scope = "closed" \/ (~settings.grace /\ \E c \in Connections : [](Busy(c))))

(* "Closing the scope stops the listener and waits for the requests        *)
(* already in flight" (server.go:54).                                      *)
ClosingWaits ==
  scope = "closed" /\ (\E c \in Connections : conn[c] = "active")
    => "in-flight" \in faults
=============================================================================
