---------------------------- MODULE Conversation ---------------------------
(***************************************************************************)
(* Websocket conversations with the tally (websocket/accept.go, dial.go,   *)
(* inbound.go, socket.go, value.go and examples/tally/tally.go): clients   *)
(* that dial, send and receive inside a scope, and for each of them a      *)
(* server side that reads changes, applies them to one shared total and    *)
(* answers with it, until somebody says goodbye, something breaks or       *)
(* either side is interrupted.  Both sides own their socket by a scope     *)
(* whose release says goodbye first.                                       *)
(*                                                                         *)
(* The connection is external (github.com/coder/websocket): frames arrive  *)
(* in order and a goodbye is answered with a goodbye by whoever reads it;  *)
(* a context cancelled under a read or a write takes the connection away,  *)
(* and Close waits for the peer's goodbye, but not for ever.               *)
(***************************************************************************)
EXTENDS Integers, Sequences, SequencesExt, FiniteSets, FiniteSetsExt

CONSTANTS
  Conversations,
  Raw,           \* those whose client uses the socket itself; the others only Ask
  Adds,          \* the changes a client may send
  MaxSends,      \* bound: messages each client sends
  Buffer         \* bound: frames the connection holds for a client that does not read

ASSUME ConversationAssumption ==
  /\ IsFiniteSet(Conversations) /\ Raw \subseteq Conversations /\ Adds \subseteq Int
  /\ MaxSends \in [Conversations -> Nat] /\ Buffer \in Nat \ {0}

VARIABLES
  total,     \* the Ref the conversations share
  client,    \* where each client is
  server,    \* where each server side is
  up, down,  \* the frames on their way to the server and to the client
  held,      \* the change a server side is applying, then the total it answers with
  ending,      \* how each server side's conversation ended
  reported,   \* what the boundary reported of it
  cut,       \* conversations whose connection somebody or something took away
  sent,      \* what each client sent, in order
  applied,   \* [add, total] of each change a server side applied, in order
  heard      \* the totals each client received, in order

wireVars    == <<up, down, cut>>
historyVars == <<sent, applied, heard>>
vars == <<total, client, server, held, ending, reported, wireVars, historyVars>>

Garbled == [says |-> "garbled"]
Bye     == [says |-> "bye"]
Eof     == [says |-> "eof"]
Cancelled == [says |-> "cancelled"]   \* what a read gets whose context is done
Value(n) == [says |-> "value", n |-> n]

(* The values each variable takes.                                         *)
TypeOK ==
  /\ total \in Int
  /\ client \in [Conversations -> {"out", "ready", "reading", "goodbye", "gone"}]
  /\ server \in [Conversations -> {"none", "reading", "applying", "answering",
                                   "leaving", "goodbye", "done"}]
  /\ \A k \in Conversations :
       /\ \A frame \in ToSet(up[k]) \cup ToSet(down[k]) :
            frame \in {Garbled, Bye, Eof} \/ (frame = Value(frame.n) /\ frame.n \in Int)
       /\ Len(down[k]) <= Buffer + 2 /\ Len(sent[k]) <= MaxSends[k]
  /\ held \in [Conversations -> Int]
  /\ ending \in [Conversations -> {"none", "success", "failure", "interrupted"}]
  /\ reported \in [Conversations -> 0 .. 1]
  /\ cut \subseteq Conversations

Init ==
  /\ total = 0
  /\ client = [k \in Conversations |-> "out"] /\ server = [k \in Conversations |-> "none"]
  /\ up = [k \in Conversations |-> <<>>] /\ down = [k \in Conversations |-> <<>>]
  /\ held = [k \in Conversations |-> 0]
  /\ ending = [k \in Conversations |-> "none"]
  /\ reported = [k \in Conversations |-> 0]
  /\ cut = {}
  /\ sent = [k \in Conversations |-> <<>>] /\ applied = [k \in Conversations |-> <<>>]
  /\ heard = [k \in Conversations |-> <<>>]

ClientTo(k, where) == client' = [client EXCEPT ![k] = where]
ServerTo(k, where) == server' = [server EXCEPT ![k] = where]

(* A side that goes reads no more: what was on its way to it is dropped.   *)
ClientGoes(k) == ClientTo(k, "gone") /\ down' = [down EXCEPT ![k] = <<>>]

-----------------------------------------------------------------------------
(* The connection.                                                         *)

(* A side that has closed its socket neither reads nor writes any more.    *)
ClientGone(k) == client[k] = "gone"
ServerGone(k) == server[k] = "done"

(* Whatever is on the wire after the end of a stream is never read, and    *)
(* nothing is by a side that has gone.                                     *)
Carry(q, frame) == IF q # <<>> /\ Last(q) = Eof THEN q ELSE Append(q, frame)

SendUp(k, frame)   == up' = [up EXCEPT ![k] = IF ServerGone(k) THEN <<>> ELSE Carry(@, frame)]
SendDown(k, frame) == down' = [down EXCEPT ![k] = IF ClientGone(k) THEN <<>> ELSE Carry(@, frame)]
TakeUp(k)   == up' = [up EXCEPT ![k] = Tail(@)]
TakeDown(k) == down' = [down EXCEPT ![k] = Tail(@)]

(* The network fails under the conversation, with what it carried.         *)
Break(k) ==
  /\ client[k] \notin {"out", "gone"} /\ server[k] # "done" /\ k \notin cut
  /\ cut' = cut \cup {k}
  /\ up' = [up EXCEPT ![k] = <<Eof>>] /\ down' = [down EXCEPT ![k] = <<Eof>>]
  /\ UNCHANGED <<total, client, server, held, ending, reported, historyVars>>

-----------------------------------------------------------------------------
(* The client, inside its scope.                                           *)

(* Dial and Accept: an upgrade that is refused has been answered already   *)
(* and leaves no socket on either side.                                    *)
Dial(k) ==
  /\ client[k] = "out"
  /\ \/ ClientTo(k, "ready") /\ ServerTo(k, "reading")
     \/ ClientTo(k, "gone") /\ ServerTo(k, "done")
  /\ UNCHANGED <<total, held, ending, reported, wireVars, historyVars>>

(* A wrong variant: nobody hangs up.                                       *)
ForgetToHangUp(k) == ClientGoes(k) /\ UNCHANGED up

(* closeSocket, as the client's scope closes: a goodbye, and a connection  *)
(* that cannot carry one goes.                                             *)
HangUp(k) ==
  IF k \in cut \/ ServerGone(k)
  THEN ClientGoes(k) /\ SendUp(k, Eof)
  ELSE ClientTo(k, "goodbye") /\ SendUp(k, Bye) /\ UNCHANGED down

(* Send, from SendValue or SendText: written, or a fault that ends the     *)
(* client's effect.  A write to a peer that has gone may also go unnoticed,*)
(* which changes nothing.  Ask goes on to the answer.                      *)
Send(k, frame) ==
  /\ client[k] = "ready" /\ Len(sent[k]) < MaxSends[k]
  /\ IF k \in cut \/ ServerGone(k)
     THEN HangUp(k) /\ UNCHANGED sent
     ELSE /\ SendUp(k, frame)
          /\ sent' = [sent EXCEPT ![k] = Append(@, frame)]
          /\ ClientTo(k, IF k \in Raw THEN "ready" ELSE "reading")
          /\ UNCHANGED down
  /\ UNCHANGED <<total, server, cut, held, ending, reported, applied, heard>>

(* A client of its own reads when it likes.                                *)
BeginReceive(k) ==
  /\ k \in Raw /\ client[k] = "ready"
  /\ ClientTo(k, "reading")
  /\ UNCHANGED <<total, server, held, ending, reported, wireVars, historyVars>>

(* Receive: a goodbye is a fault to it, as the end of the stream is, and   *)
(* ends the scope; the library has answered the goodbye by then.           *)
Receive(k) ==
  /\ client[k] = "reading" /\ down[k] # <<>>
  /\ LET frame == Head(down[k]) IN
       IF frame.says = "value"
       THEN /\ heard' = [heard EXCEPT ![k] = Append(@, frame.n)]
            /\ ClientTo(k, "ready") /\ TakeDown(k) /\ UNCHANGED up
       ELSE ClientGoes(k) /\ SendUp(k, frame) /\ UNCHANGED heard
  /\ UNCHANGED <<total, server, cut, held, ending, reported, sent, applied>>

(* The client has what it wanted, or is interrupted between two effects.   *)
Leave(k) ==
  /\ client[k] \in {"ready", "reading"}
  /\ HangUp(k)
  /\ UNCHANGED <<total, server, cut, held, ending, reported, historyVars>>

(* Interrupted in a read: the cancelled context takes the connection away, *)
(* and there is nothing left to say goodbye over.                          *)
LeaveReading(k) ==
  /\ client[k] = "reading"
  /\ ClientGoes(k)
  /\ SendUp(k, Eof)
  /\ cut' = cut \cup {k}
  /\ UNCHANGED <<total, server, held, ending, reported, historyVars>>

(* Close reads on for the peer's goodbye and drops everything before it.   *)
ClientHearsBye(k) ==
  /\ client[k] = "goodbye" /\ down[k] # <<>>
  /\ IF Head(down[k]) \in {Bye, Eof} THEN ClientGoes(k) ELSE TakeDown(k) /\ UNCHANGED client
  /\ UNCHANGED <<total, server, up, cut, held, ending, reported, historyVars>>

(* The wait is bounded: CloseNow takes the connection away.                *)
ClientGivesUp(k) ==
  /\ client[k] = "goodbye"
  /\ ClientGoes(k)
  /\ SendUp(k, Eof)
  /\ cut' = cut \cup {k}
  /\ UNCHANGED <<total, server, held, ending, reported, historyVars>>

-----------------------------------------------------------------------------
(* The server side, inside its own.                                        *)

(* What a conversation's effect ends with, before the scope closes.        *)
EndWith(k, how) == ServerTo(k, "leaving") /\ ending' = [ending EXCEPT ![k] = how]

(* A wrong variant: only a message or a fault comes out of a read.         *)
readExitFault(frame) == "failure"

(* readExit: a goodbye ends the stream, as a cancelled context does, and   *)
(* anything else fails it.                                                 *)
readExit(frame) == IF frame \in {Bye, Cancelled} THEN "success" ELSE "failure"

(* Inbound and Values: a change, the end of the stream, or its failure; a  *)
(* message the schema refuses is the last one read.                        *)
Read(k) ==
  /\ server[k] = "reading" /\ up[k] # <<>>
  /\ LET frame == Head(up[k]) IN
       IF frame.says = "value"
       THEN /\ held' = [held EXCEPT ![k] = frame.n]
            /\ ServerTo(k, "applying") /\ UNCHANGED <<ending, down>>
       ELSE /\ EndWith(k, readExit(frame)) /\ UNCHANGED held
            /\ IF frame = Bye THEN SendDown(k, Bye) ELSE UNCHANGED down
  /\ TakeUp(k)
  /\ UNCHANGED <<total, client, cut, reported, historyVars>>

(* A wrong variant: the total is the last one this conversation answered   *)
(* with, and not the Ref's.                                                *)
applyTallyLocal(k) ==
  /\ server[k] = "applying"
  /\ LET before == IF applied[k] = <<>> THEN 0 ELSE Last(applied[k]).total IN
       /\ total' = before + held[k]
       /\ held' = [held EXCEPT ![k] = before + held[k]]
       /\ applied' = [applied EXCEPT ![k] =
                        Append(@, [add |-> held[k], total |-> before + held[k]])]
  /\ ServerTo(k, "answering")
  /\ UNCHANGED <<client, ending, reported, wireVars, sent, heard>>

(* applyTally: one update of the shared total.                             *)
applyTally(k) ==
  /\ server[k] = "applying"
  /\ total' = total + held[k]
  /\ held' = [held EXCEPT ![k] = total + held[k]]
  /\ applied' = [applied EXCEPT ![k] = Append(@, [add |-> held[k], total |-> total + held[k]])]
  /\ ServerTo(k, "answering")
  /\ UNCHANGED <<client, ending, reported, wireVars, sent, heard>>

(* A wrong variant: the total is read again when it is answered with.      *)
AnswerLate(k) ==
  /\ server[k] = "answering"
  /\ \/ /\ Len(down[k]) < Buffer \/ k \in cut \/ ClientGone(k)
        /\ SendDown(k, Value(total))
        /\ ServerTo(k, "reading") /\ UNCHANGED ending
     \/ /\ k \in cut \/ ClientGone(k)
        /\ EndWith(k, "failure") /\ UNCHANGED down
  /\ held' = [held EXCEPT ![k] = 0]
  /\ UNCHANGED <<total, client, up, cut, reported, historyVars>>

(* SendValue: room on the way to the client, or a fault where nobody is    *)
(* there; a write to a peer that has gone may go unnoticed.                *)
Answer(k) ==
  /\ server[k] = "answering"
  /\ \/ /\ Len(down[k]) < Buffer \/ k \in cut \/ ClientGone(k)
        /\ SendDown(k, Value(held[k]))
        /\ ServerTo(k, "reading") /\ UNCHANGED ending
     \/ /\ k \in cut \/ ClientGone(k)
        /\ EndWith(k, "failure") /\ UNCHANGED down
  /\ held' = [held EXCEPT ![k] = 0]
  /\ UNCHANGED <<total, client, up, cut, reported, historyVars>>

(* The conversation's context is cancelled: under a read or a write that   *)
(* takes the connection away, and whether the effect ends as interrupted   *)
(* or with what the cancelled operation returned is the runtime's to say.  *)
Interrupt(k) ==
  /\ server[k] \in {"reading", "applying", "answering"}
  /\ \/ EndWith(k, "interrupted")
     \/ server[k] = "reading" /\ EndWith(k, readExit(Cancelled))
     \/ server[k] = "answering" /\ EndWith(k, "failure")
  /\ held' = [held EXCEPT ![k] = 0]
  /\ IF server[k] = "applying" THEN UNCHANGED <<down, cut>>
     ELSE SendDown(k, Eof) /\ cut' = cut \cup {k}
  /\ UNCHANGED <<total, client, up, reported, historyVars>>

ServerCannot(k) == k \in cut \/ ending[k] = "success" \/ ClientGone(k)

(* Interpret: anything but a success or a plain interruption is reported,  *)
(* once the scope has closed.                                              *)
Finish(k) ==
  /\ ServerTo(k, "done") /\ up' = [up EXCEPT ![k] = <<>>]
  /\ reported' = [reported EXCEPT ![k] = IF ending[k] = "failure" THEN @ + 1 ELSE @]

(* A wrong variant: a conversation that failed is not released.            *)
closeSocketOnSuccess(k) ==
  /\ server[k] = "leaving"
  /\ IF ServerCannot(k) THEN Finish(k) /\ SendDown(k, Eof)
     ELSE IF ending[k] = "failure" THEN Finish(k) /\ UNCHANGED down
     ELSE ServerTo(k, "goodbye") /\ SendDown(k, Bye) /\ UNCHANGED <<up, reported>>
  /\ UNCHANGED <<total, client, cut, held, ending, historyVars>>

(* closeSocket at the server.                                              *)
closeSocket(k) ==
  /\ server[k] = "leaving"
  /\ IF ServerCannot(k)
     THEN Finish(k) /\ SendDown(k, Eof)
     ELSE ServerTo(k, "goodbye") /\ SendDown(k, Bye) /\ UNCHANGED <<up, reported>>
  /\ UNCHANGED <<total, client, cut, held, ending, historyVars>>

ServerHearsBye(k) ==
  /\ server[k] = "goodbye" /\ up[k] # <<>>
  /\ IF Head(up[k]) \in {Bye, Eof} THEN Finish(k) ELSE TakeUp(k) /\ UNCHANGED <<server, reported>>
  /\ UNCHANGED <<total, client, down, cut, held, ending, historyVars>>

ServerGivesUp(k) ==
  /\ server[k] = "goodbye"
  /\ Finish(k)
  /\ SendDown(k, Eof)
  /\ cut' = cut \cup {k}
  /\ UNCHANGED <<total, client, held, ending, historyVars>>

-----------------------------------------------------------------------------
(* Only SendText can send what the schema refuses.                         *)
Frames(k) == {Value(n) : n \in Adds} \cup (IF k \in Raw THEN {Garbled} ELSE {})

ServerRuns(k) == Read(k) \/ applyTally(k) \/ Answer(k)
ServerEnds(k) == closeSocket(k) \/ ServerHearsBye(k) \/ ServerGivesUp(k)
ClientEnds(k) == ClientHearsBye(k) \/ ClientGivesUp(k)

Next == \E k \in Conversations :
  \/ Dial(k) \/ (\E frame \in Frames(k) : Send(k, frame)) \/ BeginReceive(k) \/ Receive(k)
  \/ Leave(k) \/ LeaveReading(k) \/ ClientEnds(k)
  \/ ServerRuns(k) \/ Interrupt(k) \/ ServerEnds(k)
  \/ Break(k)

Spec == Init /\ [][Next]_vars

(* Fibers run, a read returns what has arrived, and the wait for a goodbye *)
(* is timed.  Nothing makes a client send, read or leave.                  *)
Fairness ==
  \A k \in Conversations :
    /\ WF_vars(ServerRuns(k) \/ ServerEnds(k))
    /\ WF_vars(Receive(k) \/ ClientEnds(k))

FairSpec == Spec /\ Fairness

-----------------------------------------------------------------------------
(* Properties.                                                             *)

(* "each answer depends on everything said before it" (tally_e2e_test.go): *)
(* the changes applied are the ones sent, in order and none twice, up to   *)
(* the first message the schema refuses (value.go), and what a client      *)
(* hears is, in order and without a gap, the totals its own changes made,  *)
(* however the conversations interleave between a change and its answer    *)
(* (tally.go) and whatever breaks.                                         *)
HeardIsApplied ==
  \A k \in Conversations :
    /\ IsPrefix([i \in DOMAIN applied[k] |-> Value(applied[k][i].add)], sent[k])
    /\ IsPrefix(heard[k], [i \in DOMAIN applied[k] |-> applied[k][i].total])

(* No update of the shared total is lost: it is the sum of every change    *)
(* any conversation applied.                                               *)
Contribution(k) == FoldSeq(LAMBDA entry, sum : entry.add + sum, 0, applied[k])
TallyAddsUp == total = MapThenSumSet(Contribution, Conversations)

(* "A polite close ends the stream rather than failing it" (inbound.go)    *)
(* and "reports nothing" (socket.go): a conversation is reported only if a *)
(* message was unreadable or the connection was taken away, and one that   *)
(* met an unreadable message is.                                           *)
ReportedIfBad ==
  \A k \in Conversations : server[k] = "done" =>
    /\ reported[k] = 1 => k \in cut \/ Garbled \in ToSet(sent[k])
    /\ ending[k] = "success" => k \in cut \/ Garbled \notin ToSet(sent[k])

(* Closing a scope closes the socket (accept.go, dial.go): nobody waits on *)
(* a peer that has gone without a goodbye or an end of stream on its way.  *)
NobodyLeftWaiting ==
  \A k \in Conversations :
    /\ server[k] = "done" /\ client[k] \in {"reading", "goodbye"}
         => {Bye, Eof} \cap ToSet(down[k]) # {}
    /\ client[k] = "gone" /\ server[k] \in {"reading", "goodbye"}
         => {Bye, Eof} \cap ToSet(up[k]) # {}

(* "the loop ends when the peer says it is finished" (tally.go), and "it   *)
(* cannot outlive the request" (accept.go): a conversation whose client    *)
(* has gone ends, and so does one whose effect has ended.                  *)
ConversationEnds ==
  \A k \in Conversations :
    (client[k] = "gone" \/ ending[k] # "none") ~> (server[k] = "done")
=============================================================================
