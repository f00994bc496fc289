---------------------------- MODULE SharedReading ----------------------------
(***************************************************************************)
(* What web.FetchUpstream promises about sharing one reading among callers,*)
(* with no word of locks, fibers, turns, retries or the answer store.      *)
(***************************************************************************)
CONSTANTS Callers, Keys, Readings, NoReading, Exits, NoExit

VARIABLES
  flight,   \* the reading in flight for each key
  ticket,   \* the reading each caller has a share in
  landed    \* what each reading landed with

vars == <<flight, ticket, landed>>

Init ==
  /\ flight = [k \in Keys |-> NoReading]
  /\ ticket = [c \in Callers |-> NoReading]
  /\ landed = [r \in Readings |-> NoExit]

(* A caller starts a reading of a key nobody is reading.                   *)
Lead(c, k, r) ==
  /\ ticket[c] = NoReading
  /\ flight[k] = NoReading
  /\ \A d \in Callers : ticket[d] # r
  /\ \A j \in Keys : flight[j] # r
  /\ flight' = [flight EXCEPT ![k] = r]
  /\ ticket' = [ticket EXCEPT ![c] = r]
  /\ landed' = [landed EXCEPT ![r] = NoExit]

(* A caller takes a share in the reading under way.                        *)
Follow(c, k) ==
  /\ ticket[c] = NoReading
  /\ flight[k] # NoReading
  /\ landed[flight[k]] = NoExit
  /\ ticket' = [ticket EXCEPT ![c] = flight[k]]
  /\ UNCHANGED <<flight, landed>>

(* The reading closes to new callers.                                      *)
Release(k) ==
  /\ flight[k] # NoReading
  /\ flight' = [flight EXCEPT ![k] = NoReading]
  /\ UNCHANGED <<ticket, landed>>

(* The reading lands, once, when it is closed to new callers.              *)
Land(r, e) ==
  /\ \A k \in Keys : flight[k] # r
  /\ landed[r] = NoExit
  /\ landed' = [landed EXCEPT ![r] = e]
  /\ UNCHANGED <<flight, ticket>>

(* A caller gives its share back: it has its answer or has gone away.      *)
GiveBack(c) ==
  /\ ticket[c] # NoReading
  /\ ticket' = [ticket EXCEPT ![c] = NoReading]
  /\ UNCHANGED <<flight, landed>>

Next ==
  \/ \E c \in Callers, k \in Keys, r \in Readings : Lead(c, k, r)
  \/ \E c \in Callers, k \in Keys : Follow(c, k)
  \/ \E k \in Keys : Release(k)
  \/ \E r \in Readings, e \in Exits : Land(r, e)
  \/ \E c \in Callers : GiveBack(c)

Spec == Init /\ [][Next]_vars
=============================================================================
