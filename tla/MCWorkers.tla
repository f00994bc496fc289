----------------------------- MODULE MCWorkers -----------------------------
(* Finite instances of Dispatch and of Consign: the two programs that read *)
(* from a broker and answer for what they read.  They share nothing, so    *)
(* each is explored where the other has not begun and would find nothing   *)
(* but readable messages.                                                  *)
EXTENDS Dispatch, Consign, TLC

(* Workers are interchangeable, and so are messages; the two programs use  *)
(* the same names for theirs.                                              *)
Symmetry == Permutations(Workers \cup Collectors) \cup Permutations(Orders \cup Shipments)

WorkersInit == Init /\ ConsignInit

WorkersNext ==
  \/ /\ ConsignInit /\ shape = [s \in Shipments |-> "good"]
     /\ Next /\ UNCHANGED consignVars
  \/ /\ Init /\ form = [o \in Orders |-> "good"]
     /\ ConsignNext /\ UNCHANGED vars

WorkersSpec == WorkersInit /\ [][WorkersNext]_<<vars, consignVars>>
=============================================================================
