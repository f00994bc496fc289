-------------------------- MODULE MCAmqp10Broker ---------------------------
(* Finite instances of Amqp10Broker.                                       *)
EXTENDS Amqp10Broker, TLC

(* The two facts a Change states are independent.                          *)
MCChanges == [failed : BOOLEAN, elsewhere : BOOLEAN]

(* Senders are interchangeable, and so are receivers.                      *)
Symmetry == Permutations(Senders) \cup Permutations(Receivers)
=============================================================================
