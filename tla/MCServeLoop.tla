---------------------------- MODULE MCServeLoop ----------------------------
(* Finite instances of ServeLoop.                                          *)
EXTENDS ServeLoop, TLC
=============================================================================
