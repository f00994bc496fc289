-------------------------- MODULE MCUpstreamClient --------------------------
(* Finite instances of UpstreamClient.                                     *)
EXTENDS UpstreamClient, TLC

(* Callers are interchangeable, and so are questions.                      *)
Symmetry == Permutations(Callers) \cup Permutations(Questions)
=============================================================================
