----------------------------- MODULE MCRunEngine -----------------------------
(* Model-checking instances of RunEngine: cancelling threads are             *)
(* interchangeable.                                                          *)
EXTENDS RunEngine, TLC

Symmetry == Permutations(Clients)
=============================================================================
