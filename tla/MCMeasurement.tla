----------------------------- MODULE MCMeasurement -----------------------------
(* Model-checking instances of Measurement: paths and requests are           *)
(* interchangeable.  (So are the addresses and the threads of the node, but  *)
(* to sort every state by them takes longer than the states it saves.)       *)
EXTENDS Measurement, TLC

Symmetry == Permutations(Paths) \union Permutations(Requests)
=============================================================================
