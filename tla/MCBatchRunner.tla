---------------------------- MODULE MCBatchRunner ----------------------------
(* Model-checking instances of BatchRunner: threads are interchangeable.     *)
EXTENDS BatchRunner, TLC

Symmetry == Permutations(Clients) \union Permutations(Workers)
=============================================================================
