----------------------------- MODULE MCTestNode -----------------------------
(* Model-checking instances of TestNode: runs and ids are interchangeable.   *)
EXTENDS TestNode, TLC

Symmetry == Permutations(Runs) \union Permutations(Ids)
=============================================================================
