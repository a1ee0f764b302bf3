------------------------------ MODULE MCServing ------------------------------
(* Two instances on one database, of two releases. *)
EXTENDS Serving, TLC

Symmetric == Permutations(Instances)
=============================================================================
