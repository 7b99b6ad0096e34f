-------------------------- MODULE MCKeyProvisioning --------------------------
(* A small instance of KeyProvisioning. *)
EXTENDS KeyProvisioning, TLC

Symmetry == Permutations(Servers) \cup Permutations(KeyPairs) \cup Permutations(Actors)
==============================================================================
