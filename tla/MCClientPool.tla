---------------------------- MODULE MCClientPool ----------------------------
(* Model-checking instances of ClientPool. *)
EXTENDS ClientPool, TLC

\* Blocks and REST threads are interchangeable (safety runs only).
Symmetry == Permutations(Client) \cup Permutations(Rest)
=============================================================================
