--------------------------- MODULE MCEcmPipeline ---------------------------
(* Model-checking instances of EcmPipeline. *)
EXTENDS EcmPipeline, TLC

\* Clients, local threads and channels are interchangeable.
Symmetry == Permutations(Client) \cup Permutations(Local)
              \cup Permutations(Chan)
=============================================================================
