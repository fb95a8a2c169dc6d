-------------------------- MODULE MCRuntimeSettings --------------------------
(* Two web processes and a worker, two databases, and two templates.         *)
EXTENDS RuntimeSettings, TLC

Symmetry == Permutations(Web) \cup Permutations(Templates)
=============================================================================
