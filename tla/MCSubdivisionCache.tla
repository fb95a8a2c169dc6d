------------------------- MODULE MCSubdivisionCache -------------------------
(* Small instances of SubdivisionCache for TLC. *)
EXTENDS SubdivisionCache, TLC

Symmetry == Permutations(Names) \cup Permutations(Jobs)

=============================================================================
