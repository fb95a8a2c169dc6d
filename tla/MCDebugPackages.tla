-------------------------- MODULE MCDebugPackages --------------------------
(* Instances of DebugPackages for TLC. *)
EXTENDS DebugPackages, TLC

Symmetry == Permutations(Runs) \cup Permutations(Workers)

\* Bound: at most two runs are left broken by tasks cut short; and once a run is
\* deleted they are broken only while some run waits.
FewBroken ==
    LET broken == cut \cup torn IN
    IF NoDeletes
      THEN Cardinality(broken) <= 2
      ELSE broken = {} \/ \E r \in rows : status[r] = "queued"

=============================================================================
