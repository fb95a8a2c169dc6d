------------------------------- MODULE Lists -------------------------------
(***************************************************************************)
(* Lists that are filtered and sorted (a queryset, a comprehension), in a  *)
(* form that theorems can be proved about: see Lists_proofs.               *)
(***************************************************************************)
EXTENDS Integers, SequencesExt

\* The elements of s that are in T, in their order.
Filter(s, T) == FoldLeft(LAMBDA t, x : IF x \in T THEN Append(t, x) ELSE t, <<>>, s)

\* The elements of S in the order of R, a set of pairs that orders S totally.
Sorted(S, R) ==
    [k \in 1..Cardinality(S) |->
        CHOOSE x \in S : Cardinality({y \in S : <<y, x>> \in R}) = k - 1]

IsList(s) == s \in Seq(ToSet(s))
=============================================================================
