------------------------------- MODULE RunJob -------------------------------
(***************************************************************************)
(* What the queue promises of each uploaded report: it is accepted, worked *)
(* on at most once, stores its results only while it is worked on, and may *)
(* be removed, for good, at any time.                                      *)
(***************************************************************************)
EXTENDS Naturals

CONSTANT Runs

VARIABLES
    phase,   \* phase[r]: how far run r has come
    stored   \* stored[r]: the results stored for run r

vars == <<phase, stored>>

Phases == {"absent", "waiting", "working", "ended", "removed"}

Init == /\ phase = [r \in Runs |-> "absent"]
        /\ stored = [r \in Runs |-> 0]

Move(r, from, to) == /\ phase[r] \in from
                     /\ phase' = [phase EXCEPT ![r] = to]

Accept(r) == Move(r, {"absent"}, "waiting") /\ UNCHANGED stored

Start(r) == Move(r, {"waiting"}, "working") /\ UNCHANGED stored

Store(r) == /\ phase[r] = "working"
            /\ stored' = [stored EXCEPT ![r] = @ + 1]
            /\ UNCHANGED phase

\* The work on some runs ends, one by one or all at once.
End(S) == /\ S # {}
          /\ \A r \in S : phase[r] = "working"
          /\ phase' = [r \in Runs |-> IF r \in S THEN "ended" ELSE phase[r]]
          /\ UNCHANGED stored

Remove(r) == /\ Move(r, {"waiting", "working", "ended"}, "removed")
             /\ stored' = [stored EXCEPT ![r] = 0]

Next == \/ \E r \in Runs : Accept(r) \/ Start(r) \/ Store(r) \/ Remove(r)
        \/ \E S \in SUBSET Runs : End(S)

Spec == Init /\ [][Next]_vars

=============================================================================
