----------------------------- MODULE MCRunQueue -----------------------------
(* Small instances of RunQueue for TLC. *)
EXTENDS RunQueue, TLC

AllFaults == FaultKinds
CaughtErrors == {"raise"}
NoFaults == {}

AllHandlers == HandlerKinds

\* Runs, requests and workers are interchangeable, which is sound to use where
\* no liveness is checked.
Symmetry == Permutations(Runs) \cup Permutations(Requests) \cup Permutations(Workers)

=============================================================================
