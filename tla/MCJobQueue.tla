----------------------------- MODULE MCJobQueue -----------------------------
(* Symmetry for checking the safety of JobQueue with TLC. *)
EXTENDS JobQueue, TLC

\* Deliveries, request goroutines and workers are interchangeable.
Symmetry == Permutations(Deliveries) \cup Permutations(Handlers)
              \cup Permutations(Workers)
=============================================================================
