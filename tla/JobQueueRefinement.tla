------------------------- MODULE JobQueueRefinement -------------------------
(***************************************************************************)
(* JobQueue implements JobLifecycle as long as no lease expires under a    *)
(* running worker.  The deliveries table, the channel, the goroutines and  *)
(* the crashes are hidden; a job is open from its row's insertion until    *)
(* the row is settled.                                                     *)
(***************************************************************************)
EXTENDS JobQueue

PhaseOf(status) ==
  CASE status = "none"      -> "absent"
    [] status = "processed" -> "done"
    [] status = "failed"    -> "dead"
    [] OTHER                -> "open"

Phase == [d \in Deliveries |-> PhaseOf(jobs[d].status)]
Tries == [d \in Deliveries |-> jobs[d].attempts]

Lifecycle == INSTANCE JobLifecycle WITH phase <- Phase, tries <- Tries

\* The queue keeps the promise of JobLifecycle through crashes and failed
\* store calls: each step of the tables opens, tries or closes a job or leaves
\* all of them alone, and every opened job is closed in the end.
ImplementsLifecycle == Lifecycle!FairSpec
=============================================================================
