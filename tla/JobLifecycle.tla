---------------------------- MODULE JobLifecycle ----------------------------
(***************************************************************************)
(* What the webhook queue promises of each job, without tables, leases,    *)
(* goroutines or crashes: a job that was opened is tried one or more times *)
(* and then closed once and for all, done after some try or dead after     *)
(* MaxAttempts of them.  README.md, "V2 MySQL Persistence".                *)
(***************************************************************************)
EXTENDS Naturals

CONSTANTS Deliveries, MaxAttempts

VARIABLES
  phase,    \* absent, open, done or dead, per delivery
  tries     \* attempts begun so far, per delivery

vars == <<phase, tries>>

Init ==
  /\ phase = [d \in Deliveries |-> "absent"]
  /\ tries = [d \in Deliveries |-> 0]

Open(d) ==
  /\ phase[d] = "absent"
  /\ phase' = [phase EXCEPT ![d] = "open"]
  /\ UNCHANGED tries

Try(d) ==
  /\ phase[d] = "open"
  /\ tries' = [tries EXCEPT ![d] = @ + 1]
  /\ UNCHANGED phase

Finish(d) ==
  /\ phase[d] = "open" /\ tries[d] > 0
  /\ phase' = [phase EXCEPT ![d] = "done"]
  /\ UNCHANGED tries

GiveUp(d) ==
  /\ phase[d] = "open" /\ tries[d] >= MaxAttempts
  /\ phase' = [phase EXCEPT ![d] = "dead"]
  /\ UNCHANGED tries

Next == \E d \in Deliveries : Open(d) \/ Try(d) \/ Finish(d) \/ GiveUp(d)

Spec == Init /\ [][Next]_vars

\* A job that is open is tried, and a job that was tried is closed.
Fairness ==
  \A d \in Deliveries :
    /\ WF_vars(Try(d) /\ tries[d] = 0)
    /\ WF_vars(Finish(d) \/ GiveUp(d))

FairSpec == Spec /\ Fairness
=============================================================================
