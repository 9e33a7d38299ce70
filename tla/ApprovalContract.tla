-------------------------- MODULE ApprovalContract --------------------------
(***************************************************************************)
(* What the approval check promises about a pull request, whatever happens *)
(* to jobs, rows and workers: a commit is approved only at the end of a    *)
(* check that recommended it, a check recommends only a commit that was    *)
(* reviewed successfully before, and a commit once reviewed stays so.      *)
(***************************************************************************)
EXTENDS Naturals

CONSTANTS
  Commits,  \* commits, numbered in the order they were pushed, and 0 for none
  Checks    \* the approval checks of the pull request

VARIABLES
  reviewed,    \* commits a finished review has been recorded for
  recommended, \* the commit each check is about to approve, 0 if none
  approved     \* commits that were approved

vars == <<reviewed, recommended, approved>>

Init ==
  /\ reviewed = {}
  /\ recommended = [k \in Checks |-> 0]
  /\ approved = {}

Review(h) ==
  /\ reviewed' = reviewed \cup {h}
  /\ UNCHANGED <<recommended, approved>>

Recommend(k, h) ==
  /\ recommended[k] = 0
  /\ h \in reviewed
  /\ recommended' = [recommended EXCEPT ![k] = h]
  /\ UNCHANGED <<reviewed, approved>>

\* The request ends the recommendation, whether or not it arrived.
Approve(k) ==
  /\ recommended[k] # 0
  /\ recommended' = [recommended EXCEPT ![k] = 0]
  /\ approved' \in {approved, approved \cup {recommended[k]}}
  /\ UNCHANGED reviewed

\* The process dies and takes the recommendations that were not used with it.
Forget ==
  /\ recommended' = [k \in Checks |-> 0]
  /\ UNCHANGED <<reviewed, approved>>

Next ==
  \/ \E h \in Commits : Review(h)
  \/ \E k \in Checks : Approve(k) \/ \E h \in Commits : Recommend(k, h)
  \/ Forget

Spec == Init /\ [][Next]_vars
=============================================================================
