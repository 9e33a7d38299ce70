---------------------------- MODULE MCGovernance ----------------------------
EXTENDS Governance

\* What reviews may come to; the scores are those of ApprovalDecision for a
\* change of at most five files without sensitive paths.
Clean  == [findings |-> {}, level |-> "low"]
Risky  == [findings |-> {}, level |-> "medium"]
One    == [findings |-> {[id |-> "F-001", severity |-> "medium"]}, level |-> "low"]
Severe == [findings |-> {[id |-> "F-001", severity |-> "high"],
                         [id |-> "F-002", severity |-> "low"]}, level |-> "medium"]

AnyOutcome == {Clean, Risky, One, Severe}

\* Loads: the jobs that are sent, the commits and the faults.
Load(jobs, heads, faulty, outcomes) ==
  [jobs |-> jobs, heads |-> heads, faults |-> faulty, outcomes |-> outcomes]

CONSTANTS r1, r2, c1, m1, k1, q1

\* A check next to a review, a push and a fault, with a dismissal and with more
\* outcomes; two reviews with a fault; a check next to two reviews; a dismissal
\* next to two reviews; a question with a fault.
Mixed ==
  {Load({r1, k1, m1}, 2, 1, {One}),
   Load({r1, k1}, 2, 1, {Clean, One, Risky}),
   Load({r1, c1}, 1, 1, {Clean, Severe}),
   Load({r1, r2, k1}, 1, 0, {Clean, Risky}),
   Load({r1, r2, m1}, 1, 0, {One, Severe}),
   Load({r1, q1}, 1, 1, {Risky})}
PushedCheck == {Load({r1, k1}, 2, 0, {Clean, Severe})}
OneReview   == {Load({r1}, 1, 1, {Clean, Severe})}

\* The default policy: no required checks, no rules.
DefaultCfg == [requiredChecks |-> {}, requireChangedTests |-> FALSE,
               testPatterns |-> {}, requireHumanWhen |-> {}]
NoMatches == {}
=============================================================================
