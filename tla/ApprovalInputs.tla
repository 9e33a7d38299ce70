--------------------------- MODULE ApprovalInputs ---------------------------
(***************************************************************************)
(* What /ai-approve-check concludes, as a function of everything it rests  *)
(* on: the answers of GitHub on the commit, the changed files, what the    *)
(* review found, which findings were dismissed, and whether there is a run *)
(* of the head.  A behaviour starts from inputs that deserve a             *)
(* recommendation and makes them worse, one thing at a time.               *)
(***************************************************************************)
EXTENDS ApprovalDecision

CONSTANTS
  Policies,      \* policies: required checks, rules, test patterns
  HighRiskPaths, \* policy: review.high_risk_paths
  GoodPaths,     \* changed files to start with, a test among them
  BadPaths,      \* further files, none of them a test
  MaxPerSeverity,\* bound: findings of one severity
  MaxWorse       \* bound: steps for the worse

ASSUME PathsAssumption ==
  /\ IsFiniteSet(GoodPaths)
  /\ \A q \in Policies : \A p \in BadPaths : ~MatchAny(q.testPatterns, p)
\* A rule "changed_files > n" has a number; without one it asks for nothing and
\* is of another kind.
ASSUME RulesAssumption ==
  \A q \in Policies : \A r \in q.requireHumanWhen :
    r.kind = "changed_files >" => r.arg \in Int

VARIABLES
  policy,    \* the policy at the base commit
  combined,  \* state of GitHub's combined status
  test,      \* state of the status context "test", "absent": not reported
  lint,      \* check run "lint": status and conclusion
  paths,     \* changed files
  size,      \* changedCount, churn and truncated of the review input
  found,     \* findings of the review by severity
  dismissed, \* severities whose findings were dismissed
  run,       \* latest successful run: [found, head]; the head is 1
  worse      \* steps for the worse so far

vars == <<policy, combined, test, lint, paths, size, found, dismissed, run, worse>>

Severity == {"blocker", "high", "medium", "low"}

Reported ==
  SummarizeChecks(combined,
                  IF test = "absent" THEN <<>> ELSE <<[name |-> "test", value |-> test]>>,
                  <<[name |-> "lint", status |-> lint.status,
                     conclusion |-> lint.conclusion]>>)

\* The review was given the same checks as the approval check is.
Risk ==
  RiskLevel(RiskScore(found, size, Reported.state,
                      AnyPathMatches(paths, HighRiskPaths),
                      policy.requireChangedTests
                        /\ ~AnyPathMatches(paths, policy.testPatterns)))

Open == {s \in Severity : found[s] > 0 /\ s \notin dismissed}

Decision ==
  DecideApproval(1, Reported, run, Risk, Open, policy, paths)

-----------------------------------------------------------------------------
Init ==
  /\ policy \in Policies
  /\ combined \in {"", "success"}
  /\ test = "success"
  /\ lint = [status |-> "completed", conclusion |-> "success"]
  /\ paths = GoodPaths
  /\ size = [changedCount |-> 30, churn |-> 1000, truncated |-> FALSE]
  /\ found = [s \in Severity |-> 0]
  /\ dismissed = Severity
  /\ run = [found |-> TRUE, head |-> 1]
  /\ worse = 0

WorseCombined ==
  /\ combined' \in IF combined = "pending" THEN {"failure"}
                   ELSE IF combined = "failure" THEN {} ELSE {"pending"}
  /\ UNCHANGED <<test, lint, paths, size, found, dismissed, run>>

WorseTest ==
  /\ test' \in IF test = "success" THEN {"absent", "pending"}
               ELSE IF test = "pending" THEN {"failure", "error"} ELSE {}
  /\ UNCHANGED <<combined, lint, paths, size, found, dismissed, run>>

\* "neutral" is a value that summarizeChecks has in none of its lists.
WorseLint ==
  /\ lint' \in
       IF lint.conclusion = "success" THEN {[lint EXCEPT !.conclusion = "neutral"]}
       ELSE IF lint.conclusion = "neutral"
            THEN {[status |-> s, conclusion |-> ""] : s \in {"queued", "in_progress"}}
       ELSE IF lint.conclusion = ""
            THEN {[status |-> "completed", conclusion |-> "timed_out"]}
       ELSE {}
  /\ UNCHANGED <<combined, test, paths, size, found, dismissed, run>>

\* A file that only counts as a test: neither a high-risk path nor one that a
\* rule asks a human for.
OnlyATest(q) ==
  /\ MatchAny(policy.testPatterns, q) /\ ~MatchAny(HighRiskPaths, q)
  /\ \A rule \in policy.requireHumanWhen :
       rule.kind = "path matches" => ~MatchAny({rule.arg}, q)

\* One more file, or one that is no test in the place of one that only is.
WorsePaths ==
  /\ \E p \in BadPaths \ paths :
       \/ paths' = paths \cup {p}
       \/ \E q \in paths : OnlyATest(q) /\ paths' = (paths \ {q}) \cup {p}
  /\ UNCHANGED <<combined, test, lint, size, found, dismissed, run>>

WorseSize ==
  /\ \/ size.changedCount = 30 /\ size' = [size EXCEPT !.changedCount = 31]
     \/ size.churn = 1000 /\ size' = [size EXCEPT !.churn = 1001]
     \/ ~size.truncated /\ size' = [size EXCEPT !.truncated = TRUE]
  /\ UNCHANGED <<combined, test, lint, paths, found, dismissed, run>>

WorseFindings ==
  /\ \E s \in Severity :
       found[s] < MaxPerSeverity /\ found' = [found EXCEPT ![s] = @ + 1]
  /\ UNCHANGED <<combined, test, lint, paths, size, dismissed, run>>

FewerDismissed ==
  /\ \E s \in dismissed : dismissed' = dismissed \ {s}
  /\ UNCHANGED <<combined, test, lint, paths, size, found, run>>

WorseRun ==
  /\ run' \in IF run = [found |-> TRUE, head |-> 1]
              THEN {[found |-> TRUE, head |-> 0], [found |-> FALSE, head |-> 0]}
              ELSE {}
  /\ UNCHANGED <<combined, test, lint, paths, size, found, dismissed>>

Next ==
  /\ worse < MaxWorse /\ worse' = worse + 1
  /\ UNCHANGED policy
  /\ \/ WorseCombined \/ WorseTest \/ WorseLint
     \/ WorsePaths \/ WorseSize \/ WorseFindings \/ FewerDismissed \/ WorseRun

Spec == Init /\ [][Next]_vars

-----------------------------------------------------------------------------
(* Properties.                                                             *)

\* A recommendation is earned on the raw answers, whatever the summaries in
\* between made of them: something was reported on the commit and nothing of it
\* failed or is unfinished, the required checks succeeded, a run read this
\* head, and no open finding is above low.
RecommendedIsEarned ==
  Decision = "approval_recommended" =>
    /\ combined \in {"", "success"}
    /\ test \in {"absent", "success"}
    /\ lint.status = "completed" /\ lint.conclusion \in {"success", "neutral"}
    /\ "test" \in policy.requiredChecks => test = "success"
    /\ run = [found |-> TRUE, head |-> 1]
    /\ \A s \in Severity \ {"low"} : found[s] > 0 => s \in dismissed

\* Dismissing every finding does not buy a recommendation: a review with a
\* blocker or high finding, or with two medium ones, never scores as low risk
\* (the weights of ScoreRiskWithOptions against the thresholds of riskLevel).
LowRiskIsQuiet ==
  Risk = "low" => found["blocker"] = 0 /\ found["high"] = 0 /\ found["medium"] <= 1

Permissiveness(decision) ==
  CASE decision = "approval_recommended"  -> 2
    [] decision = "human_review_required" -> 1
    [] OTHER                              -> 0

\* No worsening makes the decision more permissive, through all of
\* summarizeChecks, ScoreRiskWithOptions, riskLevel, the policy rules and
\* DecideApproval.
WorseningNeverHelps ==
  [][Permissiveness(Decision') <= Permissiveness(Decision)]_vars
=============================================================================
