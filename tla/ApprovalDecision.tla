-------------------------- MODULE ApprovalDecision --------------------------
(***************************************************************************)
(* The pure functions that decide on a pull request: the summary of its    *)
(* CI/checks (github/client.go), the risk score of a review                *)
(* (review/risk.go), the repository's approval rules (policy/config.go)    *)
(* and the decision itself (app/approval.go).                              *)
(*                                                                         *)
(* Strings are compared by the code after lower-casing and trimming; here  *)
(* they are members of small sets.  Of the reasons only their being there  *)
(* matters.  Which path a glob matches is the constant relation Matches.   *)
(***************************************************************************)
EXTENDS Integers, Sequences, FiniteSets

CONSTANT Matches   \* pairs <<pattern, path>> that policy.Match accepts

-----------------------------------------------------------------------------
(* summarizeChecks.                                                        *)

FailureValues == {"failure", "error", "cancelled", "timed_out",
                  "action_required"}

\* Mutant of PendingValues: the values of check runs are forgotten.
PendingStatuses == {"pending", "unknown"}

PendingValues == {"pending", "queued", "in_progress", "requested", "waiting",
                  "unknown"}

Known(value) == IF value = "" THEN "unknown" ELSE value
RunValue(run) ==
  Known(IF run.status = "completed" THEN run.conclusion ELSE run.status)

\* One detail per value that is applied: the combined status unless it is
\* empty or success, then the statuses, then the check runs.
CheckDetails(combined, statuses, runs) ==
  (IF combined \in {"", "success"} THEN <<>>
   ELSE <<[name |-> "combined-status", value |-> combined]>>)
  \o [i \in 1 .. Len(statuses) |->
        [name |-> statuses[i].name, value |-> Known(statuses[i].value)]]
  \o [i \in 1 .. Len(runs) |->
        [name |-> runs[i].name, value |-> RunValue(runs[i])]]

SummaryState(details) ==
  LET values == {details[i].value : i \in DOMAIN details} IN
  IF values = {} THEN "unknown"
  ELSE IF values \cap FailureValues # {} THEN "failure"
  ELSE IF values \cap PendingValues # {} THEN "pending"
  ELSE "success"

SummarizeChecks(combined, statuses, runs) ==
  LET details == CheckDetails(combined, statuses, runs) IN
  [state |-> SummaryState(details), details |-> details]

-----------------------------------------------------------------------------
(* policy: required checks and human-review rules.                         *)

\* statusByName keeps the last detail of a name.
LastOf(details, name) ==
  LET at == {i \in DOMAIN details : details[i].name = name} IN
  details[CHOOSE i \in at : \A j \in at : j <= i].value

RequiredCheckFails(required, details) ==
  \E check \in required :
    \/ \A i \in DOMAIN details : details[i].name # check
    \/ LastOf(details, check) # "success"

MatchAny(patterns, path) == \E p \in patterns : <<p, path>> \in Matches
AnyPathMatches(paths, patterns) == \E path \in paths : MatchAny(patterns, path)

RiskRank(level) ==
  CASE level = "blocker" -> 4
    [] level = "high"    -> 3
    [] level = "medium"  -> 2
    [] level = "low"     -> 1
    [] OTHER             -> 0

\* A rule the switch does not recognise asks for nothing.
RuleApplies(rule, riskLevel, ciStatus, paths) ==
  \/ rule.kind = "ci_status != success" /\ ciStatus # "success"
  \/ rule.kind = "changed_files >" /\ Cardinality(paths) > rule.arg
  \/ rule.kind = "path matches" /\ AnyPathMatches(paths, {rule.arg})
  \/ rule.kind = "risk_level >=" /\ RiskRank(riskLevel) >= RiskRank(rule.arg)

-----------------------------------------------------------------------------
(* ScoreRiskWithOptions.  findings maps a severity to how many there are.  *)

\* Mutant of Points: high findings weigh less.
PointsTooLow(findings) ==
  45 * findings["blocker"] + 20 * findings["high"] + 15 * findings["medium"]
    + 5 * findings["low"]

Points(findings) ==
  45 * findings["blocker"] + 30 * findings["high"] + 15 * findings["medium"]
    + 5 * findings["low"]

If(condition, points) == IF condition THEN points ELSE 0

RiskScore(findings, diff, checkState, highRiskPath, testsMissing) ==
  LET score == 10 + Points(findings)
                 + If(diff.changedCount > 30, 15)
                 + If(diff.churn > 1000, 10)
                 + If(diff.truncated, 10)
                 + If(checkState = "failure", 20)
                 + If(checkState \in {"pending", "unknown"}, 10)
                 + If(highRiskPath, 15)
                 + If(testsMissing, 15)
  IN  IF score > 100 THEN 100 ELSE score

RiskLevel(score) ==
  IF score >= 85 THEN "blocker"
  ELSE IF score >= 65 THEN "high"
  ELSE IF score >= 35 THEN "medium"
  ELSE "low"

-----------------------------------------------------------------------------
(* DecideApproval.                                                         *)

\* Mutant of Blocked: any successful run will do.
BlockedUnlessRun(head, checks, run, risk, severities, cfg) ==
  \/ ~run.found
  \/ checks.state # "success"
  \/ RequiredCheckFails(cfg.requiredChecks, checks.details)
  \/ severities \cap {"blocker", "high"} # {}
  \/ risk \in {"blocker", "high"}

Blocked(head, checks, run, risk, severities, cfg) ==
  \/ ~run.found
  \/ run.head # head
  \/ checks.state # "success"
  \/ RequiredCheckFails(cfg.requiredChecks, checks.details)
  \/ severities \cap {"blocker", "high"} # {}
  \/ risk \in {"blocker", "high"}

NeedsHuman(checks, risk, severities, cfg, paths) ==
  \/ "medium" \in severities
  \/ risk = "none"
  \/ risk = "medium"
  \/ cfg.requireChangedTests /\ ~AnyPathMatches(paths, cfg.testPatterns)
  \/ \E rule \in cfg.requireHumanWhen :
       RuleApplies(rule, risk, checks.state, paths)

\* Mutant of DecideApproval: the blocking reasons come second.
DecideHumanFirst(head, checks, run, risk, severities, cfg, paths) ==
  IF NeedsHuman(checks, risk, severities, cfg, paths) THEN "human_review_required"
  ELSE IF Blocked(head, checks, run, risk, severities, cfg) THEN "approval_blocked"
  ELSE "approval_recommended"

\* run is the latest successful review run, if one is found; risk is the level
\* of the latest risk score or "none"; severities are those of the open findings.
DecideApproval(head, checks, run, risk, severities, cfg, paths) ==
  IF Blocked(head, checks, run, risk, severities, cfg) THEN "approval_blocked"
  ELSE IF NeedsHuman(checks, risk, severities, cfg, paths)
  THEN "human_review_required"
  ELSE "approval_recommended"
=============================================================================
