--------------------------- MODULE ApprovalProofs ---------------------------
(***************************************************************************)
(* Proofs about ApprovalInputs for every policy, every set of paths and    *)
(* every number of findings: what is recommended was earned on the answers *)
(* of GitHub, a low risk level means that the review found little, and no  *)
(* step for the worse makes the decision more permissive.                  *)
(***************************************************************************)
EXTENDS ApprovalInputs, FiniteSetTheorems, TLAPS

\* The answers that GitHub gives, and what the review made of the changes.
LintTyped ==
  /\ lint \in [status : {"completed", "queued", "in_progress"},
               conclusion : {"success", "neutral", "", "timed_out"}]
  /\ lint.status = "completed" => lint.conclusion # ""
SizeTyped == size \in [changedCount : Nat, churn : Nat, truncated : BOOLEAN]

Answers ==
  /\ combined \in {"", "success", "pending", "failure"}
  /\ test \in {"success", "absent", "pending", "failure", "error"}
  /\ LintTyped /\ SizeTyped
  /\ found \in [Severity -> Nat]
  /\ dismissed \subseteq Severity
  /\ run \in [found : BOOLEAN, head : {0, 1}]

LEMMA AnswersInit == Init => Answers
<1> SUFFICES ASSUME Init PROVE Answers
  OBVIOUS
<1>1. LintTyped /\ SizeTyped
  <2>1. LintTyped
    BY DEF Init, LintTyped
  <2>2. SizeTyped
    <3>1. size = [changedCount |-> 30, churn |-> 1000, truncated |-> FALSE]
      BY DEF Init
    <3> QED
      BY <3>1 DEF SizeTyped
  <2> QED
    BY <2>1, <2>2
<1>2. found \in [Severity -> Nat] /\ run \in [found : BOOLEAN, head : {0, 1}]
  BY DEF Init
<1> QED
  BY <1>1, <1>2 DEF Init, Answers

LEMMA AnswersNext == Answers /\ [Next]_vars => Answers'
<1> SUFFICES ASSUME Answers, [Next]_vars PROVE Answers'
  OBVIOUS
<1>1. CASE WorseCombined
  BY <1>1 DEF Answers, LintTyped, SizeTyped, WorseCombined
<1>2. CASE WorseTest
  BY <1>2 DEF Answers, LintTyped, SizeTyped, WorseTest
<1>3. CASE WorseLint
  <2>1. LintTyped'
    <3>1. CASE lint.conclusion = "success"
      <4>1. lint' = [lint EXCEPT !.conclusion = "neutral"]
        BY <1>3, <3>1 DEF WorseLint
      <4> QED
        BY <4>1 DEF Answers, LintTyped
    <3>2. CASE lint.conclusion = "neutral"
      <4>1. \/ lint' = [status |-> "queued", conclusion |-> ""]
            \/ lint' = [status |-> "in_progress", conclusion |-> ""]
        BY <1>3, <3>2 DEF WorseLint
      <4>2. CASE lint' = [status |-> "queued", conclusion |-> ""]
        BY <4>2 DEF LintTyped
      <4>3. CASE lint' = [status |-> "in_progress", conclusion |-> ""]
        BY <4>3 DEF LintTyped
      <4> QED
        BY <4>1, <4>2, <4>3
    <3>3. CASE lint.conclusion = ""
      <4>1. lint' = [status |-> "completed", conclusion |-> "timed_out"]
        BY <1>3, <3>3 DEF WorseLint
      <4> QED
        BY <4>1 DEF LintTyped
    <3> QED
      BY <1>3, <3>1, <3>2, <3>3 DEF WorseLint
  <2> QED
    BY <1>3, <2>1 DEF Answers, SizeTyped, WorseLint
<1>4. CASE WorsePaths
  BY <1>4 DEF Answers, LintTyped, SizeTyped, WorsePaths
<1>5. CASE WorseSize
  <2>1. SizeTyped'
    <3>1. SizeTyped
      BY DEF Answers
    <3>2. \/ size' = [size EXCEPT !.changedCount = 31]
          \/ size' = [size EXCEPT !.churn = 1001]
          \/ size' = [size EXCEPT !.truncated = TRUE]
      BY <1>5 DEF WorseSize
    <3>3. CASE size' = [size EXCEPT !.changedCount = 31]
      BY <3>1, <3>3 DEF SizeTyped
    <3>4. CASE size' = [size EXCEPT !.churn = 1001]
      BY <3>1, <3>4 DEF SizeTyped
    <3>5. CASE size' = [size EXCEPT !.truncated = TRUE]
      BY <3>1, <3>5 DEF SizeTyped
    <3> QED
      BY <3>2, <3>3, <3>4, <3>5
  <2> QED
    BY <1>5, <2>1 DEF Answers, LintTyped, WorseSize
<1>6. CASE WorseFindings
  <2>1. found' \in [Severity -> Nat]
    <3>1. PICK s \in Severity : found' = [found EXCEPT ![s] = @ + 1]
      BY <1>6 DEF WorseFindings
    <3>2. found \in [Severity -> Nat]
      BY DEF Answers
    <3>3. found[s] + 1 \in Nat
      BY <3>2
    <3> QED
      BY <3>1, <3>2, <3>3
  <2> QED
    BY <1>6, <2>1 DEF Answers, LintTyped, SizeTyped, WorseFindings
<1>7. CASE FewerDismissed
  BY <1>7 DEF Answers, LintTyped, SizeTyped, FewerDismissed
<1>8. CASE WorseRun
  <2>1. run' \in [found : BOOLEAN, head : {0, 1}]
    <3>1. \/ run' = [found |-> TRUE, head |-> 0]
          \/ run' = [found |-> FALSE, head |-> 0]
      BY <1>8 DEF WorseRun
    <3>2. CASE run' = [found |-> TRUE, head |-> 0]
      BY <3>2
    <3>3. CASE run' = [found |-> FALSE, head |-> 0]
      BY <3>3
    <3> QED
      BY <3>1, <3>2, <3>3
  <2> QED
    BY <1>8, <2>1 DEF Answers, LintTyped, SizeTyped, WorseRun
<1>9. CASE UNCHANGED vars
  BY <1>9 DEF Answers, LintTyped, SizeTyped, vars
<1> QED
  BY <1>1, <1>2, <1>3, <1>4, <1>5, <1>6, <1>7, <1>8, <1>9 DEF Next

LEMMA AnswersHold == Spec => []Answers
BY AnswersInit, AnswersNext, PTL DEF Spec

-----------------------------------------------------------------------------
\* riskLevel answers low below 35 only, and everything that ScoreRiskWithOptions
\* adds to the points of the findings is positive.
LEMMA LowRiskFewPoints ==
  ASSUME found \in [Severity -> Nat], Risk = "low"
  PROVE  Points(found) \in Nat /\ Points(found) < 25
<1> DEFINE high == AnyPathMatches(paths, HighRiskPaths)
           missing == policy.requireChangedTests
                        /\ ~AnyPathMatches(paths, policy.testPatterns)
           score == RiskScore(found, size, Reported.state, high, missing)
<1>1. \A c : If(c, 10) \in Nat /\ If(c, 15) \in Nat /\ If(c, 20) \in Nat
  BY DEF If
<1>2. Points(found) \in Nat
  <2>1. /\ found["blocker"] \in Nat /\ found["high"] \in Nat
        /\ found["medium"] \in Nat /\ found["low"] \in Nat
    BY DEF Severity
  <2> QED
    BY <2>1 DEF Points
<1>3. PICK more \in Nat : score = IF 10 + Points(found) + more > 100 THEN 100
                                  ELSE 10 + Points(found) + more
  <2> DEFINE m == If(size.changedCount > 30, 15) + If(size.churn > 1000, 10)
                     + If(size.truncated, 10)
                     + If(Reported.state = "failure", 20)
                     + If(Reported.state \in {"pending", "unknown"}, 10)
                     + If(high, 15) + If(missing, 15)
  <2>1. m \in Nat
    BY <1>1
  <2>2. score = IF 10 + Points(found) + m > 100 THEN 100
                ELSE 10 + Points(found) + m
    BY <1>1, <1>2 DEF RiskScore
  <2> QED
    BY <2>1, <2>2
<1>4. score \in Nat
  BY <1>2, <1>3
<1>5. score < 35
  <2>1. RiskLevel(score) = "low"
    BY DEF Risk
  <2> HIDE DEF score
  <2> QED
    BY <1>4, <2>1 DEF RiskLevel
<1> QED
  BY <1>2, <1>3, <1>5

\* The weights leave no room for more below 25 points.
LEMMA FewPoints ==
  ASSUME NEW b \in Nat, NEW h \in Nat, NEW m \in Nat, NEW l \in Nat,
         45 * b + 30 * h + 15 * m + 5 * l < 25
  PROVE  b = 0 /\ h = 0 /\ m <= 1
OBVIOUS

LEMMA LowRiskFewFindings == Answers => LowRiskIsQuiet
<1> SUFFICES ASSUME Answers, Risk = "low"
             PROVE  found["blocker"] = 0 /\ found["high"] = 0 /\ found["medium"] <= 1
  BY DEF LowRiskIsQuiet
<1>1. found \in [Severity -> Nat]
  BY DEF Answers
<1>2. /\ found["blocker"] \in Nat /\ found["high"] \in Nat
      /\ found["medium"] \in Nat /\ found["low"] \in Nat
  BY <1>1 DEF Severity
<1>3. 45 * found["blocker"] + 30 * found["high"] + 15 * found["medium"]
        + 5 * found["low"] < 25
  BY <1>1, LowRiskFewPoints DEF Points
<1> QED
  BY <1>2, <1>3, FewPoints

\* ScoreRiskWithOptions and riskLevel: a review whose risk level is low found
\* no blocker, nothing high and at most one medium finding, however large the
\* pull request is and whatever was dismissed since.
THEOREM LowRiskMeansQuiet == Spec => []LowRiskIsQuiet
BY AnswersHold, LowRiskFewFindings, PTL

-----------------------------------------------------------------------------
Elements(s) == {s[i] : i \in DOMAIN s}

LEMMA ElementsConcat ==
  ASSUME NEW T, NEW s \in Seq(T), NEW t \in Seq(T)
  PROVE  Elements(s \o t) = Elements(s) \cup Elements(t)
<1>1. /\ s \o t \in Seq(T) /\ DOMAIN (s \o t) = 1 .. Len(s) + Len(t)
      /\ DOMAIN s = 1 .. Len(s) /\ DOMAIN t = 1 .. Len(t)
      /\ Len(s) \in Nat /\ Len(t) \in Nat
      /\ \A i \in 1 .. Len(s) : (s \o t)[i] = s[i]
      /\ \A i \in 1 .. Len(t) : (s \o t)[Len(s) + i] = t[i]
  OBVIOUS
<1>2. ASSUME NEW i \in 1 .. Len(s) + Len(t)
      PROVE  (s \o t)[i] \in Elements(s) \cup Elements(t)
  <2>1. CASE i \in 1 .. Len(s)
    BY <1>1, <2>1 DEF Elements
  <2>2. CASE i - Len(s) \in 1 .. Len(t)
    <3>1. (s \o t)[Len(s) + (i - Len(s))] = t[i - Len(s)]
      BY <1>1, <2>2
    <3>2. Len(s) + (i - Len(s)) = i
      BY <1>1
    <3> QED
      BY <1>1, <2>2, <3>1, <3>2 DEF Elements
  <2> QED
    BY <1>1, <2>1, <2>2
<1>3. ASSUME NEW i \in 1 .. Len(s) PROVE s[i] \in Elements(s \o t)
  BY <1>1 DEF Elements
<1>4. ASSUME NEW i \in 1 .. Len(t) PROVE t[i] \in Elements(s \o t)
  <2>1. Len(s) + i \in DOMAIN (s \o t)
    BY <1>1
  <2> QED
    BY <1>1, <2>1 DEF Elements
<1> QED
  BY <1>1, <1>2, <1>3, <1>4 DEF Elements

\* What summarizeChecks is given here, detail by detail.
CombinedDetails ==
  IF combined \in {"", "success"} THEN {}
  ELSE {[name |-> "combined-status", value |-> combined]}
TestDetails ==
  IF test = "absent" THEN {} ELSE {[name |-> "test", value |-> Known(test)]}
LintDetails ==
  {[name |-> "lint",
    value |-> RunValue([name |-> "lint", status |-> lint.status,
                        conclusion |-> lint.conclusion])]}

LEMMA ReportedDetails ==
  Elements(Reported.details) = CombinedDetails \cup TestDetails \cup LintDetails
<1> DEFINE lintRun == [name |-> "lint", status |-> lint.status,
                       conclusion |-> lint.conclusion]
           S == IF test = "absent" THEN <<>> ELSE <<[name |-> "test", value |-> test]>>
           R == <<lintRun>>
           A == IF combined \in {"", "success"} THEN <<>>
                ELSE <<[name |-> "combined-status", value |-> combined]>>
           B == [i \in 1 .. Len(S) |-> [name |-> S[i].name, value |-> Known(S[i].value)]]
           C == [i \in 1 .. Len(R) |-> [name |-> R[i].name, value |-> RunValue(R[i])]]
           T == CombinedDetails \cup TestDetails \cup LintDetails
<1>1. Reported.details = A \o B \o C
  BY DEF Reported, SummarizeChecks, CheckDetails
<1>2. A \in Seq(T) /\ Elements(A) = CombinedDetails
  <2>1. CASE combined \in {"", "success"}
    <3>1. A = <<>> /\ CombinedDetails = {}
      BY <2>1 DEF CombinedDetails
    <3> HIDE DEF A
    <3> QED
      BY <3>1 DEF Elements
  <2>2. CASE combined \notin {"", "success"}
    <3>1. A = <<[name |-> "combined-status", value |-> combined]>>
      BY <2>2
    <3>2. CombinedDetails = {[name |-> "combined-status", value |-> combined]}
      BY <2>2 DEF CombinedDetails
    <3> HIDE DEF A
    <3>3. DOMAIN A = {1} /\ A[1] = [name |-> "combined-status", value |-> combined]
      BY <3>1
    <3>4. A \in Seq(T)
      BY <3>1, <3>2
    <3> QED
      BY <3>2, <3>3, <3>4 DEF Elements
  <2> QED
    BY <2>1, <2>2
<1>3. B \in Seq(T) /\ Elements(B) = TestDetails
  <2>1. CASE test = "absent"
    BY <2>1 DEF Elements, TestDetails
  <2>2. CASE test # "absent"
    <3>1. S = <<[name |-> "test", value |-> test]>> /\ Len(S) = 1
          /\ S[1] = [name |-> "test", value |-> test]
      BY <2>2
    <3>2. B = [i \in 1 .. 1 |-> [name |-> "test", value |-> Known(test)]]
      BY <3>1
    <3> HIDE DEF B
    <3>3. TestDetails = {[name |-> "test", value |-> Known(test)]}
      BY <2>2 DEF TestDetails
    <3> QED
      BY <3>2, <3>3 DEF Elements
  <2> QED
    BY <2>1, <2>2
<1>4. C \in Seq(T) /\ Elements(C) = LintDetails
  <2>1. C = [i \in 1 .. 1 |-> [name |-> "lint", value |-> RunValue(lintRun)]]
    OBVIOUS
  <2>2. LintDetails = {[name |-> "lint", value |-> RunValue(lintRun)]}
    BY DEF LintDetails
  <2> HIDE DEF C
  <2> QED
    BY <2>1, <2>2 DEF Elements
<1> HIDE DEF A, B, C, T
<1>5. A \o B \in Seq(T)
  BY <1>2, <1>3
<1>6. Elements(A \o B) = CombinedDetails \cup TestDetails
  BY <1>2, <1>3, ElementsConcat
<1>7. Elements((A \o B) \o C) = Elements(A \o B) \cup Elements(C)
  BY <1>4, <1>5, ElementsConcat
<1> QED
  BY <1>1, <1>4, <1>6, <1>7

\* A state of success means that every value reported is good, and that one is.
LEMMA SuccessAllGood ==
  ASSUME NEW d \in Elements(Reported.details), Reported.state = "success"
  PROVE  d.value \notin FailureValues \cup PendingValues
<1> DEFINE details == Reported.details
           values == {details[i].value : i \in DOMAIN details}
<1>1. Reported.state = SummaryState(details)
  BY DEF Reported, SummarizeChecks
<1>2. values \cap FailureValues = {} /\ values \cap PendingValues = {}
  BY <1>1 DEF SummaryState
<1>3. d.value \in values
  BY DEF Elements
<1> QED
  BY <1>2, <1>3

LEMMA RecommendedEarned == Answers => RecommendedIsEarned
<1> SUFFICES ASSUME Answers, Decision = "approval_recommended"
             PROVE  RecommendedIsEarned
  BY DEF RecommendedIsEarned
<1>1. /\ ~Blocked(1, Reported, run, Risk, Open, policy)
      /\ ~NeedsHuman(Reported, Risk, Open, policy, paths)
  BY DEF Decision, DecideApproval
<1>2. run = [found |-> TRUE, head |-> 1]
  BY <1>1 DEF Blocked, Answers
<1>3. Reported.state = "success"
  BY <1>1 DEF Blocked
<1>4. \A s \in Severity \ {"low"} : found[s] > 0 => s \in dismissed
  BY <1>1 DEF Blocked, NeedsHuman, Open, Severity
<1>5. combined \in {"", "success"}
  <2> SUFFICES ASSUME combined \notin {"", "success"} PROVE FALSE
    OBVIOUS
  <2> DEFINE d == [name |-> "combined-status", value |-> combined]
  <2>1. d \in Elements(Reported.details) /\ d.value = combined
    BY ReportedDetails DEF CombinedDetails
  <2>2. combined \in {"pending", "failure"}
    BY DEF Answers
  <2> HIDE DEF d
  <2> QED
    BY <1>3, <2>1, <2>2, SuccessAllGood DEF FailureValues, PendingValues
<1>6. test \in {"absent", "success"}
  <2> SUFFICES ASSUME test \notin {"absent", "success"} PROVE FALSE
    OBVIOUS
  <2> DEFINE d == [name |-> "test", value |-> Known(test)]
  <2>1. test \in {"pending", "failure", "error"}
    BY DEF Answers
  <2>2. d \in Elements(Reported.details) /\ d.value = test
    BY <2>1, ReportedDetails DEF TestDetails, Known
  <2> HIDE DEF d
  <2> QED
    BY <1>3, <2>1, <2>2, SuccessAllGood DEF FailureValues, PendingValues
<1>7. lint.status = "completed" /\ lint.conclusion \in {"success", "neutral"}
  <2> DEFINE lintRun == [name |-> "lint", status |-> lint.status,
                         conclusion |-> lint.conclusion]
             d == [name |-> "lint", value |-> RunValue(lintRun)]
  <2>1. d \in Elements(Reported.details) /\ d.value = RunValue(lintRun)
    BY ReportedDetails DEF LintDetails
  <2>2. /\ lint.status \in {"completed", "queued", "in_progress"}
        /\ lint.conclusion \in {"success", "neutral", "", "timed_out"}
        /\ lint.status = "completed" => lint.conclusion # ""
    BY DEF Answers, LintTyped
  <2>3. RunValue(lintRun) = IF lint.status = "completed" THEN lint.conclusion
                            ELSE lint.status
    BY <2>2 DEF RunValue, Known
  <2> HIDE DEF d
  <2>4. d.value \notin FailureValues \cup PendingValues
    BY <1>3, <2>1, SuccessAllGood
  <2> QED
    BY <2>1, <2>2, <2>3, <2>4 DEF FailureValues, PendingValues
<1>8. ASSUME "test" \in policy.requiredChecks PROVE test = "success"
  <2>1. PICK i \in DOMAIN Reported.details : Reported.details[i].name = "test"
    BY <1>1, <1>8 DEF Blocked, RequiredCheckFails
  <2>2. Reported.details[i] \in CombinedDetails \cup TestDetails \cup LintDetails
    BY ReportedDetails DEF Elements
  <2>3. \A d \in CombinedDetails \cup LintDetails :
          d.name \in {"combined-status", "lint"}
    <3>1. \A d \in CombinedDetails : d.name = "combined-status"
      <4>1. CASE combined \in {"", "success"}
        BY <4>1 DEF CombinedDetails
      <4>2. CASE combined \notin {"", "success"}
        <5>1. CombinedDetails = {[name |-> "combined-status", value |-> combined]}
          BY <4>2 DEF CombinedDetails
        <5> QED
          BY <5>1
      <4> QED
        BY <4>1, <4>2
    <3>2. \A d \in LintDetails : d.name = "lint"
      BY DEF LintDetails
    <3> QED
      BY <3>1, <3>2
  <2>4. TestDetails # {}
    BY <2>1, <2>2, <2>3
  <2> QED
    BY <1>6, <2>4 DEF TestDetails
<1> QED
  BY <1>2, <1>4, <1>5, <1>6, <1>7, <1>8 DEF RecommendedIsEarned

\* summarizeChecks, RequiredCheckReasons and DecideApproval: whatever the policy
\* and the changed files are, the decision recommends approval only if every
\* answer of GitHub on the head was final and good, the required check was
\* reported, and no open finding is above low.
THEOREM RecommendationEarned == Spec => []RecommendedIsEarned
BY AnswersHold, RecommendedEarned, PTL

-----------------------------------------------------------------------------
(* Getting worse never helps.  What is decided depends on the answers only *)
(* through the state of the checks, the required checks that succeeded,    *)
(* the risk and the open findings, and each of these only gets worse.      *)

LintValue == IF lint.status = "completed" THEN lint.conclusion ELSE lint.status

Fails == combined = "failure" \/ test \in {"failure", "error"} \/ LintValue = "timed_out"
Pends ==
  combined = "pending" \/ test = "pending" \/ LintValue \in {"queued", "in_progress"}

\* The checks of which the last report is a success.
Satisfied(check) ==
  \/ check = "test" /\ test = "success"
  \/ check = "lint" /\ LintValue = "success"

LEMMA LintValueIs ==
  ASSUME Answers
  PROVE  /\ LintDetails = {[name |-> "lint", value |-> LintValue]}
         /\ LintValue \in {"success", "neutral", "timed_out", "queued", "in_progress"}
<1>1. /\ lint.status \in {"completed", "queued", "in_progress"}
      /\ lint.conclusion \in {"success", "neutral", "", "timed_out"}
      /\ lint.status = "completed" => lint.conclusion # ""
  BY DEF Answers, LintTyped
<1>2. RunValue([name |-> "lint", status |-> lint.status, conclusion |-> lint.conclusion])
        = LintValue
  BY <1>1 DEF RunValue, Known, LintValue
<1> QED
  BY <1>1, <1>2 DEF LintDetails, LintValue

LEMMA OnlyValue ==
  ASSUME NEW n, NEW w, NEW v
  PROVE  (\E d \in {[name |-> n, value |-> w]} : d.value = v) <=> v = w
<1>1. [name |-> n, value |-> w].value = w
  OBVIOUS
<1> QED
  BY <1>1

\* The values that are reported.
LEMMA ReportedValues ==
  ASSUME Answers
  PROVE  \A v : (\E i \in DOMAIN Reported.details : Reported.details[i].value = v) <=>
           \/ v = combined /\ combined \notin {"", "success"}
           \/ v = test /\ test # "absent"
           \/ v = LintValue
<1>1. /\ combined \in {"", "success", "pending", "failure"}
      /\ test \in {"success", "absent", "pending", "failure", "error"}
  BY DEF Answers
<1> TAKE v
<1>2. (\E i \in DOMAIN Reported.details : Reported.details[i].value = v) <=>
        \E d \in CombinedDetails \cup TestDetails \cup LintDetails : d.value = v
  BY ReportedDetails DEF Elements
<1>3. (\E d \in CombinedDetails : d.value = v) <=>
        (v = combined /\ combined \notin {"", "success"})
  <2>1. CASE combined \in {"", "success"}
    BY <2>1 DEF CombinedDetails
  <2>2. CASE combined \notin {"", "success"}
    <3>1. CombinedDetails = {[name |-> "combined-status", value |-> combined]}
      BY <2>2 DEF CombinedDetails
    <3> QED
      BY <2>2, <3>1, OnlyValue
  <2> QED
    BY <2>1, <2>2
<1>4. (\E d \in TestDetails : d.value = v) <=> (v = test /\ test # "absent")
  <2>1. CASE test = "absent"
    BY <2>1 DEF TestDetails
  <2>2. CASE test # "absent"
    <3>1. TestDetails = {[name |-> "test", value |-> test]}
      BY <1>1, <2>2 DEF TestDetails, Known
    <3> QED
      BY <2>2, <3>1, OnlyValue
  <2> QED
    BY <2>1, <2>2
<1>5. (\E d \in LintDetails : d.value = v) <=> v = LintValue
  BY LintValueIs, OnlyValue
<1> QED
  BY <1>2, <1>3, <1>4, <1>5

LEMMA StateIs ==
  ASSUME Answers
  PROVE  Reported.state = IF Fails THEN "failure" ELSE IF Pends THEN "pending" ELSE "success"
<1> DEFINE values == {Reported.details[i].value : i \in DOMAIN Reported.details}
<1>1. Reported.state = IF values = {} THEN "unknown"
                       ELSE IF values \cap FailureValues # {} THEN "failure"
                       ELSE IF values \cap PendingValues # {} THEN "pending"
                       ELSE "success"
  BY DEF Reported, SummarizeChecks, SummaryState
<1>2. \A v : v \in values <=>
        \/ v = combined /\ combined \notin {"", "success"}
        \/ v = test /\ test # "absent"
        \/ v = LintValue
  <2>1. \A v : v \in values <=> \E i \in DOMAIN Reported.details : Reported.details[i].value = v
    BY Zenon
  <2> HIDE DEF values
  <2> QED
    BY <2>1, ReportedValues
<1> HIDE DEF values
<1>3. /\ combined \in {"", "success", "pending", "failure"}
      /\ test \in {"success", "absent", "pending", "failure", "error"}
      /\ LintValue \in {"success", "neutral", "timed_out", "queued", "in_progress"}
  BY LintValueIs DEF Answers
<1>4. values \cap FailureValues # {} <=> Fails
  <2>1. values \cap FailureValues # {} <=>
          \/ "failure" \in values \/ "error" \in values \/ "cancelled" \in values
          \/ "timed_out" \in values \/ "action_required" \in values
    BY DEF FailureValues
  <2>2. ASSUME NEW v \in FailureValues
        PROVE  v \in values <=> v \in {combined, test, LintValue}
    BY <1>2, <1>3 DEF FailureValues
  <2> QED
    BY <1>3, <2>1, <2>2 DEF FailureValues, Fails
<1>5. values \cap PendingValues # {} <=> Pends
  <2>1. values \cap PendingValues # {} <=>
          \/ "pending" \in values \/ "queued" \in values \/ "in_progress" \in values
          \/ "requested" \in values \/ "waiting" \in values \/ "unknown" \in values
    BY DEF PendingValues
  <2>2. ASSUME NEW v \in PendingValues
        PROVE  v \in values <=> v \in {combined, test, LintValue}
    BY <1>2, <1>3 DEF PendingValues
  <2> QED
    BY <1>3, <2>1, <2>2 DEF PendingValues, Pends
<1>6. values # {}
  BY <1>2
<1> QED
  BY <1>1, <1>4, <1>5, <1>6

LEMMA ConcatLen ==
  ASSUME NEW T, NEW s \in Seq(T), NEW t \in Seq(T)
  PROVE  s \o t \in Seq(T) /\ Len(s \o t) = Len(s) + Len(t)
OBVIOUS

\* No more than three details are reported, so that a name has a last one.
LEMMA FewDetails == DOMAIN Reported.details \subseteq 1 .. 3
<1> DEFINE lintRun == [name |-> "lint", status |-> lint.status,
                       conclusion |-> lint.conclusion]
           S == IF test = "absent" THEN <<>> ELSE <<[name |-> "test", value |-> test]>>
           R == <<lintRun>>
           A == IF combined \in {"", "success"} THEN <<>>
                ELSE <<[name |-> "combined-status", value |-> combined]>>
           B == [i \in 1 .. Len(S) |-> [name |-> S[i].name, value |-> Known(S[i].value)]]
           C == [i \in 1 .. Len(R) |-> [name |-> R[i].name, value |-> RunValue(R[i])]]
           T == {A[i] : i \in DOMAIN A} \cup {B[i] : i \in DOMAIN B} \cup {C[i] : i \in DOMAIN C}
<1>1. Reported.details = A \o B \o C
  BY DEF Reported, SummarizeChecks, CheckDetails
<1>2. A \in Seq(T) /\ Len(A) \in {0, 1}
  <2>1. CASE combined \in {"", "success"}
    <3>1. A = <<>>
      BY <2>1
    <3> HIDE DEF A, T
    <3> QED
      BY <3>1
  <2>2. CASE combined \notin {"", "success"}
    <3>1. A = <<[name |-> "combined-status", value |-> combined]>>
      BY <2>2
    <3>2. \A i \in DOMAIN A : A[i] \in T
      OBVIOUS
    <3> HIDE DEF A, T
    <3> QED
      BY <3>1, <3>2
  <2> QED
    BY <2>1, <2>2
<1>3. B \in Seq(T) /\ Len(B) \in {0, 1}
  <2>1. Len(S) \in {0, 1}
    OBVIOUS
  <2>2. \A i \in DOMAIN B : B[i] \in T
    OBVIOUS
  <2> HIDE DEF S, T
  <2> QED
    BY <2>1, <2>2
<1>4. C \in Seq(T) /\ Len(C) = 1
  <2>1. Len(R) = 1
    OBVIOUS
  <2>2. \A i \in DOMAIN C : C[i] \in T
    OBVIOUS
  <2> HIDE DEF R, T
  <2> QED
    BY <2>1, <2>2
<1> HIDE DEF A, B, C, T
<1>5. (A \o B) \o C \in Seq(T) /\ Len((A \o B) \o C) \in 1 .. 3
  <2>1. A \o B \in Seq(T) /\ Len(A \o B) = Len(A) + Len(B)
    BY <1>2, <1>3, ConcatLen
  <2>2. (A \o B) \o C \in Seq(T) /\ Len((A \o B) \o C) = Len(A \o B) + Len(C)
    BY <1>4, <2>1, ConcatLen
  <2> QED
    BY <1>2, <1>3, <1>4, <2>1, <2>2
<1> QED
  BY <1>1, <1>5

LEMMA NamedDetails ==
  ASSUME Answers
  PROVE  /\ \A d \in Elements(Reported.details) :
              \/ d.name = "combined-status" /\ d.value = combined /\ combined # "success"
              \/ d.name = "test" /\ d.value = test
              \/ d.name = "lint" /\ d.value = LintValue
         /\ test = "success" => \E d \in Elements(Reported.details) : d.name = "test"
         /\ \E d \in Elements(Reported.details) : d.name = "lint"
<1>1. \A d \in CombinedDetails :
        d.name = "combined-status" /\ d.value = combined /\ combined # "success"
  <2>1. CASE combined \in {"", "success"}
    BY <2>1 DEF CombinedDetails
  <2>2. CASE combined \notin {"", "success"}
    <3>1. CombinedDetails = {[name |-> "combined-status", value |-> combined]}
      BY <2>2 DEF CombinedDetails
    <3>2. [name |-> "combined-status", value |-> combined].name = "combined-status"
          /\ [name |-> "combined-status", value |-> combined].value = combined
      OBVIOUS
    <3> QED
      BY <2>2, <3>1, <3>2
  <2> QED
    BY <2>1, <2>2
<1>2. \A d \in TestDetails : d.name = "test" /\ d.value = test
  <2>1. test # "" BY DEF Answers
  <2>2. TestDetails \subseteq {[name |-> "test", value |-> test]}
    BY <2>1 DEF TestDetails, Known
  <2> QED
    BY <2>2
<1>3. LintDetails = {[name |-> "lint", value |-> LintValue]}
  BY LintValueIs
<1>4. test = "success" => TestDetails = {[name |-> "test", value |-> test]}
  BY DEF TestDetails, Known
<1>5. \E d \in LintDetails : d.name = "lint" /\ d.value = LintValue
  BY <1>3
<1>6. test = "success" => \E d \in TestDetails : d.name = "test"
  <2>1. [name |-> "test", value |-> test].name = "test"
    OBVIOUS
  <2> QED
    BY <1>4, <2>1
<1>7. \A d \in LintDetails : d.name = "lint" /\ d.value = LintValue
  BY <1>3
<1>8. ASSUME NEW d \in Elements(Reported.details)
      PROVE  \/ d.name = "combined-status" /\ d.value = combined /\ combined # "success"
             \/ d.name = "test" /\ d.value = test
             \/ d.name = "lint" /\ d.value = LintValue
  <2>1. d \in CombinedDetails \/ d \in TestDetails \/ d \in LintDetails
    BY ReportedDetails
  <2> QED
    BY <1>1, <1>2, <1>7, <2>1
<1>9. \A d \in TestDetails \cup LintDetails : d \in Elements(Reported.details)
  BY ReportedDetails
<1> QED
  BY <1>5, <1>6, <1>8, <1>9

\* statusByName and RequiredCheckReasons: a required check must be among those
\* whose last report is a success.
LEMMA RequiredIs ==
  ASSUME Answers, NEW required
  PROVE  RequiredCheckFails(required, Reported.details) <=>
           \E check \in required : ~Satisfied(check)
<1> DEFINE D == Reported.details
<1> SUFFICES ASSUME NEW check \in required
             PROVE  (\/ \A i \in DOMAIN D : D[i].name # check
                     \/ LastOf(D, check) # "success") <=> ~Satisfied(check)
  BY DEF RequiredCheckFails
<1> DEFINE at == {i \in DOMAIN D : D[i].name = check}
<1>1. \A i \in DOMAIN D : D[i] \in Elements(D)
  BY DEF Elements
<1>2. CASE at = {}
  <2>1. ~\E d \in Elements(D) : d.name = check
    BY <1>2 DEF Elements
  <2>2. ~Satisfied(check)
    BY <2>1, NamedDetails DEF Satisfied
  <2> QED
    BY <1>2, <2>2
<1>3. CASE at # {}
  <2> DEFINE last == CHOOSE i \in at : \A j \in at : j <= i
  <2>1. \E i \in at : \A j \in at : j <= i
    <3>1. at \subseteq 1 .. 3
      BY FewDetails
    <3> HIDE DEF at
    <3>2. CASE 3 \in at
      BY <3>1, <3>2
    <3>3. CASE 3 \notin at /\ 2 \in at
      BY <3>1, <3>3
    <3>4. CASE 3 \notin at /\ 2 \notin at
      <4>1. at = {1}
        <5>1. \A i \in at : i = 1
          BY <3>1, <3>4
        <5> QED
          BY <1>3, <5>1
      <4> QED
        BY <4>1
    <3> QED
      BY <3>2, <3>3, <3>4
  <2>2. last \in at
    BY <2>1
  <2>3. LastOf(D, check) = D[last].value
    BY DEF LastOf
  <2> HIDE DEF last
  <2>4. D[last] \in Elements(D) /\ D[last].name = check
    BY <1>1, <2>2
  <2> HIDE DEF D
  <2>5. D[last].value = "success" <=> Satisfied(check)
    BY <2>4, NamedDetails DEF Satisfied, D
  <2> QED
    BY <2>2, <2>3, <2>5
<1> QED
  BY <1>2, <1>3

\* What DecideApproval and ScoreRiskWithOptions make of the answers.
Understood ==
  /\ Reported.state = IF Fails THEN "failure" ELSE IF Pends THEN "pending" ELSE "success"
  /\ \A required : RequiredCheckFails(required, Reported.details) <=>
                     \E check \in required : ~Satisfied(check)

LEMMA Understand == Answers => Understood
BY StateIs, RequiredIs DEF Understood

LEMMA UnderstandNext == Answers' => Understood'
BY Understand, PTL

-----------------------------------------------------------------------------
(* Every step worsens.                                                     *)

Ready == Answers /\ policy \in Policies /\ IsFiniteSet(paths)

RulePaths(rule) == AnyPathMatches(paths, {rule.arg})
TestsMissing ==
  policy.requireChangedTests /\ ~AnyPathMatches(paths, policy.testPatterns)

ChecksWorsen ==
  /\ Fails => Fails'
  /\ Pends => Pends' \/ Fails'
  /\ \A check : Satisfied(check)' => Satisfied(check)

PathsWorsen ==
  /\ IsFiniteSet(paths') /\ Cardinality(paths) <= Cardinality(paths')
  /\ AnyPathMatches(paths, HighRiskPaths) => AnyPathMatches(paths', HighRiskPaths)
  /\ \A rule \in policy.requireHumanWhen :
       rule.kind = "path matches" /\ RulePaths(rule) => RulePaths(rule)'
  /\ TestsMissing => TestsMissing'

ReviewWorsens ==
  /\ \A s \in Severity : found[s] <= found'[s]
  /\ size.changedCount > 30 => size'.changedCount > 30
  /\ size.churn > 1000 => size'.churn > 1000
  /\ size.truncated => size'.truncated
  /\ Open \subseteq Open'
  /\ run' = [found |-> TRUE, head |-> 1] => run = [found |-> TRUE, head |-> 1]

Worsens == policy' = policy /\ ChecksWorsen /\ PathsWorsen /\ ReviewWorsens

LEMMA ChecksStay ==
  ASSUME UNCHANGED <<combined, test, lint>> PROVE ChecksWorsen
BY DEF ChecksWorsen, Fails, Pends, Satisfied, LintValue

LEMMA PathsStay ==
  ASSUME Ready, UNCHANGED <<paths, policy>> PROVE PathsWorsen
<1>1. Cardinality(paths) <= Cardinality(paths)
  BY FS_CardinalityType DEF Ready
<1> QED
  BY <1>1, Zenon DEF PathsWorsen, Ready, RulePaths, TestsMissing

LEMMA ReviewStays ==
  ASSUME Ready, UNCHANGED <<found, size, dismissed, run>> PROVE ReviewWorsens
<1>1. \A s \in Severity : found[s] \in Nat
  BY DEF Ready, Answers
<1> QED
  BY <1>1 DEF ReviewWorsens, Open

LEMMA ChecksStep ==
  ASSUME Ready, WorseCombined \/ WorseTest \/ WorseLint PROVE ChecksWorsen
<1>1. /\ combined \in {"", "success", "pending", "failure"}
      /\ test \in {"success", "absent", "pending", "failure", "error"}
      /\ lint \in [status : {"completed", "queued", "in_progress"},
                   conclusion : {"success", "neutral", "", "timed_out"}]
      /\ lint.status = "completed" => lint.conclusion # ""
  BY DEF Ready, Answers, LintTyped
<1>2. CASE WorseCombined
  BY <1>1, <1>2 DEF WorseCombined, ChecksWorsen, Fails, Pends, Satisfied, LintValue
<1>3. CASE WorseTest
  BY <1>1, <1>3 DEF WorseTest, ChecksWorsen, Fails, Pends, Satisfied, LintValue
<1>4. CASE WorseLint
  <2>1. /\ UNCHANGED <<combined, test>>
        /\ \/ lint.conclusion = "success" /\ lint'.conclusion = "neutral"
              /\ lint'.status = lint.status
           \/ lint.conclusion = "neutral" /\ lint'.status \in {"queued", "in_progress"}
              /\ lint'.conclusion = ""
           \/ lint.conclusion = "" /\ lint'.status = "completed"
              /\ lint'.conclusion = "timed_out"
    <3>1. CASE lint.conclusion = "success"
      <4>1. lint' = [lint EXCEPT !.conclusion = "neutral"]
        BY <1>4, <3>1 DEF WorseLint
      <4>2. lint'.conclusion = "neutral" /\ lint'.status = lint.status
        BY <1>1, <4>1
      <4> QED
        BY <1>4, <3>1, <4>2 DEF WorseLint
    <3>2. CASE lint.conclusion = "neutral"
      <4>1. \/ lint' = [status |-> "queued", conclusion |-> ""]
            \/ lint' = [status |-> "in_progress", conclusion |-> ""]
        BY <1>4, <3>2 DEF WorseLint
      <4>2. lint'.status \in {"queued", "in_progress"} /\ lint'.conclusion = ""
        <5>1. CASE lint' = [status |-> "queued", conclusion |-> ""]
          BY <5>1
        <5>2. CASE lint' = [status |-> "in_progress", conclusion |-> ""]
          BY <5>2
        <5> QED
          BY <4>1, <5>1, <5>2
      <4> QED
        BY <1>4, <3>2, <4>2 DEF WorseLint
    <3>3. CASE lint.conclusion = ""
      <4>1. lint' = [status |-> "completed", conclusion |-> "timed_out"]
        BY <1>4, <3>3 DEF WorseLint
      <4>2. lint'.status = "completed" /\ lint'.conclusion = "timed_out"
        BY <4>1
      <4> QED
        BY <1>4, <3>3, <4>2 DEF WorseLint
    <3> QED
      BY <1>4, <3>1, <3>2, <3>3 DEF WorseLint
  <2> QED
    BY <1>1, <2>1 DEF ChecksWorsen, Fails, Pends, Satisfied, LintValue
<1> QED
  BY <1>2, <1>3, <1>4

LEMMA PathsStep ==
  ASSUME Ready, UNCHANGED policy, WorsePaths PROVE PathsWorsen
<1>1. PICK p \in BadPaths \ paths :
        \/ paths' = paths \cup {p}
        \/ \E q \in paths : OnlyATest(q) /\ paths' = (paths \ {q}) \cup {p}
  BY DEF WorsePaths
<1>2. ~MatchAny(policy.testPatterns, p) /\ p \notin paths
  BY PathsAssumption DEF Ready
<1>3. IsFiniteSet(paths) /\ Cardinality(paths) \in Nat
  BY FS_CardinalityType DEF Ready
<1>4. CASE paths' = paths \cup {p}
  <2>1. IsFiniteSet(paths') /\ Cardinality(paths') = Cardinality(paths) + 1
    BY <1>2, <1>3, <1>4, FS_AddElement
  <2>2. Cardinality(paths) <= Cardinality(paths')
    BY <1>3, <2>1
  <2>3. \A P : AnyPathMatches(paths, P) => AnyPathMatches(paths', P)
    BY <1>4 DEF AnyPathMatches
  <2>4. AnyPathMatches(paths', policy.testPatterns) => AnyPathMatches(paths, policy.testPatterns)
    BY <1>2, <1>4 DEF AnyPathMatches
  <2> QED
    BY <2>1, <2>2, <2>3, <2>4 DEF PathsWorsen, RulePaths, TestsMissing
<1>5. CASE \E q \in paths : OnlyATest(q) /\ paths' = (paths \ {q}) \cup {p}
  <2>1. PICK q \in paths : OnlyATest(q) /\ paths' = (paths \ {q}) \cup {p}
    BY <1>5
  <2>2. IsFiniteSet(paths \ {q}) /\ Cardinality(paths \ {q}) = Cardinality(paths) - 1
    BY <1>3, FS_RemoveElement
  <2>3. IsFiniteSet(paths') /\ Cardinality(paths') = Cardinality(paths)
    <3>1. p \notin paths \ {q}
      BY <1>2
    <3>2. Cardinality((paths \ {q}) \cup {p}) = (Cardinality(paths) - 1) + 1
      BY <2>2, <3>1, FS_AddElement
    <3>3. IsFiniteSet((paths \ {q}) \cup {p})
      BY <2>2, FS_AddElement
    <3> QED
      BY <1>3, <2>1, <3>2, <3>3
  <2>4. Cardinality(paths) <= Cardinality(paths')
    BY <1>3, <2>3
  <2>5. ASSUME NEW P, ~MatchAny(P, q), AnyPathMatches(paths, P) PROVE AnyPathMatches(paths', P)
    BY <2>1, <2>5 DEF AnyPathMatches
  <2>6. AnyPathMatches(paths, HighRiskPaths) => AnyPathMatches(paths', HighRiskPaths)
    BY <2>1, <2>5 DEF OnlyATest
  <2>7. ASSUME NEW rule \in policy.requireHumanWhen, rule.kind = "path matches",
               RulePaths(rule)
        PROVE  RulePaths(rule)'
    <3>1. ~MatchAny({rule.arg}, q)
      BY <2>1, <2>7 DEF OnlyATest
    <3> QED
      BY <2>5, <2>7, <3>1 DEF RulePaths
  <2>8. AnyPathMatches(paths', policy.testPatterns) => AnyPathMatches(paths, policy.testPatterns)
    BY <1>2, <2>1 DEF AnyPathMatches
  <2> QED
    BY <2>3, <2>4, <2>6, <2>7, <2>8 DEF PathsWorsen, TestsMissing
<1> QED
  BY <1>1, <1>4, <1>5

LEMMA ReviewStep ==
  ASSUME Ready, WorseSize \/ WorseFindings \/ FewerDismissed \/ WorseRun PROVE ReviewWorsens
<1>1. /\ found \in [Severity -> Nat] /\ \A s \in Severity : found[s] \in Nat
      /\ size \in [changedCount : Nat, churn : Nat, truncated : BOOLEAN]
  BY DEF Ready, Answers, SizeTyped
<1>2. CASE WorseSize
  <2>1. /\ size.changedCount > 30 => size'.changedCount > 30
        /\ size.churn > 1000 => size'.churn > 1000
        /\ size.truncated => size'.truncated
    <3>1. CASE size.changedCount = 30 /\ size' = [size EXCEPT !.changedCount = 31]
      BY <1>1, <3>1
    <3>2. CASE size.churn = 1000 /\ size' = [size EXCEPT !.churn = 1001]
      BY <1>1, <3>2
    <3>3. CASE size' = [size EXCEPT !.truncated = TRUE]
      BY <1>1, <3>3
    <3> QED
      BY <1>2, <3>1, <3>2, <3>3 DEF WorseSize
  <2> QED
    BY <1>1, <1>2, <2>1 DEF WorseSize, ReviewWorsens, Open
<1>3. CASE WorseFindings
  <2>1. PICK s \in Severity : found' = [found EXCEPT ![s] = found[s] + 1]
    BY <1>3 DEF WorseFindings
  <2>2. \A t \in Severity : found'[t] \in Nat /\ found[t] <= found'[t]
    BY <1>1, <2>1
  <2>3. UNCHANGED <<size, dismissed, run>>
    BY <1>3 DEF WorseFindings
  <2>4. Open \subseteq Open'
    BY <1>1, <2>2, <2>3 DEF Open
  <2> QED
    BY <2>2, <2>3, <2>4 DEF ReviewWorsens
<1>4. CASE FewerDismissed
  BY <1>1, <1>4 DEF FewerDismissed, ReviewWorsens, Open
<1>5. CASE WorseRun
  BY <1>1, <1>5 DEF WorseRun, ReviewWorsens, Open
<1> QED
  BY <1>2, <1>3, <1>4, <1>5

LEMMA Worsening ==
  ASSUME Ready, [Next]_vars PROVE Worsens
<1>1. UNCHANGED policy
  BY DEF Next, vars
<1>2. CASE WorseCombined \/ WorseTest \/ WorseLint
  <2>1. UNCHANGED <<paths, found, size, dismissed, run>>
    BY <1>2 DEF WorseCombined, WorseTest, WorseLint
  <2> QED
    BY <1>1, <1>2, <2>1, ChecksStep, PathsStay, ReviewStays DEF Worsens
<1>3. CASE WorsePaths
  <2>1. UNCHANGED <<combined, test, lint, found, size, dismissed, run>>
    BY <1>3 DEF WorsePaths
  <2> QED
    BY <1>1, <1>3, <2>1, ChecksStay, PathsStep, ReviewStays DEF Worsens
<1>4. CASE WorseSize \/ WorseFindings \/ FewerDismissed \/ WorseRun
  <2>1. UNCHANGED <<combined, test, lint, paths>>
    BY <1>4 DEF WorseSize, WorseFindings, FewerDismissed, WorseRun
  <2> QED
    BY <1>1, <1>4, <2>1, ChecksStay, PathsStay, ReviewStep DEF Worsens
<1>5. CASE UNCHANGED vars
  BY <1>1, <1>5, ChecksStay, PathsStay, ReviewStays DEF Worsens, vars
<1> QED
  BY <1>2, <1>3, <1>4, <1>5 DEF Next

-----------------------------------------------------------------------------
(* What is worse scores no lower and is not decided more permissively.     *)

LEMMA PointsGrow ==
  ASSUME Ready, Ready', ReviewWorsens
  PROVE  Points(found) \in Nat /\ Points(found') \in Nat /\ Points(found) <= Points(found')
<1>1. /\ found["blocker"] \in Nat /\ found["high"] \in Nat
      /\ found["medium"] \in Nat /\ found["low"] \in Nat
      /\ found'["blocker"] \in Nat /\ found'["high"] \in Nat
      /\ found'["medium"] \in Nat /\ found'["low"] \in Nat
  BY DEF Ready, Answers, Severity
<1>2. /\ found["blocker"] <= found'["blocker"] /\ found["high"] <= found'["high"]
      /\ found["medium"] <= found'["medium"] /\ found["low"] <= found'["low"]
  BY DEF ReviewWorsens, Severity
<1> QED
  BY <1>1, <1>2 DEF Points

\* The points for the state of the checks.
CheckPoints(state) == If(state = "failure", 20) + If(state \in {"pending", "unknown"}, 10)

LEMMA CheckPointsGrow ==
  ASSUME Ready, Ready', ChecksWorsen
  PROVE  /\ CheckPoints(Reported.state) \in Nat /\ CheckPoints(Reported'.state) \in Nat
         /\ CheckPoints(Reported.state) <= CheckPoints(Reported'.state)
<1>1. /\ Reported.state = IF Fails THEN "failure" ELSE IF Pends THEN "pending" ELSE "success"
      /\ Reported'.state =
           IF Fails' THEN "failure" ELSE IF Pends' THEN "pending" ELSE "success"
  BY Understand, UnderstandNext DEF Ready, Understood
<1>2. CheckPoints("failure") = 20 /\ CheckPoints("pending") = 10 /\ CheckPoints("success") = 0
  BY DEF CheckPoints, If
<1> QED
  BY <1>1, <1>2 DEF ChecksWorsen

Score == RiskScore(found, size, Reported.state, AnyPathMatches(paths, HighRiskPaths),
                   TestsMissing)

LEMMA ScoreGrows ==
  ASSUME Ready, Ready', Worsens
  PROVE  Score \in Nat /\ Score' \in Nat /\ Score <= Score'
<1> DEFINE p == Points(found)
           q == Points(found')
           c == CheckPoints(Reported.state)
           d == CheckPoints(Reported'.state)
           sum(points, diff, checks, highRisk, missing) ==
             10 + points + If(diff.changedCount > 30, 15) + If(diff.churn > 1000, 10)
               + If(diff.truncated, 10) + checks + If(highRisk, 15) + If(missing, 15)
           before == sum(p, size, c, AnyPathMatches(paths, HighRiskPaths), TestsMissing)
           after  == sum(q, size', d, AnyPathMatches(paths', HighRiskPaths), TestsMissing')
<1>1. p \in Nat /\ q \in Nat /\ p <= q
  BY PointsGrow DEF Worsens
<1>2. c \in Nat /\ d \in Nat /\ c <= d
  BY CheckPointsGrow DEF Worsens
<1>3. /\ If(size.changedCount > 30, 15) <= If(size'.changedCount > 30, 15)
      /\ If(size.churn > 1000, 10) <= If(size'.churn > 1000, 10)
      /\ If(size.truncated, 10) <= If(size'.truncated, 10)
      /\ If(AnyPathMatches(paths, HighRiskPaths), 15)
           <= If(AnyPathMatches(paths', HighRiskPaths), 15)
      /\ If(TestsMissing, 15) <= If(TestsMissing', 15)
  <2>1. /\ size.changedCount > 30 => size'.changedCount > 30
        /\ size.churn > 1000 => size'.churn > 1000
        /\ size.truncated => size'.truncated
        /\ AnyPathMatches(paths, HighRiskPaths) => AnyPathMatches(paths', HighRiskPaths)
        /\ TestsMissing => TestsMissing'
    BY DEF Worsens, ReviewWorsens, PathsWorsen
  <2>2. If(size.changedCount > 30, 15) <= If(size'.changedCount > 30, 15)
    BY <2>1 DEF If
  <2>3. If(size.churn > 1000, 10) <= If(size'.churn > 1000, 10)
    BY <2>1 DEF If
  <2>4. If(size.truncated, 10) <= If(size'.truncated, 10)
    BY <2>1 DEF If
  <2>5. If(AnyPathMatches(paths, HighRiskPaths), 15)
          <= If(AnyPathMatches(paths', HighRiskPaths), 15)
    BY <2>1 DEF If
  <2>6. If(TestsMissing, 15) <= If(TestsMissing', 15)
    BY <2>1 DEF If
  <2> QED
    BY <2>2, <2>3, <2>4, <2>5, <2>6
<1>4. \A x : If(x, 15) \in Nat /\ If(x, 10) \in Nat /\ If(x, 20) \in Nat
  BY DEF If
<1>5. Score = IF before > 100 THEN 100 ELSE before
  <2>1. Score = LET score == 10 + p + If(size.changedCount > 30, 15)
                               + If(size.churn > 1000, 10) + If(size.truncated, 10)
                               + If(Reported.state = "failure", 20)
                               + If(Reported.state \in {"pending", "unknown"}, 10)
                               + If(AnyPathMatches(paths, HighRiskPaths), 15)
                               + If(TestsMissing, 15)
                IN  IF score > 100 THEN 100 ELSE score
    BY DEF Score, RiskScore
  <2>2. c = If(Reported.state = "failure", 20) + If(Reported.state \in {"pending", "unknown"}, 10)
    BY DEF CheckPoints
  <2> HIDE DEF p, c
  <2> QED
    BY <1>1, <1>2, <1>4, <2>1, <2>2
<1>6. Score' = IF after > 100 THEN 100 ELSE after
  <2>1. Score' = LET score == 10 + q + If(size'.changedCount > 30, 15)
                                + If(size'.churn > 1000, 10) + If(size'.truncated, 10)
                                + If(Reported'.state = "failure", 20)
                                + If(Reported'.state \in {"pending", "unknown"}, 10)
                                + If(AnyPathMatches(paths', HighRiskPaths), 15)
                                + If(TestsMissing', 15)
                 IN  IF score > 100 THEN 100 ELSE score
    BY DEF Score, RiskScore
  <2>2. d = If(Reported'.state = "failure", 20)
              + If(Reported'.state \in {"pending", "unknown"}, 10)
    BY DEF CheckPoints
  <2> HIDE DEF q, d
  <2> QED
    BY <1>1, <1>2, <1>4, <2>1, <2>2
<1>7. before \in Nat /\ after \in Nat /\ before <= after
  <2> HIDE DEF p, q, c, d
  <2> QED
    BY <1>1, <1>2, <1>3, <1>4
<1> HIDE DEF before, after
<1> QED
  BY <1>5, <1>6, <1>7

LEMMA LevelGrows ==
  ASSUME NEW s \in Nat, NEW t \in Nat, s <= t
  PROVE  /\ RiskLevel(s) \in {"low", "medium", "high", "blocker"}
         /\ RiskLevel(t) \in {"low", "medium", "high", "blocker"}
         /\ RiskRank(RiskLevel(s)) <= RiskRank(RiskLevel(t))
<1>1. /\ RiskRank("blocker") = 4 /\ RiskRank("high") = 3 /\ RiskRank("medium") = 2
      /\ RiskRank("low") = 1
  BY DEF RiskRank
<1> QED
  BY <1>1 DEF RiskLevel

LEMMA RiskGrows ==
  ASSUME Ready, Ready', Worsens
  PROVE  /\ Risk \in {"low", "medium", "high", "blocker"}
         /\ Risk' \in {"low", "medium", "high", "blocker"}
         /\ RiskRank(Risk) <= RiskRank(Risk')
<1>1. Risk = RiskLevel(Score) /\ Risk' = RiskLevel(Score')
  BY DEF Risk, Score, TestsMissing
<1> QED
  BY <1>1, ScoreGrows, LevelGrows

LEMMA ReadyInit == Init => Ready
BY AnswersInit, PathsAssumption DEF Init, Ready

LEMMA ReadyNext == Ready /\ [Next]_vars => Ready'
<1> SUFFICES ASSUME Ready, [Next]_vars PROVE Ready'
  OBVIOUS
<1>1. Answers'
  BY AnswersNext DEF Ready
<1>2. policy' = policy /\ IsFiniteSet(paths')
  BY Worsening DEF Worsens, PathsWorsen
<1> QED
  BY <1>1, <1>2 DEF Ready

LEMMA AlwaysReady == Spec => []Ready
BY ReadyInit, ReadyNext, PTL DEF Spec

Stopped == Blocked(1, Reported, run, Risk, Open, policy)
Handed  == NeedsHuman(Reported, Risk, Open, policy, paths)

LEMMA RankIs ==
  /\ RiskRank("blocker") = 4 /\ RiskRank("high") = 3
  /\ RiskRank("medium") = 2 /\ RiskRank("low") = 1
BY DEF RiskRank

LEMMA RankTyped == \A level : RiskRank(level) \in Nat
<1> TAKE level
<1>1. CASE level \in {"blocker", "high", "medium", "low"}
  BY <1>1, RankIs
<1>2. CASE level \notin {"blocker", "high", "medium", "low"}
  BY <1>2 DEF RiskRank
<1> QED
  BY <1>1, <1>2

LEMMA StateStays ==
  ASSUME Ready, Ready', Worsens, Reported'.state = "success"
  PROVE  Reported.state = "success"
<1>1. /\ Reported.state = IF Fails THEN "failure" ELSE IF Pends THEN "pending" ELSE "success"
      /\ Reported'.state =
           IF Fails' THEN "failure" ELSE IF Pends' THEN "pending" ELSE "success"
  BY Understand, UnderstandNext DEF Ready, Understood
<1> QED
  BY <1>1 DEF Worsens, ChecksWorsen

LEMMA BlockingStays ==
  ASSUME Ready, Ready', Worsens, ~Stopped' PROVE ~Stopped
<1>1. /\ run'.found /\ run'.head = 1 /\ Reported'.state = "success"
      /\ ~RequiredCheckFails(policy'.requiredChecks, Reported'.details)
      /\ Open' \cap {"blocker", "high"} = {} /\ Risk' \notin {"blocker", "high"}
  BY DEF Stopped, Blocked
<1>2. run.found /\ run.head = 1
  <2>1. run \in [found : BOOLEAN, head : {0, 1}] /\ run' \in [found : BOOLEAN, head : {0, 1}]
    BY DEF Ready, Answers
  <2>2. run' = [found |-> TRUE, head |-> 1]
    BY <1>1, <2>1
  <2>3. run = [found |-> TRUE, head |-> 1]
    BY <2>2 DEF Worsens, ReviewWorsens
  <2> QED
    BY <2>3
<1>3. Reported.state = "success"
  BY <1>1, StateStays
<1>4. ~RequiredCheckFails(policy.requiredChecks, Reported.details)
  <2>1. Understood /\ Understood'
    BY Understand, UnderstandNext DEF Ready
  <2>2. \A check \in policy'.requiredChecks : Satisfied(check)'
    BY <1>1, <2>1 DEF Understood
  <2>3. \A check \in policy.requiredChecks : Satisfied(check)
    BY <2>2 DEF Worsens, ChecksWorsen
  <2> QED
    BY <2>1, <2>3 DEF Understood
<1>5. Open \cap {"blocker", "high"} = {}
  BY <1>1 DEF Worsens, ReviewWorsens
<1>6. Risk \notin {"blocker", "high"}
  BY <1>1, RiskGrows, RankIs
<1> QED
  BY <1>2, <1>3, <1>4, <1>5, <1>6, Zenon DEF Stopped, Blocked

LEMMA MoreThan ==
  ASSUME NEW m \in Nat, NEW n \in Nat, NEW k \in Int, m > k, m <= n PROVE n > k
OBVIOUS

LEMMA NoLess ==
  ASSUME NEW m \in Nat, NEW n \in Nat, NEW k \in Nat, m >= k, m <= n PROVE n >= k
OBVIOUS

LEMMA RulesStay ==
  ASSUME Ready, Ready', Worsens, NEW rule \in policy.requireHumanWhen,
         RuleApplies(rule, Risk, Reported.state, paths)
  PROVE  RuleApplies(rule, Risk', Reported'.state, paths')
<1>1. CASE rule.kind = "ci_status != success" /\ Reported.state # "success"
  BY <1>1, StateStays DEF RuleApplies
<1>2. CASE rule.kind = "changed_files >" /\ Cardinality(paths) > rule.arg
  <2>1. rule.arg \in Int
    BY <1>2, RulesAssumption DEF Ready
  <2>2. Cardinality(paths) \in Nat /\ Cardinality(paths') \in Nat
    BY FS_CardinalityType DEF Ready
  <2>3. Cardinality(paths) <= Cardinality(paths')
    BY DEF Worsens, PathsWorsen
  <2>4. Cardinality(paths') > rule.arg
    <3>1. Cardinality(paths) > rule.arg
      BY <1>2
    <3> QED
      BY <2>1, <2>2, <2>3, <3>1, MoreThan
  <2> QED
    BY <1>2, <2>4 DEF RuleApplies
<1>3. CASE rule.kind = "path matches" /\ AnyPathMatches(paths, {rule.arg})
  BY <1>3 DEF Worsens, PathsWorsen, RulePaths, RuleApplies
<1>4. CASE rule.kind = "risk_level >=" /\ RiskRank(Risk) >= RiskRank(rule.arg)
  <2>1. RiskRank(rule.arg) \in Nat
    BY Zenon, RankTyped
  <2>2. RiskRank(Risk) \in Nat /\ RiskRank(Risk') \in Nat
    BY RankTyped
  <2>3. RiskRank(Risk') >= RiskRank(rule.arg)
    <3>1. RiskRank(Risk) >= RiskRank(rule.arg) /\ RiskRank(Risk) <= RiskRank(Risk')
      BY <1>4, RiskGrows
    <3> QED
      BY <2>1, <2>2, <3>1, NoLess
  <2> QED
    BY <1>4, <2>3 DEF RuleApplies
<1> QED
  BY <1>1, <1>2, <1>3, <1>4 DEF RuleApplies

LEMMA HandingStays ==
  ASSUME Ready, Ready', Worsens, ~Handed', ~Stopped' PROVE ~Handed
<1> SUFFICES ASSUME Handed PROVE FALSE
  OBVIOUS
<1>1. /\ "medium" \notin Open' /\ Risk' # "medium" /\ ~TestsMissing'
      /\ ~\E rule \in policy'.requireHumanWhen :
            RuleApplies(rule, Risk', Reported'.state, paths')
  BY Zenon DEF Handed, NeedsHuman, TestsMissing
<1>2. Risk' \notin {"blocker", "high"}
  BY Zenon DEF Stopped, Blocked
<1>3. CASE "medium" \in Open
  BY <1>1, <1>3 DEF Worsens, ReviewWorsens
<1>4. CASE Risk = "none" \/ Risk = "medium"
  BY <1>1, <1>2, <1>4, RiskGrows, RankIs
<1>5. CASE TestsMissing
  BY <1>1, <1>5 DEF Worsens, PathsWorsen
<1>6. CASE \E rule \in policy.requireHumanWhen : RuleApplies(rule, Risk, Reported.state, paths)
  BY <1>1, <1>6, RulesStay DEF Worsens
<1> QED
  BY <1>3, <1>4, <1>5, <1>6 DEF Handed, NeedsHuman, TestsMissing

LEMMA DecisionStays ==
  ASSUME Ready, Ready', Worsens PROVE Permissiveness(Decision') <= Permissiveness(Decision)
<1>1. /\ Decision = IF Stopped THEN "approval_blocked"
                    ELSE IF Handed THEN "human_review_required" ELSE "approval_recommended"
      /\ Decision' = IF Stopped' THEN "approval_blocked"
                     ELSE IF Handed' THEN "human_review_required" ELSE "approval_recommended"
  BY Zenon DEF Decision, DecideApproval, Stopped, Handed
<1>2. /\ Permissiveness("approval_blocked") = 0
      /\ Permissiveness("human_review_required") = 1
      /\ Permissiveness("approval_recommended") = 2
  BY DEF Permissiveness
<1>3. ~Stopped' => ~Stopped
  BY BlockingStays
<1>4. ~Stopped' /\ ~Handed' => ~Handed
  BY HandingStays
<1> QED
  BY <1>1, <1>2, <1>3, <1>4

\* summarizeChecks, ScoreRiskWithOptions, riskLevel, the rules of the policy and
\* DecideApproval together: for every policy, every set of paths and patterns and
\* every number of findings, an answer of GitHub, a file, a finding or a run that
\* gets worse never makes the decision more permissive.
THEOREM WorseningHelpsNot == Spec => WorseningNeverHelps
<1>1. Ready /\ Ready' /\ [Next]_vars => [Permissiveness(Decision') <= Permissiveness(Decision)]_vars
  <2> SUFFICES ASSUME Ready, Ready', [Next]_vars
               PROVE  Permissiveness(Decision') <= Permissiveness(Decision)
    OBVIOUS
  <2> QED
    BY Worsening, DecisionStays
<1> QED
  BY <1>1, AlwaysReady, PTL DEF Spec, WorseningNeverHelps
=============================================================================
