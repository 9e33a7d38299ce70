------------------------ MODULE RecommendationProofs ------------------------
(***************************************************************************)
(* Proofs about Governance for any number of jobs, commits and faults:     *)
(* what a recommendation says of the run it cites is true for good.  The   *)
(* run read the files of the commit that was checked or of a later one,    *)
(* its serious findings are dismissed, and its risk is accounted for.      *)
(*                                                                         *)
(* The argument rests on the invariant of GovernanceProofs: the tables are *)
(* only extended for a run that one review is at work on, which no check   *)
(* has read as successful.                                                 *)
(***************************************************************************)
EXTENDS GovernanceProofs

-----------------------------------------------------------------------------
(* The inductive invariant.                                                *)

FollowPcs   == {"fetched", "recorded"}
HeadedPcs   == {"headed", "saving", "scored", "published"}
UnscoredPcs == {"created", "headRead", "fetched", "recorded", "headed", "saving"}
DecidedPcs  == {"approving", "decided"}
Plain(pc)   == pc \notin FollowPcs \cup HeadedPcs \cup UnscoredPcs \cup DecidedPcs \cup {"riskRead"}

Levels   == {"low", "medium", "high", "blocker", "none"}
RiskRows == [run : Nat, level : Levels]
Results  == Outcomes \cup {NoOutcome}

\* Files are read after the head, and a successful run has recorded both.
FilesFollow ==
  /\ \A j \in Jobs : job[j].pc \in FollowPcs => job[j].head <= job[j].seen
  /\ \A j \in Jobs :
       job[j].pc \in HeadedPcs => runs[job[j].run].head <= runs[job[j].run].seen
  /\ \A i \in Successful : runs[i].head <= runs[i].seen
  /\ \A i \in DOMAIN runs : runs[i].seen <= head

FindingsHold ==
  \A f \in findings : /\ DOMAIN f = {"run", "id", "severity", "status"}
                      /\ f.status \in {"open", "dismissed"}

\* A run has one risk score at most, none before its review stores it.
ScoredOnce ==
  /\ risks \in Seq(RiskRows)
  /\ \A j \in Jobs : /\ job[j].outcome \in Results
                     /\ job[j].pc = "riskRead" => job[j].risk \in Levels
  /\ \A i \in DOMAIN risks : risks[i].run \in DOMAIN runs
  /\ \A i, k \in DOMAIN risks : risks[i].run = risks[k].run => i = k
  /\ \A j \in Jobs : job[j].pc \in UnscoredPcs =>
       \A i \in DOMAIN risks : risks[i].run # job[j].run

Serious == {"blocker", "high", "medium"}

Handled(run) ==
  \A f \in findings : f.run = run /\ f.severity \in Serious => f.status = "dismissed"

Accounted(run) ==
  \A i \in DOMAIN risks :
    risks[i].run = run /\ risks[i].level # "low" =>
      \E k \in DOMAIN risks : k > i /\ risks[k].run # run /\ risks[k].level = "low"

Earned(run, h) ==
  run \in Successful /\ runs[run].head = h /\ Handled(run) /\ Accounted(run)

Advice ==
  /\ \A j \in Jobs :
       job[j].pc = "riskRead" /\ job[j].risk = "low" => Accounted(job[j].latest)
  /\ \A j \in Jobs :
       job[j].pc \in DecidedPcs /\ job[j].result = "approval_recommended" =>
         Earned(job[j].latest, job[j].head)
  /\ \A c \in checkRows : Recommended(c) => Earned(c.run, c.head)

Inv2 == FilesFollow /\ FindingsHold /\ ScoredOnce /\ Advice

-----------------------------------------------------------------------------
(* What a step of job j may do.                                            *)

RunsBy(j) ==
  \/ runs' = runs
  \/ \E row \in Rows : /\ row.status = "running" /\ row.seen <= head
                       /\ runs' = Append(runs, row)
  \/ /\ job[j].pc \in OpenPcs
     /\ \E row \in Rows : /\ row.seen <= head
                          /\ row.status = "success" => row.head <= row.seen
                          /\ runs' = [runs EXCEPT ![job[j].run] = row]

FindingsBy(j) ==
  \/ findings' = findings
  \/ /\ job[j].pc \in OpenPcs
     /\ \E f : findings' = findings \cup {[run |-> job[j].run, id |-> f.id,
                                           severity |-> f.severity, status |-> "open"]}
  \/ findings' = (findings \ OpenTarget) \cup
                   {[f EXCEPT !.status = "dismissed"] : f \in OpenTarget}

RisksBy(j) ==
  \/ risks' = risks
  \/ /\ job[j].pc = "saving" /\ job'[j].pc \notin UnscoredPcs
     /\ risks' = Append(risks, [run |-> job[j].run, level |-> job[j].outcome.level])

RowsBy(j) ==
  \/ checkRows' = checkRows
  \/ /\ job[j].pc = "decided"
     /\ \E c : /\ c.run = job[j].latest /\ c.head = job[j].head /\ c.result = job[j].result
               /\ checkRows' = checkRows \cup {c}

Gains(j) ==
  /\ job'[j].outcome \in Results
  /\ job'[j].pc = "riskRead" => job'[j].risk \in Levels
  /\ job'[j].pc \in FollowPcs => job'[j].head <= job'[j].seen
  /\ job'[j].pc \in HeadedPcs => runs'[job'[j].run].head <= runs'[job'[j].run].seen
  /\ job'[j].pc \in UnscoredPcs => \A i \in DOMAIN risks : risks[i].run # job'[j].run
  /\ job'[j].pc = "riskRead" => job'[j].latest \in Successful \cup {0}
  /\ job'[j].pc = "riskRead" /\ job'[j].risk = "low" => Accounted(job'[j].latest)
  /\ job'[j].pc \in DecidedPcs /\ job'[j].result = "approval_recommended" =>
       Earned(job'[j].latest, job'[j].head)

Touches(j) ==
  Only(j) /\ head' = head /\ RunsBy(j) /\ FindingsBy(j) /\ RisksBy(j) /\ RowsBy(j)

-----------------------------------------------------------------------------
(* What is true of a successful run stays true.                            *)

LEMMA RunsByKeeps ==
  ASSUME Inv, NEW j \in Jobs, RunsBy(j)
  PROVE  /\ DOMAIN runs \subseteq DOMAIN runs'
         /\ \A i \in DOMAIN runs :
              runs'[i] = runs[i] \/ (i = job[j].run /\ job[j].pc \in OpenPcs)
         /\ \A i \in Successful : runs'[i] = runs[i] /\ i \in Successful'
<1>1. /\ DOMAIN runs \subseteq DOMAIN runs'
      /\ \A i \in DOMAIN runs :
           runs'[i] = runs[i] \/ (i = job[j].run /\ job[j].pc \in OpenPcs)
  <2>1. CASE \E row \in Rows : runs' = Append(runs, row)
    BY <2>1 DEF Inv, Typed
  <2>2. CASE /\ job[j].pc \in OpenPcs
             /\ \E row \in Rows : runs' = [runs EXCEPT ![job[j].run] = row]
    BY <2>2 DEF Inv, Typed
  <2> QED
    BY <2>1, <2>2 DEF RunsBy
<1>2. job[j].pc \in OpenPcs => job[j].run \notin Successful
  BY DEF Inv, OwnRun, Successful
<1> QED
  BY <1>1, <1>2 DEF Successful

LEMMA HandledKept ==
  ASSUME Inv, Inv2, NEW j \in Jobs, FindingsBy(j), NEW run \in Successful, Handled(run)
  PROVE  Handled(run)'
<1> SUFFICES ASSUME NEW f \in findings', f.run = run, f.severity \in Serious
             PROVE  f.status = "dismissed"
  BY DEF Handled
<1>1. CASE f \in findings
  BY <1>1 DEF Handled
<1>2. CASE job[j].pc \in OpenPcs /\ f.run = job[j].run
  BY <1>2 DEF Inv, OwnRun, Successful
<1>3. CASE \E g \in findings : f = [g EXCEPT !.status = "dismissed"]
  BY <1>3 DEF Inv2, FindingsHold
<1> QED
  BY <1>1, <1>2, <1>3 DEF FindingsBy, OpenTarget

LEMMA FindingsByKeeps ==
  ASSUME Inv2, NEW j \in Jobs, FindingsBy(j)
  PROVE  FindingsHold'
<1> SUFFICES ASSUME NEW f \in findings'
             PROVE  /\ DOMAIN f = {"run", "id", "severity", "status"}
                    /\ f.status \in {"open", "dismissed"}
  BY DEF FindingsHold
<1>1. CASE f \in findings
  BY <1>1 DEF Inv2, FindingsHold
<1>2. CASE \E g : f = [run |-> job[j].run, id |-> g.id, severity |-> g.severity,
                       status |-> "open"]
  BY <1>2
<1>3. CASE \E g \in findings : f = [g EXCEPT !.status = "dismissed"]
  BY <1>3 DEF Inv2, FindingsHold
<1> QED
  BY <1>1, <1>2, <1>3 DEF FindingsBy, OpenTarget

LEMMA AppendedRisk ==
  ASSUME Inv, Inv2, NEW j \in Jobs, job[j].pc = "saving",
         risks' = Append(risks, [run |-> job[j].run, level |-> job[j].outcome.level])
  PROVE  /\ risks' \in Seq(RiskRows)
         /\ DOMAIN risks = 1 .. Len(risks) /\ DOMAIN risks' = 1 .. Len(risks) + 1
         /\ Len(risks) \in Nat
         /\ \A i \in DOMAIN risks : risks'[i] = risks[i] /\ risks[i].run # job[j].run
         /\ risks'[Len(risks) + 1].run = job[j].run
         /\ job[j].run \in DOMAIN runs /\ job[j].run \notin Successful
<1>1. job[j].run \in DOMAIN runs /\ job[j].run \notin Successful
  BY DEF Inv, OwnRun, Successful, OpenPcs, ReviewPcs
<1>2. job[j].run \in Nat /\ job[j].outcome.level \in Levels
  BY <1>1, OutcomesAssumption DEF Inv, Typed, Inv2, ScoredOnce, Results, Levels, NoOutcome
<1>3. \A i \in DOMAIN risks : risks[i].run # job[j].run
  BY DEF Inv2, ScoredOnce, UnscoredPcs
<1> DEFINE row == [run |-> job[j].run, level |-> job[j].outcome.level]
<1>4. row \in RiskRows /\ row.run = job[j].run
  BY <1>2 DEF RiskRows
<1> HIDE DEF row
<1>5. risks \in Seq(RiskRows) /\ risks' = Append(risks, row)
  BY DEF Inv2, ScoredOnce, row
<1> QED
  BY <1>1, <1>3, <1>4, <1>5

LEMMA AccountedKept ==
  ASSUME Inv, Inv2, NEW j \in Jobs, RisksBy(j), NEW run \in Successful \cup {0},
         Accounted(run)
  PROVE  Accounted(run)'
<1>1. CASE risks' = risks
  BY <1>1 DEF Accounted
<1>2. CASE /\ job[j].pc = "saving"
           /\ risks' = Append(risks, [run |-> job[j].run, level |-> job[j].outcome.level])
  <2>1. job[j].run # run
    BY <1>2, AppendedRisk, RunsTyped DEF Inv
  <2> SUFFICES ASSUME NEW i \in DOMAIN risks', risks'[i].run = run, risks'[i].level # "low"
               PROVE  \E k \in DOMAIN risks' :
                        k > i /\ risks'[k].run # run /\ risks'[k].level = "low"
    BY DEF Accounted
  <2>2. i \in DOMAIN risks /\ risks'[i] = risks[i]
    BY <1>2, <2>1, AppendedRisk
  <2>3. PICK k \in DOMAIN risks : k > i /\ risks[k].run # run /\ risks[k].level = "low"
    BY <2>2 DEF Accounted
  <2> QED
    BY <1>2, <2>3, AppendedRisk
<1> QED
  BY <1>1, <1>2 DEF RisksBy

LEMMA EarnedKept ==
  ASSUME Inv, Inv2, NEW j \in Jobs, RunsBy(j), FindingsBy(j), RisksBy(j),
         NEW run, NEW h, Earned(run, h)
  PROVE  Earned(run, h)'
<1>1. run \in Successful /\ runs[run].head = h /\ Handled(run) /\ Accounted(run)
  BY DEF Earned
<1>2. run \in Successful' /\ runs'[run].head = h
  BY <1>1, RunsByKeeps
<1>3. Handled(run)' /\ Accounted(run)'
  BY <1>1, HandledKept, AccountedKept
<1> QED
  BY <1>2, <1>3 DEF Earned

-----------------------------------------------------------------------------
(* The invariant survives a step of one job.                               *)

\* What the other jobs hold.
LEMMA StayGains ==
  ASSUME Inv, Inv2, NEW j \in Jobs, RunsBy(j), NEW k \in Jobs, k # j, job'[k] = job[k]
  PROVE  Gains(k)
<1>1. job[k].pc \in HeadedPcs => runs'[job[k].run] = runs[job[k].run]
  <2> SUFFICES ASSUME job[k].pc \in HeadedPcs PROVE runs'[job[k].run] = runs[job[k].run]
    OBVIOUS
  <2>1. job[k].pc \in OpenPcs /\ job[k].run \in DOMAIN runs
    BY DEF HeadedPcs, OpenPcs, ReviewPcs, Inv, OwnRun
  <2>2. job[j].pc \in OpenPcs => job[j].run # job[k].run
    BY <2>1 DEF Inv, OwnRun
  <2> QED
    BY <2>1, <2>2, RunsByKeeps
<1>2. /\ job[k].outcome \in Results
      /\ job[k].pc = "riskRead" => job[k].risk \in Levels
      /\ job[k].pc \in FollowPcs => job[k].head <= job[k].seen
      /\ job[k].pc \in UnscoredPcs => \A i \in DOMAIN risks : risks[i].run # job[k].run
      /\ job[k].pc \in HeadedPcs => runs'[job[k].run].head <= runs'[job[k].run].seen
  BY <1>1 DEF Inv2, ScoredOnce, FilesFollow
<1>3. /\ job[k].pc = "riskRead" => job[k].latest \in Successful \cup {0}
      /\ job[k].pc = "riskRead" /\ job[k].risk = "low" => Accounted(job[k].latest)
      /\ job[k].pc \in DecidedPcs /\ job[k].result = "approval_recommended" =>
           Earned(job[k].latest, job[k].head)
  BY DEF Inv2, Advice, Inv, ReadIsTrue, RunRead
<1> QED
  BY <1>2, <1>3 DEF Gains

LEMMA StepInv2 ==
  ASSUME Inv, Inv', Inv2, NEW j \in Jobs, Touches(j), Gains(j)
  PROVE  Inv2'
<1> USE DEF Touches
<1>1. \A k \in Jobs : Gains(k)
  BY StayGains DEF Only
<1>2. FilesFollow'
  <2>1. /\ \A k \in Jobs : job'[k].pc \in FollowPcs => job'[k].head <= job'[k].seen
        /\ \A k \in Jobs : job'[k].pc \in HeadedPcs =>
             runs'[job'[k].run].head <= runs'[job'[k].run].seen
    BY <1>1 DEF Gains
  <2>2. \A i \in DOMAIN runs' : runs'[i].seen <= head
    BY DEF RunsBy, Inv, Typed, Inv2, FilesFollow
  <2>3. ASSUME NEW i \in Successful' PROVE runs'[i].head <= runs'[i].seen
    <3>1. CASE i \in Successful
      BY <3>1, RunsByKeeps DEF Inv2, FilesFollow
    <3>2. CASE i \notin Successful
      <4>1. i \in DOMAIN runs' /\ runs'[i].status = "success"
        BY <2>3 DEF Successful
      <4>2. CASE runs' = runs
        BY <3>2, <4>1, <4>2 DEF Successful
      <4>3. CASE \E row \in Rows : row.status = "running" /\ runs' = Append(runs, row)
        BY <3>2, <4>1, <4>3 DEF Successful, Inv, Typed
      <4>4. CASE \E row \in Rows : /\ row.status = "success" => row.head <= row.seen
                                   /\ runs' = [runs EXCEPT ![job[j].run] = row]
        BY <3>2, <4>1, <4>4 DEF Successful, Inv, Typed
      <4> QED
        BY <4>2, <4>3, <4>4 DEF RunsBy
    <3> QED
      BY <3>1, <3>2
  <2> QED
    BY <2>1, <2>2, <2>3 DEF FilesFollow
<1>3. FindingsHold'
  BY FindingsByKeeps
<1>4. ScoredOnce'
  <2>1. \A k \in Jobs : /\ job'[k].outcome \in Results
                        /\ job'[k].pc = "riskRead" => job'[k].risk \in Levels
    BY <1>1 DEF Gains
  <2>2. CASE risks' = risks
    BY <1>1, <2>1, <2>2, RunsByKeeps DEF ScoredOnce, Inv2, Gains
  <2>3. CASE /\ job[j].pc = "saving" /\ job'[j].pc \notin UnscoredPcs
             /\ risks' = Append(risks, [run |-> job[j].run, level |-> job[j].outcome.level])
    <3>1. \A i \in DOMAIN risks' : risks'[i].run \in DOMAIN runs'
      BY <2>3, AppendedRisk, RunsByKeeps DEF Inv2, ScoredOnce
    <3>2. \A i, k \in DOMAIN risks' : risks'[i].run = risks'[k].run => i = k
      BY <2>3, AppendedRisk DEF Inv2, ScoredOnce
    <3>3. ASSUME NEW k \in Jobs, job'[k].pc \in UnscoredPcs, NEW i \in DOMAIN risks'
          PROVE  risks'[i].run # job'[k].run
      <4>1. k # j /\ job'[k] = job[k]
        BY <2>3, <3>3 DEF Only
      <4>2. job[k].run # job[j].run
        BY <2>3, <3>3, <4>1 DEF Inv, OwnRun, UnscoredPcs, OpenPcs, ReviewPcs
      <4>3. CASE i \in DOMAIN risks
        BY <2>3, <3>3, <4>1, <4>3, AppendedRisk DEF Inv2, ScoredOnce
      <4>4. CASE i = Len(risks) + 1
        BY <2>3, <4>1, <4>2, <4>4, AppendedRisk
      <4> QED
        BY <2>3, <4>3, <4>4, AppendedRisk
    <3> QED
      BY <2>1, <2>3, <3>1, <3>2, <3>3, AppendedRisk DEF ScoredOnce
  <2> QED
    BY <2>2, <2>3 DEF RisksBy
<1>5. Advice'
  <2>1. ASSUME NEW k \in Jobs, job'[k].pc = "riskRead", job'[k].risk = "low"
        PROVE  Accounted(job[k].latest)'
    <3>1. PICK run : run = job'[k].latest
      OBVIOUS
    <3>2. Accounted(run) /\ run \in Successful \cup {0}
      BY <1>1, <2>1, <3>1 DEF Gains
    <3>3. Accounted(run)'
      BY <3>2, AccountedKept
    <3> QED
      BY <3>1, <3>3
  <2>2. ASSUME NEW k \in Jobs, job'[k].pc \in DecidedPcs,
               job'[k].result = "approval_recommended"
        PROVE  Earned(job[k].latest, job[k].head)'
    <3>1. PICK run, h : run = job'[k].latest /\ h = job'[k].head
      OBVIOUS
    <3>2. Earned(run, h)
      BY <1>1, <2>2, <3>1 DEF Gains
    <3>3. Earned(run, h)'
      BY <3>2, EarnedKept
    <3> QED
      BY <3>1, <3>3
  <2>3. ASSUME NEW c \in checkRows', Recommended(c) PROVE Earned(c.run, c.head)'
    <3>1. Earned(c.run, c.head)
      <4>1. CASE c \in checkRows
        BY <2>3, <4>1 DEF Inv2, Advice
      <4>2. CASE c \notin checkRows
        <5>1. /\ job[j].pc = "decided" /\ c.run = job[j].latest /\ c.head = job[j].head
              /\ c.result = job[j].result
          BY <2>3, <4>2 DEF RowsBy
        <5> QED
          BY <2>3, <5>1 DEF Inv2, Advice, DecidedPcs, Recommended
      <4> QED
        BY <4>1, <4>2
    <3>2. PICK run, h : run = c.run /\ h = c.head
      OBVIOUS
    <3>3. Earned(run, h)'
      BY <3>1, <3>2, EarnedKept
    <3> QED
      BY <3>2, <3>3
  <2> QED
    BY <2>1, <2>2, <2>3 DEF Advice
<1> QED
  BY <1>2, <1>3, <1>4, <1>5 DEF Inv2

-----------------------------------------------------------------------------
(* The initial state, and one lemma for each handler.                      *)

LEMMA Init2 == Init => Inv2
<1> SUFFICES ASSUME Init PROVE Inv2
  OBVIOUS
<1>1. \A j \in Jobs : job[j].pc \in {"queued", "done"} /\ job[j].outcome = NoOutcome
  BY DEF Init, Fresh
<1>2. FilesFollow /\ FindingsHold
  BY <1>1 DEF Init, FilesFollow, FindingsHold, FollowPcs, HeadedPcs, Successful
<1>3. ScoredOnce
  BY <1>1 DEF Init, ScoredOnce, UnscoredPcs, Results
<1>4. Advice
  BY <1>1 DEF Init, Advice, DecidedPcs
<1> QED
  BY <1>2, <1>3, <1>4 DEF Inv2

Kept == UNCHANGED <<head, runs, findings, risks, checkRows>>

LEMMA QuietStep2 ==
  ASSUME Inv, Inv', Inv2, NEW j \in Jobs, Only(j), Gains(j), Kept
  PROVE  Inv2' /\ Touches(j)
<1>1. Touches(j)
  BY DEF Touches, Kept, RunsBy, FindingsBy, RisksBy, RowsBy
<1> QED
  BY <1>1, StepInv2

LEMMA PlainGains ==
  ASSUME NEW j \in Jobs, job'[j].outcome \in Results, Plain(job'[j].pc)
  PROVE  Gains(j)
BY DEF Gains, Plain

LEMMA OutcomeIs ==
  ASSUME Inv2, NEW j \in Jobs
  PROVE  job[j].outcome \in Results
BY DEF Inv2, ScoredOnce

LEMMA GotoKeeps ==
  ASSUME Inv, NEW j \in Jobs, NEW pc, Goto(j, pc)
  PROVE  /\ Only(j) /\ job'[j].pc = pc
         /\ job'[j].head = job[j].head /\ job'[j].seen = job[j].seen
         /\ job'[j].run = job[j].run /\ job'[j].latest = job[j].latest
         /\ job'[j].outcome = job[j].outcome /\ job'[j].result = job[j].result
BY JobIs DEF Only, Goto

LEMMA PlainGoto ==
  ASSUME Inv, Inv', Inv2, NEW j \in Jobs, NEW pc, Goto(j, pc), Plain(pc), Kept
  PROVE  Inv2' /\ Touches(j)
BY GotoKeeps, OutcomeIs, PlainGains, QuietStep2

PlainPcs ==
  {"queued", "done", "dead", "placed", "finished", "erring", "erring2", "returning",
   "prepared", "permitted", "refused", "abandoning", "answering", "toCheck", "checking",
   "ciRead", "runRead", "saved"}

LEMMA PlainPcsPlain == \A pc \in PlainPcs : Plain(pc)
BY DEF PlainPcs, Plain, FollowPcs, HeadedPcs, UnscoredPcs, DecidedPcs

LEMMA Returns2 ==
  ASSUME Inv, Inv2, NEW j \in Jobs,
         job' = [job EXCEPT ![j].pc = "returning", ![j].ok = FALSE]
  PROVE  Only(j) /\ Gains(j) /\ job'[j].pc = "returning"
<1>1. Only(j) /\ job'[j].pc = "returning" /\ job'[j].outcome = job[j].outcome
  BY JobIs DEF Only
<1> QED
  BY <1>1, OutcomeIs, PlainGains, PlainPcsPlain DEF PlainPcs

\* A job that begins.
LEMMA Begins2 ==
  ASSUME Inv, Inv', Inv2, NEW j \in Jobs, StartReview(j) \/ PrepareCommand(j)
  PROVE  Inv2' /\ Touches(j)
<1>1. Kept
  BY DEF StartReview, PrepareCommand, SetPR, Attempted, External, tables, Kept
<1>2. Only(j) /\ job'[j].pc \in PlainPcs /\ job'[j].outcome = NoOutcome
  <2>1. CASE StartReview(j)
    <3>1. PICK h, n :
            LET begun == [Fresh EXCEPT !.attempt = n, !.head = h] IN
            \/ job' = [job EXCEPT ![j] = [begun EXCEPT !.pc = "placed"]]
            \/ job' = [job EXCEPT ![j] = [begun EXCEPT !.pc = "returning", !.ok = FALSE]]
      BY <2>1 DEF StartReview
    <3> DEFINE placed == [[Fresh EXCEPT !.attempt = n, !.head = h] EXCEPT !.pc = "placed"]
               failed == [[Fresh EXCEPT !.attempt = n, !.head = h]
                            EXCEPT !.pc = "returning", !.ok = FALSE]
    <3>2. placed.pc = "placed" /\ placed.outcome = NoOutcome
      BY DEF Fresh
    <3>3. failed.pc = "returning" /\ failed.outcome = NoOutcome
      BY DEF Fresh
    <3>4. job' = [job EXCEPT ![j] = placed] \/ job' = [job EXCEPT ![j] = failed]
      BY <3>1
    <3> HIDE DEF placed, failed
    <3>5. Only(j) /\ (job'[j] = placed \/ job'[j] = failed)
      BY <3>4, JobIs DEF Only
    <3> QED
      BY <3>2, <3>3, <3>5 DEF PlainPcs
  <2>2. CASE PrepareCommand(j)
    <3>1. PICK n, pc :
            /\ pc \in {"prepared", "queued", "dead"}
            /\ job' = [job EXCEPT ![j] = [[Fresh EXCEPT !.attempt = n] EXCEPT !.pc = pc]]
      BY <2>2 DEF PrepareCommand
    <3> QED
      BY <3>1, JobIs DEF Only, Fresh, PlainPcs
  <2> QED
    BY <2>1, <2>2
<1> QED
  BY <1>1, <1>2, PlainPcsPlain, PlainGains, QuietStep2 DEF Results

LEMMA Create2 ==
  ASSUME Inv, Inv', Inv2, NEW j \in Jobs, CreateReviewRun(j) PROVE Inv2' /\ Touches(j)
<1> DEFINE row == [head |-> job[j].head, status |-> "running", stamp |-> 0, seen |-> 0]
<1>1. row \in Rows /\ row.status = "running" /\ row.seen <= head
  BY JobIs, HeadTyped DEF Rows, RunStatus, Inv
<1>2. runs' = runs \/ runs' = Append(runs, row)
  BY DEF CreateReviewRun, AddRun, Attempted, tables
<1>3. RunsBy(j) /\ UNCHANGED <<head, findings, risks, checkRows>>
  BY <1>1, <1>2 DEF RunsBy, CreateReviewRun, AddRun, Attempted, External, tables
<1> HIDE DEF row
<1>4. Only(j) /\ Gains(j)
  <2>1. CASE job' = [job EXCEPT ![j].pc = "returning", ![j].ok = FALSE]
    BY <2>1, Returns2
  <2>2. CASE job' = [job EXCEPT ![j].pc = "created", ![j].run = Len(runs) + 1]
    <3>1. /\ Only(j) /\ job'[j].pc = "created" /\ job'[j].outcome = job[j].outcome
          /\ job'[j].run = Len(runs) + 1
      BY <2>2, JobIs DEF Only
    <3>2. \A i \in DOMAIN risks : risks[i].run # Len(runs) + 1
      BY RunsTyped DEF Inv, Inv2, ScoredOnce
    <3> QED
      BY <3>1, <3>2, OutcomeIs DEF Gains, FollowPcs, HeadedPcs, DecidedPcs
  <2> QED
    BY <2>1, <2>2 DEF CreateReviewRun
<1> QED
  BY <1>3, <1>4, StepInv2 DEF Touches, FindingsBy, RisksBy, RowsBy

\* The steps that write no table this is about.
LEMMA ReviewReads2 ==
  ASSUME Inv, Inv', Inv2, NEW j \in Jobs,
         \/ FetchHead(j) \/ FetchFiles(j) \/ RecordPullRequest(j) \/ Review(j)
         \/ PublishReview(j)
  PROVE  Inv2' /\ Touches(j)
<1>1. Kept
  BY DEF FetchHead, FetchFiles, RecordPullRequest, Review, PublishReview, Call, SetPR,
         Attempted, External, tables, Kept
<1>2. CASE Goto(j, "erring")
  BY <1>1, <1>2, PlainGoto, PlainPcsPlain DEF PlainPcs
<1>3. CASE FetchHead(j) /\ ~Goto(j, "erring")
  <2>1. At(j, "created") /\ job' = [job EXCEPT ![j].pc = "headRead", ![j].head = head]
    BY <1>3 DEF FetchHead
  <2>2. /\ Only(j) /\ job'[j].pc = "headRead" /\ job'[j].outcome = job[j].outcome
        /\ job'[j].run = job[j].run
    BY <2>1, JobIs DEF Only
  <2>3. Gains(j)
    BY <2>1, <2>2
       DEF Gains, At, FollowPcs, HeadedPcs, UnscoredPcs, DecidedPcs, Inv2, ScoredOnce
  <2> QED
    BY <1>1, <2>2, <2>3, QuietStep2
<1>4. CASE FetchFiles(j) /\ ~Goto(j, "erring")
  <2>1. At(j, "headRead") /\ job' = [job EXCEPT ![j].pc = "fetched", ![j].seen = head]
    BY <1>4 DEF FetchFiles
  <2>2. /\ Only(j) /\ job'[j].pc = "fetched" /\ job'[j].outcome = job[j].outcome
        /\ job'[j].run = job[j].run /\ job'[j].head = job[j].head /\ job'[j].seen = head
    BY <2>1, JobIs DEF Only
  <2>3. job'[j].head <= job'[j].seen
    BY <2>2, JobIs, HeadTyped DEF Inv
  <2>4. Gains(j)
    BY <2>1, <2>2, <2>3
       DEF Gains, At, FollowPcs, HeadedPcs, UnscoredPcs, DecidedPcs, Inv2, ScoredOnce
  <2> QED
    BY <1>1, <2>2, <2>4, QuietStep2
<1>5. CASE RecordPullRequest(j) /\ ~Goto(j, "erring")
  <2>1. At(j, "fetched") /\ Goto(j, "recorded")
    BY <1>5 DEF RecordPullRequest, Call
  <2>2. Gains(j)
    BY <2>1, GotoKeeps
       DEF Gains, At, FollowPcs, HeadedPcs, UnscoredPcs, DecidedPcs, Inv2, ScoredOnce,
           FilesFollow
  <2> QED
    BY <1>1, <2>1, <2>2, GotoKeeps, QuietStep2
<1>6. CASE Review(j) /\ ~Goto(j, "erring")
  <2>1. PICK o \in load.outcomes :
          job' = [job EXCEPT ![j].pc = "saving", ![j].outcome = o, ![j].todo = o.findings]
    BY <1>6 DEF Review
  <2>2. At(j, "headed") /\ o \in Results /\ UNCHANGED runs
    BY <1>1, <1>6, LoadsAssumption DEF Review, Inv, Typed, Results, Kept
  <2>3. Only(j) /\ job'[j].pc = "saving" /\ job'[j].outcome = o /\ job'[j].run = job[j].run
    BY <2>1, JobIs DEF Only
  <2>4. Gains(j)
    BY <2>2, <2>3
       DEF Gains, At, FollowPcs, HeadedPcs, UnscoredPcs, DecidedPcs, Inv2, ScoredOnce,
           FilesFollow
  <2> QED
    BY <1>1, <2>3, <2>4, QuietStep2
<1>7. CASE PublishReview(j) /\ ~Goto(j, "erring")
  <2>1. At(j, "scored") /\ Goto(j, "published") /\ UNCHANGED runs
    BY <1>7, <1>1 DEF PublishReview, Kept
  <2>2. Gains(j)
    BY <2>1, GotoKeeps
       DEF Gains, At, FollowPcs, HeadedPcs, UnscoredPcs, DecidedPcs, Inv2, ScoredOnce,
           FilesFollow
  <2> QED
    BY <1>1, <2>1, <2>2, GotoKeeps, QuietStep2
<1> QED
  BY <1>2, <1>3, <1>4, <1>5, <1>6, <1>7

LEMMA UpdateHead2 ==
  ASSUME Inv, Inv', Inv2, NEW j \in Jobs, UpdateReviewRunHeadSHA(j) PROVE Inv2' /\ Touches(j)
<1> DEFINE row == [runs[job[j].run] EXCEPT !.head = job[j].head, !.seen = job[j].seen]
<1>1. job[j].pc = "recorded" /\ job[j].pc \in OpenPcs
  BY DEF UpdateReviewRunHeadSHA, At, OpenPcs, ReviewPcs
<1>2. /\ job[j].run \in DOMAIN runs /\ runs[job[j].run] \in Rows
      /\ runs[job[j].run].status # "success"
  BY <1>1, RunsTyped DEF Inv, OwnRun
<1>3. /\ job[j].head \in Nat /\ job[j].seen \in Nat /\ job[j].seen <= head
      /\ job[j].head <= job[j].seen
  BY <1>1, JobIs, HeadTyped DEF Inv, Inv2, FilesFollow, FollowPcs
<1>4. row \in Rows /\ row.head <= row.seen /\ row.seen <= head
  BY <1>2, <1>3 DEF Rows
<1>5. PICK pc \in {"headed", "erring"} : Goto(j, pc)
  BY DEF UpdateReviewRunHeadSHA, Call
<1>6. /\ runs' = runs \/ runs' = [runs EXCEPT ![job[j].run] = row]
      /\ pc = "headed" => runs' = [runs EXCEPT ![job[j].run] = row]
      /\ UNCHANGED <<head, findings, risks, checkRows>>
  <2>1. job'[j].pc = pc
    BY <1>5, GotoKeeps
  <2>2. CASE Goto(j, "headed") /\ SetRun(job[j].run, row)
    BY <2>2 DEF SetRun, UpdateReviewRunHeadSHA, External
  <2>3. CASE Goto(j, "erring") /\ Attempted(SetRun(job[j].run, row))
    <3>1. pc = "erring"
      BY <2>1, <2>3, GotoKeeps
    <3> QED
      BY <2>3, <3>1 DEF SetRun, UpdateReviewRunHeadSHA, External, Attempted, tables
  <2> QED
    BY <2>2, <2>3 DEF UpdateReviewRunHeadSHA, Call
<1> HIDE DEF row
<1>7. RunsBy(j)
  BY <1>1, <1>4, <1>6 DEF RunsBy
<1>8. Gains(j)
  <2>1. CASE pc = "erring"
    BY <1>5, <2>1, GotoKeeps, OutcomeIs, PlainGains, PlainPcsPlain DEF PlainPcs
  <2>2. CASE pc = "headed"
    <3>1. runs'[job[j].run] = row
      BY <1>2, <1>6, <2>2 DEF Inv, Typed
    <3> QED
      BY <1>1, <1>4, <1>5, <2>2, <3>1, GotoKeeps
         DEF Gains, FollowPcs, HeadedPcs, UnscoredPcs, DecidedPcs, Inv2, ScoredOnce
  <2> QED
    BY <2>1, <2>2
<1> QED
  BY <1>5, <1>6, <1>7, <1>8, GotoKeeps, StepInv2 DEF Touches, FindingsBy, RisksBy, RowsBy

LEMMA SaveFinding2 ==
  ASSUME Inv, Inv', Inv2, NEW j \in Jobs, SaveFinding(j) PROVE Inv2' /\ Touches(j)
<1>1. job[j].pc = "saving" /\ UNCHANGED <<head, runs, risks, checkRows>>
  BY DEF SaveFinding, AddFinding, Attempted, External, tables, At
<1>2. FindingsBy(j)
  BY <1>1 DEF SaveFinding, AddFinding, Attempted, tables, FindingsBy, OpenPcs, ReviewPcs
<1>3. CASE Goto(j, "erring")
  <2>1. Only(j) /\ Gains(j)
    BY <1>3, GotoKeeps, OutcomeIs, PlainGains, PlainPcsPlain DEF PlainPcs
  <2> QED
    BY <1>1, <1>2, <2>1, StepInv2 DEF Touches, RunsBy, RisksBy, RowsBy
<1>4. CASE \E f : job' = [job EXCEPT ![j].todo = @ \ {f}]
  <2>1. /\ Only(j) /\ job'[j].pc = "saving" /\ job'[j].outcome = job[j].outcome
        /\ job'[j].run = job[j].run
    BY <1>1, <1>4, JobIs DEF Only
  <2>2. Gains(j)
    BY <1>1, <2>1
       DEF Gains, FollowPcs, HeadedPcs, UnscoredPcs, DecidedPcs, Inv2, ScoredOnce, FilesFollow
  <2> QED
    BY <1>1, <1>2, <2>1, <2>2, StepInv2 DEF Touches, RunsBy, RisksBy, RowsBy
<1> QED
  BY <1>3, <1>4 DEF SaveFinding

LEMMA SaveRisk2 ==
  ASSUME Inv, Inv', Inv2, NEW j \in Jobs, SaveRiskScore(j) PROVE Inv2' /\ Touches(j)
<1>1. job[j].pc = "saving" /\ UNCHANGED <<head, runs, findings, checkRows>>
  BY DEF SaveRiskScore, Call, Attempted, External, tables, At
<1>2. PICK pc \in {"scored", "erring"} : Goto(j, pc)
  BY DEF SaveRiskScore, Call
<1>3. RisksBy(j)
  BY <1>1, <1>2, GotoKeeps DEF SaveRiskScore, Call, Attempted, tables, RisksBy, UnscoredPcs
<1>4. Gains(j)
  <2>1. CASE pc = "erring"
    BY <1>2, <2>1, GotoKeeps, OutcomeIs, PlainGains, PlainPcsPlain DEF PlainPcs
  <2>2. CASE pc = "scored"
    BY <1>1, <1>2, <2>2, GotoKeeps
       DEF Gains, FollowPcs, HeadedPcs, UnscoredPcs, DecidedPcs, Inv2, ScoredOnce, FilesFollow
  <2> QED
    BY <2>1, <2>2
<1> QED
  BY <1>1, <1>2, <1>3, <1>4, GotoKeeps, StepInv2 DEF Touches, RunsBy, FindingsBy, RowsBy

LEMMA Finish2 ==
  ASSUME Inv, Inv', Inv2, NEW j \in Jobs, FinishReviewRun(j) \/ FailReviewRun(j)
  PROVE  Inv2' /\ Touches(j)
<1>1. job[j].pc \in {"published", "erring"} /\ job[j].pc \in OpenPcs
  BY DEF FinishReviewRun, FailReviewRun, At, OpenPcs, ReviewPcs
<1>2. UNCHANGED <<head, findings, risks, checkRows>>
  BY DEF FinishReviewRun, FailReviewRun, Finish, SetRun, Try, Attempted, External, tables
<1>3. Only(j) /\ Gains(j)
  <2>1. CASE \E pc \in {"finished", "erring2"} : Goto(j, pc)
    BY <2>1, GotoKeeps, OutcomeIs, PlainGains, PlainPcsPlain DEF PlainPcs
  <2>2. CASE job' = [job EXCEPT ![j].pc = "returning", ![j].ok = FALSE]
    BY <2>2, Returns2
  <2> QED
    BY <2>1, <2>2 DEF FinishReviewRun, FailReviewRun, Try
<1>4. PICK status \in RunStatus :
        /\ Attempted(Finish(j, status))
        /\ status = "success" => job[j].pc = "published"
  BY DEF FinishReviewRun, FailReviewRun, Try, Attempted, RunStatus, At
<1>5. RunsBy(j)
  <2>1. CASE runs' = runs
    BY <2>1 DEF RunsBy
  <2>2. CASE Finish(j, status)
    <3>1. PICK stamp \in NextStamps :
            runs' = [runs EXCEPT ![job[j].run] =
                       [runs[job[j].run] EXCEPT !.status = status, !.stamp = stamp]]
      BY <2>2 DEF Finish, SetRun
    <3> DEFINE row == [runs[job[j].run] EXCEPT !.status = status, !.stamp = stamp]
    <3>2. /\ job[j].run \in DOMAIN runs /\ runs[job[j].run] \in Rows /\ Len(runs) \in Nat
          /\ runs[job[j].run].seen <= head
      BY <1>1, RunsTyped DEF Inv, OwnRun, Inv2, FilesFollow
    <3>3. stamp \in Nat
      BY <3>2 DEF NextStamps
    <3>4. /\ row \in Rows /\ row.status = status /\ row.seen = runs[job[j].run].seen
          /\ row.head = runs[job[j].run].head
      BY <3>2, <3>3 DEF Rows
    <3>5. status = "success" => runs[job[j].run].head <= runs[job[j].run].seen
      BY <1>4 DEF HeadedPcs, Inv2, FilesFollow
    <3> HIDE DEF row
    <3>6. runs' = [runs EXCEPT ![job[j].run] = row]
      BY <3>1 DEF row
    <3> QED
      BY <1>1, <3>2, <3>4, <3>5, <3>6 DEF RunsBy
  <2> QED
    BY <1>4, <2>1, <2>2 DEF Attempted, tables
<1> QED
  BY <1>2, <1>3, <1>5, StepInv2 DEF Touches, FindingsBy, RisksBy, RowsBy

LEMMA ReviewEnds2 ==
  ASSUME Inv, Inv', Inv2, NEW j \in Jobs,
         MarkReviewed(j) \/ MarkReviewFailed(j) \/ Expire(j) \/ ReturnReview(j)
  PROVE  Inv2' /\ Touches(j)
<1>1. Kept
  BY DEF MarkReviewed, MarkReviewFailed, Expire, ReturnReview, SetStatus, SetCommand, Call,
         Try, Attempted, External, tables, Kept
<1>2. CASE job' = [job EXCEPT ![j].pc = "returning", ![j].ok = FALSE]
  BY <1>1, <1>2, Returns2, QuietStep2
<1>3. CASE \E pc \in {"returning", "done", "queued", "dead"} : Goto(j, pc)
  BY <1>1, <1>3, PlainGoto, PlainPcsPlain DEF PlainPcs
<1> QED
  BY <1>2, <1>3
     DEF MarkReviewed, MarkReviewFailed, Expire, ReturnReview, Call, Try, Failed

LEMMA ReviewStep2 ==
  ASSUME Inv, Inv', Inv2, NEW j \in Jobs, ReviewStep(j) PROVE Inv2' /\ Touches(j)
BY Begins2, Create2, ReviewReads2, UpdateHead2, SaveFinding2, SaveRisk2, Finish2, ReviewEnds2
   DEF ReviewStep

LEMMA CommandStep2 ==
  ASSUME Inv, Inv', Inv2, NEW j \in Jobs, CommandStep(j) PROVE Inv2' /\ Touches(j)
<1>1. CASE PrepareCommand(j)
  BY <1>1, Begins2
<1>2. CASE ~PrepareCommand(j)
  <2>1. Kept
    BY <1>2 DEF CommandStep, CheckPermission, RefuseCommand, AbandonCommand, AnswerCommand,
           SetCommand, Call, Try, Attempted, External, tables, Kept
  <2>2. \E pc \in {"permitted", "refused", "abandoning", "done", "queued", "dead"} :
          Goto(j, pc)
    BY <1>2 DEF CommandStep, CheckPermission, RefuseCommand, AbandonCommand, AnswerCommand,
           Call, Try, Failed
  <2> QED
    BY <2>1, <2>2, PlainGoto, PlainPcsPlain DEF PlainPcs
<1> QED
  BY <1>1, <1>2

LEMMA Dismiss2 ==
  ASSUME Inv, Inv', Inv2, NEW j \in Jobs, DismissFinding(j) PROVE Inv2' /\ Touches(j)
<1>1. UNCHANGED <<head, runs, risks, checkRows>> /\ FindingsBy(j)
  BY DEF DismissFinding, CloseTarget, Attempted, External, tables, FindingsBy
<1>2. \E pc \in {"answering", "refused", "abandoning"} : Goto(j, pc)
  BY DEF DismissFinding
<1>3. Only(j) /\ Gains(j)
  BY <1>2, GotoKeeps, OutcomeIs, PlainGains, PlainPcsPlain DEF PlainPcs
<1> QED
  BY <1>1, <1>3, StepInv2 DEF Touches, RunsBy, RisksBy, RowsBy

\* The steps of a check, and a question, that nothing is claimed of.
LEMMA CheckGoesOn2 ==
  ASSUME Inv, Inv', Inv2, NEW j \in Jobs,
         \/ ReadRiskToAnswer(j) \/ FetchHeadToCheck(j) \/ MarkChecking(j) \/ FetchChecks(j)
         \/ ReadLatestRun(j) \/ MarkDecided(j)
  PROVE  Inv2' /\ Touches(j)
<1>1. Kept
  BY DEF ReadRiskToAnswer, FetchHeadToCheck, MarkChecking, FetchChecks, ReadLatestRun,
         MarkDecided, SetPR, SetStatus, Call, Attempted, External, tables, Kept
<1>2. CASE \E pc \in {"answering", "abandoning", "checking"} : Goto(j, pc)
  BY <1>1, <1>2, PlainGoto, PlainPcsPlain DEF PlainPcs
<1>3. CASE \/ job' = [job EXCEPT ![j].pc = "toCheck", ![j].head = head]
           \/ \E s : job' = [job EXCEPT ![j].pc = "ciRead", ![j].ci = s]
           \/ \E run : job' = [job EXCEPT ![j].pc = "runRead", ![j].latest = run]
  <2>1. /\ Only(j) /\ job'[j].pc \in {"toCheck", "ciRead", "runRead"}
        /\ job'[j].outcome = job[j].outcome
    BY <1>3, JobIs DEF Only
  <2>2. Gains(j)
    BY <2>1, OutcomeIs, PlainGains, PlainPcsPlain DEF PlainPcs
  <2> QED
    BY <1>1, <2>1, <2>2, QuietStep2
<1> QED
  BY <1>2, <1>3 DEF ReadRiskToAnswer, FetchHeadToCheck, MarkChecking, FetchChecks,
                    ReadLatestRun, MarkDecided, Call

LEMMA ReadRisk2 ==
  ASSUME Inv, Inv', Inv2, NEW j \in Jobs, ReadRisk(j) PROVE Inv2' /\ Touches(j)
<1>1. Kept /\ job[j].pc = "runRead" /\ job[j].latest \in Successful \cup {0}
  BY DEF ReadRisk, External, tables, Kept, At, Inv, ReadIsTrue, RunRead
<1>2. CASE Goto(j, "abandoning")
  BY <1>1, <1>2, PlainGoto, PlainPcsPlain DEF PlainPcs
<1>3. CASE job' = [job EXCEPT ![j].pc = "riskRead", ![j].risk = LatestRiskLevel]
  <2>1. /\ Only(j) /\ job'[j].pc = "riskRead" /\ job'[j].outcome = job[j].outcome
        /\ job'[j].latest = job[j].latest /\ job'[j].risk = LatestRiskLevel
    BY <1>3, JobIs DEF Only
  <2>2. /\ risks \in Seq(RiskRows) /\ Len(risks) \in Nat /\ DOMAIN risks = 1 .. Len(risks)
        /\ \A i, k \in DOMAIN risks : risks[i].run = risks[k].run => i = k
    BY DEF Inv2, ScoredOnce
  <2>3. LatestRiskLevel \in Levels
    <3>1. CASE risks = <<>>
      BY <3>1 DEF LatestRiskLevel, Levels
    <3>2. CASE risks # <<>>
      <4>1. Len(risks) \in DOMAIN risks
        BY <2>2, <3>2
      <4>2. risks[Len(risks)] \in RiskRows
        BY <2>2, <4>1
      <4> QED
        BY <3>2, <4>2 DEF LatestRiskLevel, RiskRows
    <3> QED
      BY <3>1, <3>2
  <2>4. ASSUME LatestRiskLevel = "low" PROVE Accounted(job[j].latest)
    <3> SUFFICES ASSUME NEW i \in DOMAIN risks, risks[i].run = job[j].latest,
                        risks[i].level # "low"
                 PROVE  \E k \in DOMAIN risks :
                          /\ k > i /\ risks[k].run # job[j].latest
                          /\ risks[k].level = "low"
      BY DEF Accounted
    <3>1. Len(risks) \in DOMAIN risks /\ risks[Len(risks)].level = "low"
      BY <2>2, <2>4 DEF LatestRiskLevel
    <3>2. i # Len(risks)
      BY <3>1
    <3> QED
      BY <2>2, <3>1, <3>2
  <2>5. Gains(j)
    BY <1>1, <2>1, <2>3, <2>4, OutcomeIs
       DEF Gains, FollowPcs, HeadedPcs, UnscoredPcs, DecidedPcs
  <2> QED
    BY <1>1, <2>1, <2>5, QuietStep2
<1> QED
  BY <1>2, <1>3 DEF ReadRisk

\* What the decision asks for is what a recommendation says.
LEMMA RecommendedEarned ==
  ASSUME Inv, Inv2, NEW h, NEW ci, NEW latest \in Successful \cup {0},
         NEW risk \in Levels, risk = "low" => Accounted(latest),
         DecideApproval(h, ci,
           IF latest = 0 THEN [found |-> FALSE, head |-> 0]
           ELSE [found |-> TRUE, head |-> runs[latest].head],
           risk, OpenSeverities, Cfg, {}) = "approval_recommended"
  PROVE  Earned(latest, h)
<1>1. /\ latest \in Successful /\ runs[latest].head = h
      /\ OpenSeverities \cap {"blocker", "high"} = {} /\ "medium" \notin OpenSeverities
      /\ risk \notin {"blocker", "high", "medium", "none"}
  BY DEF DecideApproval, Blocked, NeedsHuman
<1>2. Accounted(latest)
  BY <1>1 DEF Levels
<1>3. Handled(latest)
  BY <1>1 DEF Handled, OpenSeverities, Serious, Inv2, FindingsHold
<1> QED
  BY <1>1, <1>2, <1>3 DEF Earned

LEMMA Decide2 ==
  ASSUME Inv, Inv', Inv2, NEW j \in Jobs, Decide(j) PROVE Inv2' /\ Touches(j)
<1>1. Kept /\ job[j].pc = "riskRead"
  BY DEF Decide, External, tables, Kept, At
<1>2. CASE Goto(j, "abandoning")
  BY <1>1, <1>2, PlainGoto, PlainPcsPlain DEF PlainPcs
<1>3. CASE ~Goto(j, "abandoning")
  <2> DEFINE result ==
        DecideApproval(job[j].head, [state |-> job[j].ci, details |-> <<>>],
          IF job[j].latest = 0 THEN [found |-> FALSE, head |-> 0]
          ELSE [found |-> TRUE, head |-> runs[job[j].latest].head],
          job[j].risk, OpenSeverities, Cfg, {})
  <2>1. PICK pc \in DecidedPcs :
          job' = [job EXCEPT ![j].result = result, ![j].status = result, ![j].pc = pc]
    BY <1>3 DEF Decide, DecidedPcs
  <2>2. /\ job[j].latest \in Successful \cup {0} /\ job[j].risk \in Levels
        /\ job[j].risk = "low" => Accounted(job[j].latest)
    BY <1>1 DEF Inv, ReadIsTrue, RunRead, Inv2, ScoredOnce, Advice
  <2>3. result = "approval_recommended" => Earned(job[j].latest, job[j].head)
    BY <2>2, RecommendedEarned
  <2> HIDE DEF result
  <2>4. /\ Only(j) /\ job'[j].pc = pc /\ job'[j].outcome = job[j].outcome
        /\ job'[j].latest = job[j].latest /\ job'[j].head = job[j].head
        /\ job'[j].result = result
    BY <2>1, JobIs DEF Only
  <2>5. Gains(j)
    BY <2>3, <2>4, OutcomeIs DEF Gains, FollowPcs, HeadedPcs, UnscoredPcs, DecidedPcs
  <2> QED
    BY <1>1, <2>4, <2>5, QuietStep2
<1> QED
  BY <1>2, <1>3

LEMMA Approve2 ==
  ASSUME Inv, Inv', Inv2, NEW j \in Jobs, ApprovePullRequest(j) PROVE Inv2' /\ Touches(j)
<1>1. Kept /\ job[j].pc = "approving"
  BY DEF ApprovePullRequest, tables, Kept, At
<1>2. PICK s : job' = [job EXCEPT ![j].pc = "decided", ![j].status = s]
  BY DEF ApprovePullRequest
<1>3. /\ Only(j) /\ job'[j].pc = "decided" /\ job'[j].outcome = job[j].outcome
      /\ job'[j].latest = job[j].latest /\ job'[j].head = job[j].head
      /\ job'[j].result = job[j].result
  BY <1>2, JobIs DEF Only
<1>4. Gains(j)
  BY <1>1, <1>3, OutcomeIs
     DEF Gains, FollowPcs, HeadedPcs, UnscoredPcs, DecidedPcs, Inv2, Advice
<1> QED
  BY <1>1, <1>3, <1>4, QuietStep2

LEMMA SaveCheck2 ==
  ASSUME Inv, Inv', Inv2, NEW j \in Jobs, SaveApprovalCheck(j) PROVE Inv2' /\ Touches(j)
<1>1. job[j].pc = "decided" /\ UNCHANGED <<head, runs, findings, risks>>
  BY DEF SaveApprovalCheck, Call, Attempted, External, tables, At
<1>2. \E pc \in {"saved", "abandoning"} : Goto(j, pc)
  BY DEF SaveApprovalCheck, Call
<1>3. Only(j) /\ Gains(j)
  BY <1>2, GotoKeeps, OutcomeIs, PlainGains, PlainPcsPlain DEF PlainPcs
<1> DEFINE c == [job |-> j, run |-> job[j].latest, head |-> job[j].head,
                 result |-> job[j].result, risk |-> job[j].risk,
                 auto |-> job[j].status = "auto_approved"]
<1>4. c.run = job[j].latest /\ c.head = job[j].head /\ c.result = job[j].result
  OBVIOUS
<1>5. checkRows' = checkRows \/ checkRows' = checkRows \cup {c}
  BY DEF SaveApprovalCheck, Call, Attempted, tables
<1> HIDE DEF c
<1>6. RowsBy(j)
  BY <1>1, <1>4, <1>5 DEF RowsBy
<1> QED
  BY <1>1, <1>3, <1>6, StepInv2 DEF Touches, RunsBy, FindingsBy, RisksBy

-----------------------------------------------------------------------------
(* Steps of no job in particular.                                          *)

LEMMA Same2 ==
  ASSUME Inv, Inv2, UNCHANGED <<runs, findings, risks, checkRows>>, head' >= head, head' \in Nat,
         \A k \in Jobs : job'[k] = job[k] \/ (Plain(job'[k].pc) /\ job'[k].outcome \in Results)
  PROVE  Inv2'
<1>1. FilesFollow'
  <2>1. \A i \in DOMAIN runs : runs[i].seen <= head'
    <3> SUFFICES ASSUME NEW i \in DOMAIN runs PROVE runs[i].seen <= head'
      OBVIOUS
    <3>1. runs[i].seen \in Nat /\ head \in Nat /\ runs[i].seen <= head
      BY RunsTyped, HeadTyped DEF Inv, Rows, Inv2, FilesFollow
    <3> QED
      BY <3>1
  <2> QED
    BY <2>1 DEF Inv2, FilesFollow, Plain, Successful
<1>2. FindingsHold'
  BY DEF Inv2, FindingsHold
<1>3. ScoredOnce'
  BY DEF Inv2, ScoredOnce, Plain
<1>4. Advice'
  BY DEF Inv2, Advice, Plain, Earned, Handled, Accounted, Successful, Recommended
<1> QED
  BY <1>1, <1>2, <1>3, <1>4 DEF Inv2

LEMMA Crash2 ==
  ASSUME Inv, Inv2, Crash PROVE Inv2'
<1>1. UNCHANGED <<head, runs, findings, risks, checkRows>> /\ head \in Nat
  BY HeadTyped DEF Crash, External, tables, Inv
<1>2. \A k \in Jobs : job'[k] = job[k] \/ (job'[k].pc = "queued" /\ job'[k].outcome = NoOutcome)
  BY DEF Crash, Fresh
<1> QED
  BY <1>1, <1>2, Same2, PlainPcsPlain DEF PlainPcs, Results

LEMMA Push2 ==
  ASSUME Inv, Inv2, Push \/ UNCHANGED vars PROVE Inv2'
<1>1. UNCHANGED <<job, runs, findings, risks, checkRows>> /\ head' \in {head, head + 1}
      /\ head \in Nat
  BY HeadTyped DEF Push, vars, tables, Inv
<1> QED
  BY <1>1, Same2

LEMMA JobStep2 ==
  ASSUME Inv, Inv', Inv2, NEW j \in Jobs, JobStep(j) PROVE Inv2' /\ Touches(j)
BY ReviewStep2, CommandStep2, Dismiss2, CheckGoesOn2, ReadRisk2, Decide2, Approve2, SaveCheck2
   DEF JobStep, CheckStep

LEMMA Next2 ==
  ASSUME Inv, Inv', Inv2, [Next]_vars PROVE Inv2'
<1>1. CASE \E j \in Jobs : JobStep(j)
  BY <1>1, JobStep2
<1> QED
  BY <1>1, Crash2, Push2 DEF Next, Rest

LEMMA EarnedAlways == Spec => []Inv2
<1>1. Inv /\ Inv' /\ Inv2 /\ [Next]_vars => Inv2'
  BY Next2
<1> QED
  BY <1>1, Init2, InvAlways, PTL DEF Spec

-----------------------------------------------------------------------------
(* The theorems.                                                           *)

\* A recommendation about the commit that is still the head cites a successful
\* run that read the files of that very commit (FetchPullRequest reads the head
\* first, DecideApproval compares the run's head with the one it fetched).
THEOREM RecommendedReviewed == Spec => []RecommendedWasReviewed
<1>1. Inv /\ Inv2 => RecommendedWasReviewed
  <2> SUFFICES ASSUME Inv, Inv2, NEW c \in checkRows, Recommended(c), c.head = head
               PROVE  c.run # 0 /\ runs[c.run].status = "success" /\ runs[c.run].seen = head
    BY DEF RecommendedWasReviewed
  <2>1. c.run \in Successful /\ runs[c.run].head = head
    BY DEF Inv2, Advice, Earned
  <2>2. c.run \in DOMAIN runs /\ runs[c.run].status = "success"
    BY <2>1 DEF Successful
  <2>3. c.run # 0 /\ runs[c.run] \in Rows
    BY <2>2, RunsTyped DEF Inv
  <2>4. head <= runs[c.run].seen /\ runs[c.run].seen <= head
    BY <2>1, <2>2 DEF Inv2, FilesFollow
  <2> QED
    BY <2>2, <2>3, <2>4, HeadTyped DEF Rows, Inv
<1> QED
  BY <1>1, InvAlways, EarnedAlways, PTL

\* Every serious finding of the run a recommendation cites is dismissed for
\* good: SaveFindings stores them before the run is finished, and no later
\* review adds to it.
THEOREM RecommendedHandled == Spec => []RecommendedIsHandled
<1>1. Inv2 => RecommendedIsHandled
  BY DEF Inv2, Advice, Earned, Handled, Serious, RecommendedIsHandled
<1> QED
  BY <1>1, EarnedAlways, PTL

\* A recommendation passes over its run's risk only for a later low score of
\* another run (LatestRiskScore takes the last row of the pull request).
THEOREM RecommendedRiskAccounted == Spec => []RiskAccounted
<1>1. Inv2 => RiskAccounted
  BY DEF Inv2, Advice, Earned, Accounted, RiskAccounted
<1> QED
  BY <1>1, EarnedAlways, PTL
=============================================================================
