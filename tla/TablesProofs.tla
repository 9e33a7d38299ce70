---------------------------- MODULE TablesProofs ----------------------------
(***************************************************************************)
(* Proofs about Governance for any number of jobs, commits and faults: the *)
(* tables refer to rows that exist, every job is where a handler of its    *)
(* kind can be, a run is called successful only once all that the review   *)
(* found is stored, no progress marker outlives the jobs unless something  *)
(* failed, and every run left unfinished is accounted for by a fault.      *)
(***************************************************************************)
EXTENDS RecommendationProofs, FiniteSetTheorems

-----------------------------------------------------------------------------
(* The inductive invariant.                                                *)

Ends == {"queued", "done", "dead"}
Home(j) ==
  IF j \in Reviews THEN Ends \cup ReviewPcs \cup {"returning"}
  ELSE IF j \in Rechecks THEN Ends \cup ReviewPcs \cup CommandPcs \cup {"returning"}
  ELSE Ends \cup CommandPcs

KnowsPcs == {"runRead", "riskRead", "approving", "decided"}
SavePcs  == {"saving", "scored", "published"}

\* Rows name rows.
Refers ==
  /\ DOMAIN pr = {"head", "status"} /\ pr.head \in 0 .. head
  /\ \A f \in findings : f.run \in DOMAIN runs
  /\ \A c \in checkRows : c.run \in DOMAIN runs \cup {0}
  /\ \A j \in Jobs : job[j].pc \in KnowsPcs => job[j].latest \in DOMAIN runs \cup {0}

AtHome == \A j \in Jobs : job[j].pc \in Home(j)

\* A finding of the review is stored or still to be.
FindingStored(f, run) ==
  \E g \in findings : g.run = run /\ g.id = f.id /\ g.severity = f.severity

RiskStored(run, level) ==
  \E k \in DOMAIN risks : risks[k] = [run |-> run, level |-> level]

StoredFor(j) ==
  /\ job[j].pc \in SavePcs =>
       \A f \in job[j].outcome.findings :
         (job[j].pc = "saving" /\ f \in job[j].todo) \/ FindingStored(f, job[j].run)
  /\ job[j].pc \in {"scored", "published"} =>
       RiskStored(job[j].run, job[j].outcome.level)

Stored == \A j \in Jobs : StoredFor(j)

Inv3 == Refers /\ AtHome /\ Stored

\* What a step of job j may do besides: it knows what it says it knows.
Knows(j) ==
  /\ DOMAIN pr' = {"head", "status"} /\ pr'.head \in 0 .. head
  /\ job'[j].pc \in Home(j)
  /\ job'[j].pc \in KnowsPcs => job'[j].latest \in DOMAIN runs \cup {0}
  /\ StoredFor(j)'

-----------------------------------------------------------------------------
(* What is stored stays stored.                                            *)

LEMMA StoredKept ==
  ASSUME Inv, Inv2, NEW j \in Jobs, Touches(j), NEW run
  PROVE  /\ \A f : FindingStored(f, run) => FindingStored(f, run)'
         /\ \A level : RiskStored(run, level) => RiskStored(run, level)'
<1>1. ASSUME NEW f, FindingStored(f, run) PROVE FindingStored(f, run)'
  <2>1. PICK g \in findings : g.run = run /\ g.id = f.id /\ g.severity = f.severity
    BY <1>1 DEF FindingStored
  <2>2. CASE g \in findings'
    BY <2>1, <2>2 DEF FindingStored
  <2>3. CASE g \notin findings'
    <3>1. [g EXCEPT !.status = "dismissed"] \in findings'
      BY <2>1, <2>3 DEF Touches, FindingsBy
    <3>2. DOMAIN g = {"run", "id", "severity", "status"}
      BY <2>1 DEF Inv2, FindingsHold
    <3> QED
      BY <2>1, <3>1, <3>2 DEF FindingStored
  <2> QED
    BY <2>2, <2>3
<1>2. ASSUME NEW level, RiskStored(run, level) PROVE RiskStored(run, level)'
  <2>1. CASE risks' = risks
    BY <1>2, <2>1 DEF RiskStored
  <2>2. CASE /\ job[j].pc = "saving"
             /\ risks' = Append(risks, [run |-> job[j].run, level |-> job[j].outcome.level])
    BY <1>2, <2>2, AppendedRisk DEF RiskStored
  <2> QED
    BY <2>1, <2>2 DEF Touches, RisksBy
<1> QED
  BY <1>1, <1>2

LEMMA StepInv3 ==
  ASSUME Inv, Inv2, Inv3, NEW j \in Jobs, Touches(j), Knows(j)
  PROVE  Inv3'
<1>1. DOMAIN runs \subseteq DOMAIN runs' /\ Only(j) /\ head' = head
  BY RunsByKeeps DEF Touches
<1>2. Refers'
  <2>1. ASSUME NEW f \in findings' PROVE f.run \in DOMAIN runs'
    <3>1. CASE f \in findings
      BY <1>1, <3>1 DEF Inv3, Refers
    <3>2. CASE job[j].pc \in OpenPcs /\ f.run = job[j].run
      BY <1>1, <3>2 DEF Inv, OwnRun
    <3>3. CASE \E g \in findings : f = [g EXCEPT !.status = "dismissed"]
      BY <1>1, <3>3 DEF Inv2, FindingsHold, Inv3, Refers
    <3> QED
      BY <3>1, <3>2, <3>3 DEF Touches, FindingsBy, OpenTarget
  <2>2. ASSUME NEW c \in checkRows' PROVE c.run \in DOMAIN runs' \cup {0}
    <3>1. CASE c \in checkRows
      BY <1>1, <3>1 DEF Inv3, Refers
    <3>2. CASE job[j].pc = "decided" /\ c.run = job[j].latest
      BY <1>1, <3>2 DEF Inv3, Refers, KnowsPcs
    <3> QED
      BY <3>1, <3>2 DEF Touches, RowsBy
  <2>3. ASSUME NEW k \in Jobs, job'[k].pc \in KnowsPcs
        PROVE  job'[k].latest \in DOMAIN runs' \cup {0}
    BY <1>1, <2>3 DEF Only, Knows, Inv3, Refers
  <2> QED
    BY <1>1, <2>1, <2>2, <2>3 DEF Refers, Knows
<1>3. AtHome'
  BY <1>1 DEF AtHome, Inv3, Only, Knows, Home
<1>4. Stored'
  <2> SUFFICES ASSUME NEW k \in Jobs PROVE StoredFor(k)'
    BY DEF Stored
  <2>1. CASE k = j
    BY <2>1 DEF Knows
  <2>2. CASE k # j
    <3>1. job'[k] = job[k]
      BY <1>1, <2>2 DEF Only
    <3>2. PICK run, level : run = job[k].run /\ level = job[k].outcome.level
      OBVIOUS
    <3>3. /\ job[k].pc \in SavePcs =>
               \A f \in job[k].outcome.findings :
                 (job[k].pc = "saving" /\ f \in job[k].todo) \/ FindingStored(f, run)
          /\ job[k].pc \in {"scored", "published"} => RiskStored(run, level)
      BY <3>2 DEF Inv3, Stored, StoredFor
    <3>4. /\ job[k].pc \in SavePcs =>
               \A f \in job[k].outcome.findings :
                 (job[k].pc = "saving" /\ f \in job[k].todo) \/ FindingStored(f, run)'
          /\ job[k].pc \in {"scored", "published"} => RiskStored(run, level)'
      BY <3>3, StoredKept
    <3> QED
      BY <3>1, <3>2, <3>4 DEF StoredFor
  <2> QED
    BY <2>1, <2>2
<1> QED
  BY <1>2, <1>3, <1>4 DEF Inv3

-----------------------------------------------------------------------------
(* What each step knows.                                                   *)

ReviewPlaces  == Ends \cup ReviewPcs \cup {"returning"}
CommandPlaces == Ends \cup CommandPcs

LEMMA Places ==
  /\ \A j \in Reviews \cup Rechecks : ReviewPlaces \subseteq Home(j)
  /\ \A j \in Commands : CommandPlaces \subseteq Home(j)
  /\ ReviewPlaces \cap KnowsPcs = {} /\ CommandPlaces \cap SavePcs = {}
<1>1. /\ \A j \in Reviews \cup Rechecks : ReviewPlaces \subseteq Home(j)
      /\ \A j \in Commands : CommandPlaces \subseteq Home(j)
  BY JobsAssumption DEF ReviewPlaces, CommandPlaces, Home, Commands
<1>2. ReviewPlaces \cap KnowsPcs = {} /\ CommandPlaces \cap SavePcs = {}
  BY DEF ReviewPlaces, CommandPlaces, Ends, ReviewPcs, CommandPcs, KnowsPcs, SavePcs
<1> QED
  BY <1>1, <1>2

LEMMA PrKnown ==
  ASSUME Inv, Inv3, NEW j \in Jobs, JobStep(j)
  PROVE  DOMAIN pr' = {"head", "status"} /\ pr'.head \in 0 .. head
<1>1. /\ DOMAIN pr = {"head", "status"} /\ pr.head \in 0 .. head
      /\ job[j].head \in 0 .. head /\ 0 \in 0 .. head /\ EventHeads(j) \subseteq 0 .. head
  BY JobIs, HeadTyped DEF Inv, Inv3, Refers, EventHeads
<1>2. CASE UNCHANGED pr
  BY <1>1, <1>2
<1>3. CASE \E h \in 0 .. head : \E status : pr' = [head |-> h, status |-> status]
  BY <1>3
<1>4. CASE \E status : pr' = [pr EXCEPT !.status = status]
  BY <1>1, <1>4
<1>5. CASE StartReview(j) \/ RecordPullRequest(j) \/ MarkChecking(j)
  BY <1>1, <1>2, <1>3, <1>5
     DEF StartReview, RecordPullRequest, MarkChecking, Call, Attempted, SetPR, tables
<1>6. CASE MarkReviewed(j) \/ MarkReviewFailed(j) \/ MarkDecided(j)
  BY <1>2, <1>4, <1>6
     DEF MarkReviewed, MarkReviewFailed, MarkDecided, Call, Attempted, SetStatus, tables
<1>7. CASE PrepareCommand(j)
  <2>1. pr' \in {pr, [head |-> 0, status |-> "review_pending"]}
    BY <1>7 DEF PrepareCommand, EnsuredPullRequest
  <2> QED
    BY <1>1, <2>1
<1>8. CASE ReviewStep(j) /\ ~(StartReview(j) \/ RecordPullRequest(j) \/ MarkReviewed(j)
                             \/ MarkReviewFailed(j))
  BY <1>2, <1>8
     DEF ReviewStep, CreateReviewRun, FetchHead, FetchFiles, UpdateReviewRunHeadSHA, Review,
         SaveFinding, SaveRiskScore, PublishReview, FinishReviewRun, FailReviewRun, Expire,
         ReturnReview, Call, Try, Attempted, AddRun, SetRun, Finish, AddFinding, SetCommand,
         tables
<1>9. CASE CommandStep(j) /\ ~PrepareCommand(j)
  BY <1>2, <1>9
     DEF CommandStep, CheckPermission, RefuseCommand, AbandonCommand, AnswerCommand, Call,
         Try, Attempted, SetCommand, tables
<1>10. CASE /\ CheckStep(j) \/ DismissFinding(j) \/ ReadRiskToAnswer(j)
            /\ ~(MarkChecking(j) \/ MarkDecided(j))
  BY <1>2, <1>10
     DEF CheckStep, FetchHeadToCheck, FetchChecks, ReadLatestRun, ReadRisk, Decide,
         ApprovePullRequest, SaveApprovalCheck, DismissFinding, CloseTarget,
         ReadRiskToAnswer, Call, Attempted, tables
<1> QED
  BY <1>5, <1>6, <1>7, <1>8, <1>9, <1>10 DEF JobStep

\* The steps of a review that are not about what it saves.
LEMMA ReviewMoves ==
  ASSUME Inv, NEW j \in Jobs, ReviewStep(j),
         ~(Review(j) \/ SaveFinding(j) \/ SaveRiskScore(j) \/ PublishReview(j))
  PROVE  job'[j].pc \in ReviewPlaces /\ job'[j].pc \notin SavePcs
<1> DEFINE Further == {"queued", "done", "dead", "placed", "created", "headRead", "fetched",
                       "recorded", "headed", "finished", "erring", "erring2", "returning"}
<1>1. \A pc \in Further : pc \in ReviewPlaces /\ pc \notin SavePcs
  BY DEF ReviewPlaces, Ends, ReviewPcs, SavePcs
<1>2. CASE \E pc \in Further : Goto(j, pc)
  BY <1>1, <1>2, GotoMoves
<1>3. CASE job' = [job EXCEPT ![j].pc = "returning", ![j].ok = FALSE]
  <2>1. job'[j].pc = "returning"
    BY <1>3, JobIs
  <2> QED
    BY <1>1, <2>1
<1>4. CASE \/ job' = [job EXCEPT ![j].pc = "created", ![j].run = Len(runs) + 1]
           \/ job' = [job EXCEPT ![j].pc = "headRead", ![j].head = head]
           \/ job' = [job EXCEPT ![j].pc = "fetched", ![j].seen = head]
  <2>1. job'[j].pc \in {"created", "headRead", "fetched"}
    BY <1>4, JobIs
  <2> QED
    BY <1>1, <2>1
<1>5. CASE StartReview(j)
  <2>1. PICK h, n :
          LET begun == [Fresh EXCEPT !.attempt = n, !.head = h] IN
          \/ job' = [job EXCEPT ![j] = [begun EXCEPT !.pc = "placed"]]
          \/ job' = [job EXCEPT ![j] = [begun EXCEPT !.pc = "returning", !.ok = FALSE]]
    BY <1>5 DEF StartReview
  <2>2. job'[j].pc \in {"placed", "returning"}
    BY <2>1, JobIs DEF Fresh
  <2> QED
    BY <1>1, <2>2
<1>6. CASE ReturnReview(j)
  <2>1. \E pc \in {"done", "queued", "dead"} : Goto(j, pc)
    BY <1>6 DEF ReturnReview, Call, Try, Failed
  <2> QED
    BY <2>1, <1>2
<1> QED
  BY <1>2, <1>3, <1>4, <1>5, <1>6
     DEF ReviewStep, CreateReviewRun, FetchHead, FetchFiles, RecordPullRequest,
         UpdateReviewRunHeadSHA, FinishReviewRun, MarkReviewed, FailReviewRun,
         MarkReviewFailed, Expire, Call, Try

LEMMA ReviewSaves ==
  ASSUME Inv, Inv2, Inv3, NEW j \in Jobs, Touches(j),
         Review(j) \/ SaveFinding(j) \/ SaveRiskScore(j) \/ PublishReview(j)
  PROVE  job'[j].pc \in ReviewPlaces /\ StoredFor(j)'
<1>1. {"erring", "saving", "scored", "published"} \subseteq ReviewPlaces
  BY DEF ReviewPlaces, ReviewPcs
<1>2. CASE Goto(j, "erring")
  BY <1>1, <1>2, GotoMoves DEF StoredFor, SavePcs
<1>3. CASE Review(j) /\ ~Goto(j, "erring")
  <2>1. PICK o : job' = [job EXCEPT ![j].pc = "saving", ![j].outcome = o,
                                  ![j].todo = o.findings]
    BY <1>3 DEF Review
  <2>2. job'[j].pc = "saving" /\ job'[j].outcome = o /\ job'[j].todo = o.findings
    BY <2>1, JobIs
  <2> QED
    BY <1>1, <2>2 DEF StoredFor
<1>4. CASE SaveFinding(j) /\ ~Goto(j, "erring")
  <2>1. PICK f \in job[j].todo :
          job' = [job EXCEPT ![j].todo = @ \ {f}] /\ AddFinding(job[j].run, f)
    BY <1>4 DEF SaveFinding
  <2>2. /\ job[j].pc = "saving" /\ job'[j].pc = "saving"
        /\ job'[j].outcome = job[j].outcome /\ job'[j].run = job[j].run
        /\ job'[j].todo = job[j].todo \ {f}
    BY <1>4, <2>1, JobIs DEF SaveFinding, At
  <2>3. PICK run : run = job[j].run
    OBVIOUS
  <2>4. FindingStored(f, run)'
    <3> DEFINE g == [run |-> run, id |-> f.id, severity |-> f.severity, status |-> "open"]
    <3>1. g \in findings'
      BY <2>1, <2>3 DEF AddFinding
    <3>2. g.run = run /\ g.id = f.id /\ g.severity = f.severity
      OBVIOUS
    <3> QED
      BY <3>1, <3>2 DEF FindingStored
  <2>5. \A g \in job[j].outcome.findings : g \in job[j].todo \/ FindingStored(g, run)
    BY <2>2, <2>3 DEF Inv3, Stored, StoredFor, SavePcs
  <2>6. \A g \in job[j].outcome.findings : g \in job'[j].todo \/ FindingStored(g, run)'
    BY <2>2, <2>4, <2>5, StoredKept
  <2> QED
    BY <1>1, <2>2, <2>3, <2>6 DEF StoredFor
<1>5. CASE SaveRiskScore(j) /\ ~Goto(j, "erring")
  <2>1. /\ job[j].pc = "saving" /\ job[j].todo = {} /\ Goto(j, "scored")
        /\ risks' = Append(risks, [run |-> job[j].run, level |-> job[j].outcome.level])
    BY <1>5 DEF SaveRiskScore, Call, At
  <2>2. PICK run, level : run = job[j].run /\ level = job[j].outcome.level
    OBVIOUS
  <2>3. \A g \in job[j].outcome.findings : FindingStored(g, run)
    BY <2>1, <2>2 DEF Inv3, Stored, StoredFor, SavePcs
  <2>4. \A g \in job[j].outcome.findings : FindingStored(g, run)'
    BY <2>3, StoredKept
  <2>5. RiskStored(run, level)'
    <3>1. Len(risks) + 1 \in DOMAIN risks'
      BY <2>1, AppendedRisk
    <3>2. risks'[Len(risks) + 1] = [run |-> run, level |-> level]
      BY <2>1, <2>2 DEF Inv2, ScoredOnce
    <3> QED
      BY <3>1, <3>2 DEF RiskStored
  <2>6. /\ job'[j].pc = "scored" /\ job'[j].run = run
        /\ job'[j].outcome = job[j].outcome
    BY <2>1, <2>2, GotoKeeps
  <2> QED
    BY <1>1, <2>2, <2>4, <2>5, <2>6 DEF StoredFor
<1>6. CASE PublishReview(j) /\ ~Goto(j, "erring")
  <2>1. job[j].pc = "scored" /\ Goto(j, "published")
    BY <1>6 DEF PublishReview, At
  <2>2. PICK run, level : run = job[j].run /\ level = job[j].outcome.level
    OBVIOUS
  <2>3. /\ \A g \in job[j].outcome.findings : FindingStored(g, run)
        /\ RiskStored(run, level)
    BY <2>1, <2>2 DEF Inv3, Stored, StoredFor, SavePcs
  <2>4. /\ \A g \in job[j].outcome.findings : FindingStored(g, run)'
        /\ RiskStored(run, level)'
    BY <2>3, StoredKept
  <2>5. /\ job'[j].pc = "published" /\ job'[j].run = run
        /\ job'[j].outcome = job[j].outcome
    BY <2>1, <2>2, GotoKeeps
  <2> QED
    BY <1>1, <2>2, <2>4, <2>5 DEF StoredFor
<1> QED
  BY <1>2, <1>3, <1>4, <1>5, <1>6

LEMMA ReviewKnows ==
  ASSUME Inv, Inv2, Inv3, NEW j \in Reviews \cup Rechecks, JobStep(j), ReviewStep(j),
         Touches(j)
  PROVE  Knows(j)
<1> USE DEF Jobs
<1>1. job'[j].pc \in ReviewPlaces /\ StoredFor(j)'
  BY ReviewMoves, ReviewSaves DEF StoredFor, SavePcs
<1>2. job'[j].pc \in Home(j) /\ job'[j].pc \notin KnowsPcs
  BY <1>1, Places
<1> QED
  BY <1>1, <1>2, PrKnown DEF Knows

LEMMA CommandMoves ==
  ASSUME Inv, NEW j \in Jobs, CommandStep(j)
  PROVE  job'[j].pc \in CommandPlaces /\ job'[j].pc \notin KnowsPcs
<1> DEFINE Further == {"queued", "done", "dead", "prepared", "permitted", "refused",
                       "abandoning"}
<1>1. \A pc \in Further : pc \in CommandPlaces /\ pc \notin KnowsPcs
  BY DEF CommandPlaces, Ends, CommandPcs, KnowsPcs
<1>2. CASE PrepareCommand(j)
  <2>1. PICK n, pc :
          /\ pc \in {"prepared", "queued", "dead"}
          /\ job' = [job EXCEPT ![j] = [[Fresh EXCEPT !.attempt = n] EXCEPT !.pc = pc]]
    BY <1>2 DEF PrepareCommand
  <2>2. job'[j].pc = pc
    BY <2>1, JobIs DEF Fresh
  <2> QED
    BY <1>1, <2>1, <2>2
<1>3. CASE ~PrepareCommand(j)
  <2>1. \E pc \in Further : Goto(j, pc)
    BY <1>3 DEF CommandStep, CheckPermission, RefuseCommand, AbandonCommand, AnswerCommand,
           Call, Try, Failed
  <2> QED
    BY <1>1, <2>1, GotoMoves
<1> QED
  BY <1>2, <1>3

\* The run a check has read, it keeps.
LEMMA CheckMoves ==
  ASSUME Inv, Inv3, NEW j \in Jobs,
         CheckStep(j) \/ DismissFinding(j) \/ ReadRiskToAnswer(j)
  PROVE  /\ job'[j].pc \in CommandPlaces
         /\ job'[j].pc \in KnowsPcs => job'[j].latest \in DOMAIN runs \cup {0}
<1> DEFINE Further == {"answering", "refused", "abandoning", "toCheck", "checking", "ciRead",
                       "saved"}
<1>1. /\ \A pc \in Further : pc \in CommandPlaces /\ pc \notin KnowsPcs
      /\ KnowsPcs \subseteq CommandPlaces
  BY DEF CommandPlaces, Ends, CommandPcs, KnowsPcs
<1>2. CASE \E pc \in Further : Goto(j, pc)
  BY <1>1, <1>2, GotoMoves
<1>3. CASE \/ job' = [job EXCEPT ![j].pc = "toCheck", ![j].head = head]
           \/ \E s : job' = [job EXCEPT ![j].pc = "ciRead", ![j].ci = s]
  <2>1. job'[j].pc \in {"toCheck", "ciRead"}
    BY <1>3, JobIs
  <2> QED
    BY <1>1, <2>1
<1>4. CASE \E run : /\ IsLatestSuccessful(run)
                   /\ job' = [job EXCEPT ![j].pc = "runRead", ![j].latest = run]
  <2>1. PICK run : /\ IsLatestSuccessful(run)
                   /\ job' = [job EXCEPT ![j].pc = "runRead", ![j].latest = run]
    BY <1>4
  <2>2. job'[j].pc = "runRead" /\ job'[j].latest = run
    BY <2>1, JobIs
  <2>3. run \in DOMAIN runs \cup {0}
    BY <2>1, LatestIsSuccessful DEF Successful
  <2> QED
    BY <1>1, <2>2, <2>3 DEF KnowsPcs
<1>5. CASE /\ job[j].pc \in KnowsPcs
           /\ \/ job' = [job EXCEPT ![j].pc = "riskRead", ![j].risk = LatestRiskLevel]
              \/ \E r, s : \E pc \in {"approving", "decided"} :
                   job' = [job EXCEPT ![j].result = r, ![j].status = s, ![j].pc = pc]
              \/ \E s : job' = [job EXCEPT ![j].pc = "decided", ![j].status = s]
  <2>1. /\ job'[j].pc \in {"riskRead", "approving", "decided"}
        /\ job'[j].latest = job[j].latest
    <3>1. CASE job' = [job EXCEPT ![j].pc = "riskRead", ![j].risk = LatestRiskLevel]
      BY <3>1, JobIs
    <3>2. CASE \E r, s : \E pc \in {"approving", "decided"} :
                 job' = [job EXCEPT ![j].result = r, ![j].status = s, ![j].pc = pc]
      BY <3>2, JobIs
    <3>3. CASE \E s : job' = [job EXCEPT ![j].pc = "decided", ![j].status = s]
      BY <3>3, JobIs
    <3> QED
      BY <1>5, <3>1, <3>2, <3>3
  <2> QED
    BY <1>1, <1>5, <2>1 DEF Inv3, Refers, KnowsPcs
<1> QED
  <2>1. CASE ReadRisk(j)
    BY <1>2, <1>5, <2>1 DEF ReadRisk, At, KnowsPcs
  <2>2. CASE Decide(j)
    <3>1. CASE Goto(j, "abandoning")
      BY <1>2, <3>1
    <3>2. CASE ~Goto(j, "abandoning")
      <4> DEFINE result ==
            DecideApproval(job[j].head, [state |-> job[j].ci, details |-> <<>>],
              IF job[j].latest = 0 THEN [found |-> FALSE, head |-> 0]
              ELSE [found |-> TRUE, head |-> runs[job[j].latest].head],
              job[j].risk, OpenSeverities, Cfg, {})
      <4>1. PICK pc : /\ job' = [job EXCEPT ![j].result = result, ![j].status = result,
                                           ![j].pc = pc]
                      /\ pc = IF result = "approval_recommended" /\ AutoApprove
                              THEN "approving" ELSE "decided"
        BY <2>2, <3>2 DEF Decide
      <4> HIDE DEF result
      <4>2. job[j].pc \in KnowsPcs
        BY <2>2 DEF Decide, At, KnowsPcs
      <4>3. pc \in {"approving", "decided"}
        BY <4>1
      <4> QED
        BY <1>5, <4>1, <4>2, <4>3
    <3> QED
      BY <3>1, <3>2
  <2>3. CASE ApprovePullRequest(j)
    BY <1>5, <2>3 DEF ApprovePullRequest, At, KnowsPcs
  <2>4. CASE DismissFinding(j)
    <3>1. \E pc \in {"answering", "refused", "abandoning"} : Goto(j, pc)
      BY <2>4 DEF DismissFinding
    <3> QED
      BY <3>1, <1>2
  <2>5. CASE ReadLatestRun(j)
    BY <1>2, <1>4, <2>5 DEF ReadLatestRun
  <2>6. CASE FetchHeadToCheck(j) \/ FetchChecks(j)
    BY <1>2, <1>3, <2>6 DEF FetchHeadToCheck, FetchChecks
  <2>7. CASE MarkChecking(j) \/ SaveApprovalCheck(j) \/ MarkDecided(j) \/ ReadRiskToAnswer(j)
    <3>1. \E pc \in {"answering", "abandoning", "checking", "saved"} : Goto(j, pc)
      BY <2>7 DEF MarkChecking, SaveApprovalCheck, MarkDecided, ReadRiskToAnswer, Call
    <3> QED
      BY <3>1, <1>2
  <2> QED
    BY <2>1, <2>2, <2>3, <2>4, <2>5, <2>6, <2>7 DEF CheckStep

LEMMA CommandKnows ==
  ASSUME Inv, Inv3, NEW j \in Commands, JobStep(j),
         CommandStep(j) \/ CheckStep(j) \/ DismissFinding(j) \/ ReadRiskToAnswer(j)
  PROVE  Knows(j)
<1> USE DEF Jobs, Commands
<1>1. /\ job'[j].pc \in CommandPlaces
      /\ job'[j].pc \in KnowsPcs => job'[j].latest \in DOMAIN runs \cup {0}
  BY CommandMoves, CheckMoves
<1>2. job'[j].pc \in Home(j) /\ job'[j].pc \notin SavePcs
  BY <1>1, Places
<1>3. StoredFor(j)'
  BY <1>2 DEF StoredFor, SavePcs
<1> QED
  BY <1>1, <1>2, <1>3, PrKnown DEF Knows

-----------------------------------------------------------------------------
(* The invariant.                                                          *)

LEMMA Init3 == Init => Inv3
<1> SUFFICES ASSUME Init PROVE Inv3
  OBVIOUS
<1>1. \A j \in Jobs : job[j].pc \in {"queued", "done"}
  BY DEF Init, Fresh
<1>2. Refers
  BY <1>1 DEF Init, Refers, KnowsPcs
<1>3. AtHome
  BY <1>1 DEF AtHome, Home, Ends
<1>4. Stored
  BY <1>1 DEF Stored, StoredFor, SavePcs
<1> QED
  BY <1>2, <1>3, <1>4 DEF Inv3

LEMMA Same3 ==
  ASSUME Inv, Inv3, UNCHANGED <<pr, runs, findings, risks, checkRows>>,
         head' \in {head, head + 1},
         \A k \in Jobs : job'[k] = job[k] \/ job'[k].pc = "queued"
  PROVE  Inv3'
<1>1. Refers'
  BY HeadTyped DEF Inv, Inv3, Refers, KnowsPcs
<1>2. AtHome'
  BY DEF Inv3, AtHome, Home, Ends
<1>3. Stored'
  BY DEF Inv3, Stored, StoredFor, SavePcs, FindingStored, RiskStored
<1> QED
  BY <1>1, <1>2, <1>3 DEF Inv3

LEMMA Next3 ==
  ASSUME Inv, Inv', Inv2, Inv3, [Next]_vars PROVE Inv3'
<1>1. CASE \E j \in Jobs : JobStep(j)
  <2>1. PICK j \in Jobs : JobStep(j)
    BY <1>1
  <2>2. Touches(j)
    BY <2>1, JobStep2
  <2>3. CASE j \in Reviews \cup Rechecks /\ ReviewStep(j)
    BY <2>1, <2>2, <2>3, ReviewKnows, StepInv3
  <2>4. CASE /\ j \in Commands
             /\ CommandStep(j) \/ CheckStep(j) \/ DismissFinding(j) \/ ReadRiskToAnswer(j)
    BY <2>1, <2>2, <2>4, CommandKnows, StepInv3
  <2> QED
    BY <2>1, <2>3, <2>4 DEF JobStep, Commands
<1>2. CASE Crash
  <2>1. UNCHANGED <<pr, runs, findings, risks, checkRows, head>>
    BY <1>2 DEF Crash, External, tables
  <2>2. \A k \in Jobs : job'[k] = job[k] \/ job'[k].pc = "queued"
    BY <1>2 DEF Crash, Fresh
  <2> QED
    BY <2>1, <2>2, Same3
<1>3. CASE Push \/ UNCHANGED vars
  <2>1. UNCHANGED <<pr, runs, findings, risks, checkRows, job>> /\ head' \in {head, head + 1}
    BY <1>3 DEF Push, vars, tables
  <2> QED
    BY <2>1, Same3
<1> QED
  BY <1>1, <1>2, <1>3 DEF Next, Rest

LEMMA TablesAlways == Spec => []Inv3
<1>1. Inv /\ Inv' /\ Inv2 /\ Inv3 /\ [Next]_vars => Inv3'
  BY Next3
<1> QED
  BY <1>1, Init3, InvAlways, EarnedAlways, PTL DEF Spec

-----------------------------------------------------------------------------
(* What makes a run successful.                                            *)

LEMMA SucceedsAtTheEnd ==
  ASSUME Inv, NEW j \in Jobs, ReviewStep(j), NEW i \in DOMAIN runs,
         runs[i].status # "success", runs'[i].status = "success"
  PROVE  job[j].pc = "published" /\ i = job[j].run
<1>1. runs' # runs
  OBVIOUS
<1>2. CASE CreateReviewRun(j)
  <2>1. runs' = Append(runs, [head |-> job[j].head, status |-> "running", stamp |-> 0,
                              seen |-> 0])
    BY <1>1, <1>2 DEF CreateReviewRun, AddRun, Attempted, tables
  <2> QED
    BY <2>1 DEF Inv, Typed
<1>3. CASE UpdateReviewRunHeadSHA(j)
  <2>1. runs' = [runs EXCEPT ![job[j].run] =
                   [runs[job[j].run] EXCEPT !.head = job[j].head, !.seen = job[j].seen]]
    BY <1>1, <1>3 DEF UpdateReviewRunHeadSHA, Call, SetRun, Attempted, tables
  <2>2. runs[i] \in Rows
    BY RunsTyped DEF Inv
  <2> QED
    BY <2>1, <2>2 DEF Rows, Inv, Typed
<1>4. CASE FinishReviewRun(j) \/ FailReviewRun(j)
  <2>1. PICK status, stamp :
          /\ runs' = [runs EXCEPT ![job[j].run] =
                        [runs[job[j].run] EXCEPT !.status = status, !.stamp = stamp]]
          /\ status = "failed" \/ job[j].pc = "published"
    BY <1>1, <1>4 DEF FinishReviewRun, FailReviewRun, Try, Finish, SetRun, Attempted, tables, At
  <2>2. runs[i] \in Rows
    BY RunsTyped DEF Inv
  <2> QED
    BY <2>1, <2>2 DEF Rows, Inv, Typed
<1> QED
  BY <1>1, <1>2, <1>3, <1>4
     DEF ReviewStep, StartReview, FetchHead, FetchFiles, RecordPullRequest, Review,
         SaveFinding, AddFinding, SaveRiskScore, PublishReview, MarkReviewed,
         MarkReviewFailed, Expire, ReturnReview, SetPR, SetStatus, SetCommand, Call, Try,
         Attempted, tables

LEMMA OthersWriteNoRun ==
  ASSUME [Next]_vars, ~\E j \in Reviews \cup Rechecks : ReviewStep(j)
  PROVE  runs' = runs
<1>1. CASE Crash \/ Push \/ UNCHANGED vars
  BY <1>1 DEF Crash, Push, vars, tables
<1>2. ASSUME NEW j, CommandStep(j) PROVE runs' = runs
  BY <1>2 DEF CommandStep, PrepareCommand, CheckPermission, RefuseCommand, AbandonCommand,
         AnswerCommand, SetCommand, Call, Try, Attempted, tables
<1>3. ASSUME NEW j, CheckStep(j) \/ DismissFinding(j) \/ ReadRiskToAnswer(j)
      PROVE  runs' = runs
  BY <1>3 DEF CheckStep, FetchHeadToCheck, MarkChecking, FetchChecks, ReadLatestRun, ReadRisk,
         Decide, ApprovePullRequest, SaveApprovalCheck, MarkDecided, DismissFinding,
         CloseTarget, ReadRiskToAnswer, SetPR, SetStatus, Call, Attempted, tables
<1> QED
  BY <1>1, <1>2, <1>3 DEF Next, Rest, JobStep

-----------------------------------------------------------------------------
(* The theorems.                                                           *)

\* Type correctness: the rows of the tables refer to rows that exist, and every
\* job is at a place the handler of its kind can be at.
THEOREM GovernanceTypeOK == Spec => []TypeOK
<1>1. Inv /\ Inv2 /\ Inv3 => TypeOK
  <2> SUFFICES ASSUME Inv, Inv2, Inv3 PROVE TypeOK
    OBVIOUS
  <2>1. head \in 1 .. load.heads /\ pr.head \in 0 .. head
    BY DEF Inv, Typed, Inv3, Refers
  <2>2. ASSUME NEW i \in DOMAIN runs
        PROVE  runs[i].status \in RunStatus /\ runs[i].head \in 0 .. head
    BY RunsTyped, HeadTyped DEF Inv, Rows
  <2>3. /\ \A f \in findings : f.run \in DOMAIN runs /\ f.status \in {"open", "dismissed"}
        /\ \A i \in DOMAIN risks : risks[i].run \in DOMAIN runs
        /\ \A c \in checkRows : c.run \in DOMAIN runs \cup {0}
    BY DEF Inv2, FindingsHold, ScoredOnce, Inv3, Refers
  <2>4. \A j \in Jobs : job[j].pc \in Home(j)
    BY DEF Inv3, AtHome
  <2> QED
    BY <2>1, <2>2, <2>3, <2>4 DEF TypeOK, Home, Ends
<1> QED
  BY <1>1, InvAlways, EarnedAlways, TablesAlways, PTL

\* A step that calls a run successful is the end of the review that stored all
\* its findings and its risk score (SaveFindings inserts row by row, without a
\* transaction; FinishReviewRun comes last).
THEOREM SuccessComplete == Spec => SuccessIsComplete
<1> DEFINE Complete(i, j) ==
      /\ InReview(j, i)
      /\ \A f \in job[j].outcome.findings :
           \E g \in findings : g.run = i /\ g.id = f.id /\ g.severity = f.severity
      /\ \E k \in DOMAIN risks : risks[k] = [run |-> i, level |-> job[j].outcome.level]
<1>1. ASSUME Inv, Inv3, [Next]_vars, NEW i \in DOMAIN runs,
             runs[i].status # "success", runs'[i].status = "success"
      PROVE  \E j \in Reviews \cup Rechecks : Complete(i, j)
  <2>1. PICK j \in Reviews \cup Rechecks : ReviewStep(j)
    BY <1>1, OthersWriteNoRun
  <2>2. job[j].pc = "published" /\ i = job[j].run
    BY <1>1, <2>1, SucceedsAtTheEnd DEF Jobs
  <2>3. StoredFor(j) /\ InReview(j, i)
    BY <1>1, <2>1, <2>2 DEF Inv3, Stored, Jobs, InReview, ReviewPcs
  <2> QED
    BY <2>2, <2>3 DEF StoredFor, SavePcs, FindingStored, RiskStored
<1>2. Inv /\ Inv3 /\ [Next]_vars =>
        [\A i \in DOMAIN runs :
           runs[i].status # "success" /\ runs'[i].status = "success" =>
             \E j \in Reviews \cup Rechecks : Complete(i, j)]_vars
  BY <1>1
<1> QED
  BY <1>2, InvAlways, TablesAlways, PTL DEF SuccessIsComplete, Spec

-----------------------------------------------------------------------------
(* When nothing failed: who still has to settle what.  As long as faults   *)
(* is 0, a progress marker belongs to a job that will replace it, and an   *)
(* answered dismissal to a finding that it closed.                         *)

Progress     == {"reviewing", "approval_checking"}
DecidingPcs  == {"checking", "ciRead", "runRead", "riskRead", "approving", "decided", "saved"}
SettledPcs   == {"approving", "decided", "saved"}
HeadlessPcs  == {"placed", "created", "headRead", "fetched"}
AnyDismissed == \E f \in findings : f.status = "dismissed"

PrSettles ==
  /\ pr.status = "reviewing" => \E j \in Jobs : job[j].pc \in ReviewPcs
  /\ pr.status = "approval_checking" => \E j \in Jobs : job[j].pc \in DecidingPcs
  /\ pr.status = "none" => pr.head = 0
  /\ pr.head = 0 /\ runs # <<>> => \E j \in Jobs : job[j].pc \in HeadlessPcs

SettlesWell(j) ==
  /\ job[j].pc \in {"headRead", "fetched"} => job[j].head # 0
  /\ job[j].pc \in SettledPcs => job[j].status \notin Progress \cup {"none"}

CommandsSettle ==
  /\ DOMAIN commands = Commands
  /\ \A c \in Commands : commands[c] = "running" => job[c].pc \notin Ends

DismissalsTell ==
  /\ \A j \in Dismissals : commands[j] = "success" => job[j].pc = "done"
  /\ AnyDismissed <=> \E j \in Dismissals : commands[j] = "success" \/ job[j].pc = "answering"

Quiet == PrSettles /\ (\A j \in Jobs : SettlesWell(j)) /\ CommandsSettle /\ DismissalsTell

Inv4 == faults \in Nat /\ (faults = 0 => Quiet)

-----------------------------------------------------------------------------
(* What a step of job j without a fault does.                              *)

\* The row of the pull request is left alone, or marked, or settled.
PrBy(j) ==
  \/ /\ pr' = pr
     /\ job[j].pc \in ReviewPcs => job'[j].pc \in ReviewPcs
     /\ job[j].pc \in DecidingPcs => job'[j].pc \in DecidingPcs
     /\ job[j].pc \in HeadlessPcs => job'[j].pc \in HeadlessPcs
     /\ runs' = <<>> \/ runs # <<>> \/ job'[j].pc \in HeadlessPcs
  \/ /\ pr'.status = "reviewing" /\ job'[j].pc \in ReviewPcs
     /\ pr'.head # 0 \/ job'[j].pc \in HeadlessPcs
  \/ /\ pr'.status = "approval_checking" /\ job'[j].pc \in DecidingPcs
     /\ pr'.head # 0
  \/ /\ pr'.status \notin Progress \cup {"none"} /\ pr'.head = pr.head
     /\ job[j].pc \notin HeadlessPcs /\ runs' = runs

CommandsBy(j) ==
  \/ /\ commands' = commands
     /\ j \in Commands => job'[j].pc \notin Ends
     /\ job[j].pc # "done"
  \/ \E s \in {"running", "success", "failed"} :
       /\ commands' = [commands EXCEPT ![j] = s]
       /\ s = "running" => job'[j].pc \notin Ends
       /\ s = "success" => job[j].pc \in {"answering", "returning"} /\ job'[j].pc = "done"
       /\ job[j].pc = "answering" => s = "success"
       /\ job[j].pc # "done"

DismissedBy(j) ==
  \/ /\ AnyDismissed' <=> AnyDismissed
     /\ j \in Dismissals /\ job'[j].pc = "answering" => job[j].pc = "answering"
     /\ j \in Dismissals /\ job[j].pc = "answering" =>
          job'[j].pc = "answering" \/ commands'[j] = "success"
  \/ AnyDismissed' /\ j \in Dismissals /\ job'[j].pc = "answering"

LEMMA QuietKept ==
  ASSUME Inv3, Quiet, NEW j \in Jobs, Only(j), PrBy(j), SettlesWell(j)',
         CommandsBy(j), DismissedBy(j)
  PROVE  Quiet'
<1>1. PrSettles'
  BY DEF Quiet, PrSettles, PrBy, Only, Progress
<1>2. \A k \in Jobs : SettlesWell(k)'
  BY DEF Quiet, SettlesWell, Only
<1>3. CommandsSettle'
  BY DEF Quiet, CommandsSettle, CommandsBy, Only, Jobs, Commands
<1>4. DismissalsTell'
  <2>1. DOMAIN commands = Commands /\ Dismissals \subseteq Commands /\ Commands \subseteq Jobs
    BY DEF Quiet, CommandsSettle, Commands, Jobs
  <2>2. \A k \in Dismissals : commands'[k] = "success" => job'[k].pc = "done"
    BY <2>1 DEF Quiet, DismissalsTell, CommandsBy, Only
  <2>3. \A k \in Dismissals : commands[k] = "success" => commands'[k] = "success"
    BY <2>1 DEF Quiet, DismissalsTell, CommandsBy
  <2>4. j \in Dismissals /\ commands'[j] = "success" =>
          commands[j] = "success" \/ job[j].pc = "answering"
    <3>1. j \in Dismissals => job[j].pc # "returning"
      BY JobsAssumption DEF Inv3, AtHome, Home, Ends, CommandPcs
    <3> QED
      BY <2>1, <3>1 DEF CommandsBy
  <2>5. \A k \in Jobs : k # j => job'[k] = job[k]
    BY DEF Only
  <2>6. \A k \in Dismissals : k # j => commands'[k] = commands[k]
    BY <2>1 DEF CommandsBy
  <2>7. AnyDismissed' <=>
          \E k \in Dismissals : commands'[k] = "success" \/ job'[k].pc = "answering"
    <3>1. CASE AnyDismissed' /\ j \in Dismissals /\ job'[j].pc = "answering"
      BY <3>1
    <3>2. CASE /\ AnyDismissed' <=> AnyDismissed
               /\ j \in Dismissals /\ job'[j].pc = "answering" => job[j].pc = "answering"
               /\ j \in Dismissals /\ job[j].pc = "answering" =>
                    job'[j].pc = "answering" \/ commands'[j] = "success"
      <4>1. AnyDismissed <=>
              \E k \in Dismissals : commands[k] = "success" \/ job[k].pc = "answering"
        BY DEF Quiet, DismissalsTell
      <4>2. ASSUME NEW k \in Dismissals
            PROVE  (commands[k] = "success" \/ job[k].pc = "answering") <=>
                   (commands'[k] = "success" \/ job'[k].pc = "answering")
        <5>1. k \in Jobs
          BY <2>1
        <5>2. CASE k = j
          BY <2>3, <2>4, <3>2, <5>2
        <5>3. CASE k # j
          BY <2>5, <2>6, <5>1, <5>3
        <5> QED
          BY <5>2, <5>3
      <4> QED
        BY <3>2, <4>1, <4>2
    <3> QED
      BY <3>1, <3>2 DEF DismissedBy
  <2> QED
    BY <2>2, <2>7 DEF DismissalsTell
<1> QED
  BY <1>1, <1>2, <1>3, <1>4 DEF Quiet

\* What a review does to its job.
LEMMA QuietReview ==
  ASSUME Inv, Inv3, Quiet, faults \in Nat, NoFault, NEW j \in Jobs, ReviewStep(j)
  PROVE  /\ PrBy(j) /\ SettlesWell(j)'
         /\ ReturnReview(j) \/ job'[j].pc \in ReviewPcs \cup {"returning"}
<1>1. ~Fault
  BY DEF Fault, NoFault
<1>2. /\ HeadlessPcs \subseteq ReviewPcs /\ ReviewPcs \cap DecidingPcs = {}
      /\ ReviewPcs \cap SettledPcs = {} /\ "returning" \notin ReviewPcs \cup DecidingPcs
      /\ \A pc \in Ends \cup {"returning"} : pc \notin SettledPcs \cup {"headRead", "fetched"}
      /\ "placed" \in HeadlessPcs /\ "permitted" \notin ReviewPcs \cup DecidingPcs
      /\ Ends \cap (ReviewPcs \cup DecidingPcs) = {}
      /\ {"permitted", "returning"} \cap ReviewPcs = {}
  BY DEF HeadlessPcs, ReviewPcs, DecidingPcs, SettledPcs, Ends
<1> HIDE DEF Ends
<1>3. CASE StartReview(j)
  <2>1. PICK h, r : /\ job' = [job EXCEPT ![j] = r] /\ r.pc = "placed"
                    /\ SetPR(h, "reviewing")
    BY <1>1, <1>3 DEF StartReview, Fresh
  <2>2. job'[j].pc = "placed" /\ pr'.status = "reviewing"
    BY <2>1, JobIs DEF SetPR
  <2> QED
    BY <1>2, <2>2 DEF PrBy, SettlesWell, HeadlessPcs, ReviewPcs, SettledPcs
<1>4. CASE CreateReviewRun(j)
  <2>1. /\ job[j].pc = "placed" /\ pr' = pr
        /\ job' = [job EXCEPT ![j].pc = "created", ![j].run = Len(runs) + 1]
    BY <1>1, <1>4 DEF CreateReviewRun, AddRun, At
  <2>2. job'[j].pc = "created"
    BY <2>1, JobIs
  <2> QED
    BY <1>2, <2>1, <2>2 DEF PrBy, SettlesWell, HeadlessPcs, ReviewPcs, DecidingPcs, SettledPcs
<1>5. CASE FetchHead(j) \/ FetchFiles(j)
  <2>1. /\ pr' = pr /\ runs' = runs
        /\ \/ /\ job[j].pc = "created"
              /\ job' = [job EXCEPT ![j].pc = "headRead", ![j].head = head]
           \/ /\ job[j].pc = "headRead"
              /\ job' = [job EXCEPT ![j].pc = "fetched", ![j].seen = head]
    BY <1>1, <1>5 DEF FetchHead, FetchFiles, At, tables
  <2>2. /\ job'[j].pc \in {"headRead", "fetched"} /\ job[j].pc \in {"created", "headRead"}
        /\ job'[j].head # 0
    <3>1. job[j].pc = "headRead" => job[j].head # 0
      BY DEF Quiet, SettlesWell
    <3> QED
      BY <2>1, <3>1, JobIs, HeadTyped DEF Inv
  <2> QED
    BY <1>2, <2>1, <2>2 DEF PrBy, SettlesWell, HeadlessPcs, ReviewPcs, DecidingPcs, SettledPcs
<1>6. CASE RecordPullRequest(j)
  <2>1. job[j].pc = "fetched" /\ Goto(j, "recorded") /\ SetPR(job[j].head, "reviewing")
    BY <1>1, <1>6 DEF RecordPullRequest, Call, At
  <2>2. job'[j].pc = "recorded" /\ pr'.status = "reviewing" /\ pr'.head = job[j].head
        /\ job[j].head # 0
    BY <2>1, GotoMoves DEF SetPR, Quiet, SettlesWell
  <2> QED
    BY <2>2 DEF PrBy, SettlesWell, ReviewPcs, SettledPcs
<1>7. CASE /\ \/ UpdateReviewRunHeadSHA(j) \/ SaveFinding(j) \/ SaveRiskScore(j)
              \/ PublishReview(j) \/ FinishReviewRun(j) \/ FailReviewRun(j) \/ Review(j)
  <2>1. /\ pr' = pr
        /\ job[j].pc \in {"recorded", "headed", "saving", "scored", "published", "erring"}
        /\ \/ Goto(j, "headed") \/ Goto(j, "scored") \/ Goto(j, "published")
           \/ Goto(j, "finished") \/ Goto(j, "erring2")
           \/ \E o : job' = [job EXCEPT ![j].pc = "saving", ![j].outcome = o,
                                       ![j].todo = o.findings]
           \/ job[j].pc = "saving" /\ \E f : job' = [job EXCEPT ![j].todo = @ \ {f}]
    BY <1>1, <1>7
       DEF UpdateReviewRunHeadSHA, SaveFinding, SaveRiskScore, PublishReview, FinishReviewRun,
           FailReviewRun, Review, Call, Try, At, SetRun, AddFinding, Finish, tables
  <2>2. job'[j].pc \in {"headed", "saving", "scored", "published", "finished", "erring2"}
    <3>1. CASE \/ Goto(j, "headed") \/ Goto(j, "scored") \/ Goto(j, "published")
               \/ Goto(j, "finished") \/ Goto(j, "erring2")
      <4>1. \E pc \in {"headed", "scored", "published", "finished", "erring2"} : Goto(j, pc)
        BY <3>1
      <4> QED
        BY <4>1, GotoMoves
    <3>2. CASE \E o : job' = [job EXCEPT ![j].pc = "saving", ![j].outcome = o,
                                        ![j].todo = o.findings]
      BY <3>2, JobIs
    <3>3. CASE /\ job[j].pc = "saving"
               /\ \E f : job' = [job EXCEPT ![j].todo = @ \ {f}]
      BY <3>3, JobIs
    <3> QED
      BY <2>1, <3>1, <3>2, <3>3
  <2>3. runs # <<>>
    <3>1. job[j].pc \in OpenPcs
      BY <2>1 DEF OpenPcs, ReviewPcs
    <3>2. job[j].run \in 1 .. Len(runs)
      BY <3>1, RunsTyped DEF Inv, OwnRun
    <3> QED
      BY <3>2, RunsTyped DEF Inv
  <2> QED
    BY <2>1, <2>2, <2>3 DEF PrBy, SettlesWell, HeadlessPcs, ReviewPcs, DecidingPcs, SettledPcs
<1>8. CASE MarkReviewed(j) \/ MarkReviewFailed(j)
  <2>1. /\ job[j].pc \in {"finished", "erring2"} /\ runs' = runs
        /\ SetStatus("reviewed") \/ SetStatus("review_failed")
        /\ \/ Goto(j, "returning")
           \/ job' = [job EXCEPT ![j].pc = "returning", ![j].ok = FALSE]
    BY <1>1, <1>8 DEF MarkReviewed, MarkReviewFailed, At, SetStatus
  <2>2. job'[j].pc = "returning"
    BY <2>1, GotoMoves, JobIs
  <2>3. pr'.status \in {"reviewed", "review_failed"} /\ pr'.head = pr.head
    BY <2>1 DEF SetStatus, Inv3, Refers
  <2> QED
    BY <1>2, <2>1, <2>2, <2>3 DEF PrBy, SettlesWell, Progress, HeadlessPcs
<1>9. CASE ReturnReview(j)
  <2>1. /\ job[j].pc = "returning" /\ pr' = pr /\ runs' = runs
        /\ \E pc \in Ends : Goto(j, pc)
    BY <1>1, <1>9 DEF ReturnReview, Call, Try, At, SetCommand, Failed, tables, Ends
  <2> QED
    BY <1>2, <1>9, <2>1, GotoMoves DEF PrBy, SettlesWell, Ends, HeadlessPcs
<1> QED
  BY <1>1, <1>3, <1>4, <1>5, <1>6, <1>7, <1>8, <1>9 DEF ReviewStep, Expire

\* What a command does to its job.
LEMMA QuietCommand ==
  ASSUME Inv, Inv3, Quiet, faults \in Nat, NoFault, NEW j \in Jobs,
         CommandStep(j) \/ DismissFinding(j) \/ ReadRiskToAnswer(j)
  PROVE  PrBy(j) /\ SettlesWell(j)'
<1> DEFINE After == {"queued", "done", "dead", "prepared", "permitted", "refused", "answering"}
<1>1. ~Fault
  BY DEF Fault, NoFault
<1>2. \A pc \in After : /\ pc \notin ReviewPcs /\ pc \notin SettledPcs /\ pc \notin DecidingPcs
                        /\ pc \notin HeadlessPcs
  BY DEF ReviewPcs, SettledPcs, DecidingPcs, HeadlessPcs
<1>3. ASSUME job'[j].pc \in After PROVE SettlesWell(j)'
  BY <1>3 DEF SettlesWell, SettledPcs
<1>4. CASE PrepareCommand(j)
  <2>1. PICK n : /\ job' = [job EXCEPT ![j] = [[Fresh EXCEPT !.attempt = n] EXCEPT
                                                !.pc = "prepared"]]
                 /\ pr' = EnsuredPullRequest /\ job[j].pc = "queued" /\ runs' = runs
    BY <1>1, <1>4 DEF PrepareCommand, At
  <2>2. job'[j].pc = "prepared"
    BY <2>1, JobIs DEF Fresh
  <2>3. pr' = pr \/ (pr'.status = "review_pending" /\ pr'.head = pr.head)
    BY <2>1 DEF EnsuredPullRequest, Quiet, PrSettles
  <2> HIDE DEF After
  <2>4. {"queued", "prepared"} \subseteq After
    BY DEF After
  <2> QED
    BY <1>2, <1>3, <2>1, <2>2, <2>3, <2>4 DEF PrBy, Progress
<1>5. CASE ~PrepareCommand(j)
  <2>1. /\ pr' = pr /\ runs' = runs /\ \E pc \in After : Goto(j, pc)
        /\ job[j].pc \in {"prepared", "refused", "abandoning", "answering", "permitted"}
    BY <1>1, <1>5
       DEF CommandStep, CheckPermission, RefuseCommand, AbandonCommand, AnswerCommand,
           DismissFinding, ReadRiskToAnswer, Call, Try, At, SetCommand, CloseTarget, Failed,
           tables
  <2>2. /\ job'[j].pc \in After
        /\ job[j].pc \notin ReviewPcs \cup DecidingPcs
    BY <2>1, GotoMoves DEF ReviewPcs, DecidingPcs
  <2> QED
    BY <1>2, <1>3, <2>1, <2>2 DEF PrBy, HeadlessPcs, ReviewPcs
<1> QED
  BY <1>4, <1>5

LEMMA DecisionIs ==
  ASSUME NEW me, NEW checks, NEW run, NEW risk, NEW severities, NEW paths
  PROVE  DecideApproval(me, checks, run, risk, severities, Cfg, paths) \in
           {"approval_blocked", "human_review_required", "approval_recommended"}
BY DEF DecideApproval

\* What a check does to its job.
LEMMA QuietCheck ==
  ASSUME Inv, Inv3, Quiet, faults \in Nat, NoFault, NEW j \in Jobs, CheckStep(j)
  PROVE  /\ PrBy(j) /\ SettlesWell(j)'
         /\ job'[j].pc \in DecidingPcs \cup {"toCheck", "answering"}
<1>1. ~Fault
  BY DEF Fault, NoFault
<1>2. /\ DecidingPcs \cap ReviewPcs = {} /\ DecidingPcs \cap HeadlessPcs = {}
      /\ SettledPcs \subseteq DecidingPcs
      /\ DecidingPcs \cap {"headRead", "fetched"} = {}
      /\ {"permitted", "toCheck", "answering"} \cap
           (ReviewPcs \cup DecidingPcs \cup HeadlessPcs) = {}
  BY DEF ReviewPcs, SettledPcs, DecidingPcs, HeadlessPcs
<1>3. CASE FetchHeadToCheck(j)
  <2>1. /\ job' = [job EXCEPT ![j].pc = "toCheck", ![j].head = head]
        /\ pr' = pr /\ runs' = runs /\ job[j].pc = "permitted"
    BY <1>1, <1>3 DEF FetchHeadToCheck, At, tables
  <2>2. job'[j].pc = "toCheck"
    BY <2>1, JobIs
  <2> QED
    BY <1>2, <2>1, <2>2 DEF PrBy, SettlesWell, HeadlessPcs
<1>4. CASE MarkChecking(j)
  <2>1. /\ job[j].pc = "toCheck" /\ Goto(j, "checking")
        /\ SetPR(job[j].head, "approval_checking")
    BY <1>1, <1>4 DEF MarkChecking, Call, At
  <2>2. job'[j].pc = "checking" /\ pr'.status = "approval_checking" /\ pr'.head # 0
    BY <2>1, GotoMoves, JobIs DEF SetPR, HeadRead
  <2> QED
    BY <2>2 DEF PrBy, SettlesWell, SettledPcs, DecidingPcs
<1>5. CASE FetchChecks(j) \/ ReadLatestRun(j) \/ ReadRisk(j)
  <2>1. /\ pr' = pr /\ runs' = runs /\ job[j].pc \in {"checking", "ciRead", "runRead"}
        /\ \/ \E s : job' = [job EXCEPT ![j].pc = "ciRead", ![j].ci = s]
           \/ \E run : job' = [job EXCEPT ![j].pc = "runRead", ![j].latest = run]
           \/ job' = [job EXCEPT ![j].pc = "riskRead", ![j].risk = LatestRiskLevel]
    BY <1>1, <1>5 DEF FetchChecks, ReadLatestRun, ReadRisk, At, tables
  <2>2. job'[j].pc \in {"ciRead", "runRead", "riskRead"}
    <3>1. CASE \E s : job' = [job EXCEPT ![j].pc = "ciRead", ![j].ci = s]
      BY <3>1, JobIs
    <3>2. CASE \E run : job' = [job EXCEPT ![j].pc = "runRead", ![j].latest = run]
      BY <3>2, JobIs
    <3>3. CASE job' = [job EXCEPT ![j].pc = "riskRead", ![j].risk = LatestRiskLevel]
      BY <3>3, JobIs
    <3> QED
      BY <2>1, <3>1, <3>2, <3>3
  <2>3. /\ job'[j].pc \in DecidingPcs /\ job[j].pc \in DecidingPcs
        /\ job'[j].pc \notin SettledPcs
    BY <2>1, <2>2 DEF DecidingPcs, SettledPcs
  <2> QED
    BY <1>2, <2>1, <2>3 DEF PrBy, SettlesWell, HeadlessPcs
<1>6. CASE Decide(j) \/ ApprovePullRequest(j) \/ SaveApprovalCheck(j)
  <2>1. /\ pr' = pr /\ runs' = runs /\ job[j].pc \in {"riskRead", "approving", "decided"}
    BY <1>6 DEF Decide, ApprovePullRequest, SaveApprovalCheck, Call, Attempted, At, tables
  <2>2. job'[j].pc \in SettledPcs /\ job'[j].status \notin Progress \cup {"none"}
    <3>1. CASE Decide(j)
      <4> DEFINE result ==
            DecideApproval(job[j].head, [state |-> job[j].ci, details |-> <<>>],
              IF job[j].latest = 0 THEN [found |-> FALSE, head |-> 0]
              ELSE [found |-> TRUE, head |-> runs[job[j].latest].head],
              job[j].risk, OpenSeverities, Cfg, {})
      <4>1. PICK pc : /\ job' = [job EXCEPT ![j].result = result, ![j].status = result,
                                           ![j].pc = pc]
                      /\ pc = IF result = "approval_recommended" /\ AutoApprove
                              THEN "approving" ELSE "decided"
        BY <1>1, <3>1 DEF Decide
      <4>2. result \in {"approval_blocked", "human_review_required", "approval_recommended"}
        BY DecisionIs
      <4> HIDE DEF result
      <4>3. pc \in {"approving", "decided"}
        BY <4>1
      <4>4. job'[j].pc = pc /\ job'[j].status = result
        BY <4>1, JobIs
      <4> QED
        BY <4>2, <4>3, <4>4 DEF SettledPcs, Progress
    <3>2. CASE ApprovePullRequest(j)
      <4>1. job' = [job EXCEPT ![j].pc = "decided", ![j].status = "auto_approved"]
        BY <1>1, <3>2 DEF ApprovePullRequest
      <4>2. job'[j].pc = "decided" /\ job'[j].status = "auto_approved"
        BY <4>1, JobIs
      <4> QED
        BY <4>2 DEF SettledPcs, Progress
    <3>3. CASE SaveApprovalCheck(j)
      <4>1. job[j].pc = "decided" /\ Goto(j, "saved")
        BY <1>1, <3>3 DEF SaveApprovalCheck, Call, At
      <4>2. job'[j].pc = "saved" /\ job'[j].status = job[j].status
        BY <4>1, JobIs DEF Goto
      <4> QED
        BY <4>1, <4>2 DEF SettledPcs, Quiet, SettlesWell
    <3> QED
      BY <1>6, <3>1, <3>2, <3>3
  <2>3. job[j].pc \in DecidingPcs
    BY <2>1 DEF DecidingPcs
  <2> QED
    BY <1>2, <2>1, <2>2, <2>3 DEF PrBy, SettlesWell
<1>7. CASE MarkDecided(j)
  <2>1. job[j].pc = "saved" /\ Goto(j, "answering") /\ SetStatus(job[j].status)
    BY <1>1, <1>7 DEF MarkDecided, Call, At
  <2>2. job'[j].pc = "answering" /\ job[j].status \notin Progress \cup {"none"}
    BY <2>1, GotoMoves DEF Quiet, SettlesWell, SettledPcs
  <2>3. pr'.status = job[j].status /\ pr'.head = pr.head /\ runs' = runs
    BY <2>1 DEF SetStatus, Inv3, Refers
  <2> QED
    BY <1>2, <2>1, <2>2, <2>3 DEF PrBy, SettlesWell, HeadlessPcs, SettledPcs
<1> QED
  BY <1>3, <1>4, <1>5, <1>6, <1>7 DEF CheckStep

\* Commands are closed when their job is over, and not before.
LEMMA QuietCloses ==
  ASSUME Inv, Inv3, Quiet, faults \in Nat, NoFault, NEW j \in Jobs, JobStep(j)
  PROVE  CommandsBy(j)
<1>1. ~Fault
  BY DEF Fault, NoFault
<1>2. /\ Ends \cap (ReviewPcs \cup {"returning"}) = {}
      /\ Ends \cap (DecidingPcs \cup {"toCheck", "answering"}) = {}
      /\ Ends \cap {"prepared", "permitted", "refused", "answering"} = {}
      /\ {"done", "queued"} \subseteq Ends
  BY DEF ReviewPcs, DecidingPcs, Ends
<1>3. CASE j \in Reviews \cup Rechecks /\ ReviewStep(j) /\ ~ReturnReview(j)
  <2>1. commands' = commands /\ job[j].pc # "done"
    BY <1>1, <1>3
       DEF ReviewStep, StartReview, CreateReviewRun, FetchHead, FetchFiles, RecordPullRequest,
           UpdateReviewRunHeadSHA, Review, SaveFinding, SaveRiskScore, PublishReview,
           FinishReviewRun, MarkReviewed, FailReviewRun, MarkReviewFailed, Expire, SetPR,
           SetRun, SetStatus, AddRun, AddFinding, Finish, Call, Try, At, tables
  <2> QED
    BY <1>2, <1>3, <2>1, QuietReview DEF CommandsBy
<1>4. CASE ReturnReview(j)
  <2>1. CASE j \in Reviews
    <3>1. j \notin Commands /\ commands' = commands /\ job[j].pc = "returning"
      BY <1>4, <2>1, JobsAssumption DEF ReturnReview, Commands, At, tables
    <3> QED
      BY <3>1 DEF CommandsBy
  <2>2. CASE j \in Rechecks /\ job[j].ok
    <3>1. /\ job[j].pc = "returning" /\ Goto(j, "done")
          /\ commands' = [commands EXCEPT ![j] = "success"]
      BY <1>1, <1>4, <2>2, JobsAssumption DEF ReturnReview, Call, At, SetCommand
    <3> QED
      BY <3>1, GotoMoves DEF CommandsBy
  <2>3. CASE j \in Rechecks /\ ~job[j].ok
    <3>1. /\ job[j].pc = "returning"
          /\ commands' = [commands EXCEPT ![j] = "failed"]
      BY <1>1, <1>4, <2>3, JobsAssumption DEF ReturnReview, Try, At, SetCommand
    <3> QED
      BY <3>1 DEF CommandsBy
  <2> QED
    BY <1>4, <2>1, <2>2, <2>3 DEF ReturnReview
<1>5. CASE PrepareCommand(j)
  <2>1. PICK n : /\ job' = [job EXCEPT ![j] = [[Fresh EXCEPT !.attempt = n] EXCEPT
                                                !.pc = "prepared"]]
                 /\ commands' = [commands EXCEPT ![j] = "running"] /\ job[j].pc = "queued"
    BY <1>1, <1>5 DEF PrepareCommand, At
  <2>2. job'[j].pc = "prepared"
    BY <2>1, JobIs DEF Fresh
  <2> QED
    BY <1>2, <2>1, <2>2 DEF CommandsBy
<1>6. CASE CheckPermission(j) \/ DismissFinding(j) \/ ReadRiskToAnswer(j)
  <2>1. /\ commands' = commands /\ job[j].pc \in {"prepared", "permitted"}
        /\ \E pc \in {"permitted", "refused", "answering"} : Goto(j, pc)
    BY <1>1, <1>6 DEF CheckPermission, DismissFinding, ReadRiskToAnswer, CloseTarget, At, tables
  <2> QED
    BY <1>2, <2>1, GotoMoves DEF CommandsBy
<1>7. CASE RefuseCommand(j) \/ AbandonCommand(j) \/ AnswerCommand(j)
  <2>1. \/ /\ job[j].pc \in {"refused", "abandoning"}
           /\ commands' = [commands EXCEPT ![j] = "failed"]
        \/ /\ job[j].pc = "answering" /\ Goto(j, "done")
           /\ commands' = [commands EXCEPT ![j] = "success"]
    BY <1>1, <1>7 DEF RefuseCommand, AbandonCommand, AnswerCommand, Call, Try, SetCommand, At
  <2> QED
    BY <2>1, GotoMoves DEF CommandsBy
<1>8. CASE CheckStep(j)
  <2>1. commands' = commands /\ job[j].pc # "done"
    BY <1>1, <1>8
       DEF CheckStep, FetchHeadToCheck, MarkChecking, FetchChecks, ReadLatestRun, ReadRisk,
           Decide, ApprovePullRequest, SaveApprovalCheck, MarkDecided, SetPR, SetStatus, Call,
           At, tables
  <2> QED
    BY <1>2, <1>8, <2>1, QuietCheck DEF CommandsBy
<1> QED
  BY <1>3, <1>4, <1>5, <1>6, <1>7, <1>8 DEF JobStep, CommandStep, ReviewStep

\* Findings are dismissed by dismissals that found one.
LEMMA QuietDismisses ==
  ASSUME Inv, Inv2, Inv3, Quiet, faults \in Nat, NoFault, NEW j \in Jobs, JobStep(j)
  PROVE  DismissedBy(j)
<1>1. ~Fault
  BY DEF Fault, NoFault
<1>2. CASE DismissFinding(j)
  <2>1. /\ j \in Dismissals /\ job[j].pc = "permitted"
        /\ CloseTarget /\ Goto(j, IF OpenTarget # {} THEN "answering" ELSE "refused")
    BY <1>1, <1>2 DEF DismissFinding, At
  <2>2. CASE OpenTarget = {}
    <3>1. findings' = findings /\ job'[j].pc = "refused"
      BY <2>1, <2>2, GotoMoves DEF CloseTarget
    <3> QED
      BY <2>1, <3>1 DEF DismissedBy, AnyDismissed
  <2>3. CASE OpenTarget # {}
    <3>1. PICK f : f \in OpenTarget
      BY <2>3
    <3>2. [f EXCEPT !.status = "dismissed"] \in findings'
      BY <2>1, <3>1 DEF CloseTarget
    <3>3. "status" \in DOMAIN f
      BY <3>1 DEF Inv2, FindingsHold, OpenTarget
    <3>4. [f EXCEPT !.status = "dismissed"].status = "dismissed"
      BY <3>3
    <3>5. AnyDismissed'
      BY <3>2, <3>4 DEF AnyDismissed
    <3>6. job'[j].pc = "answering"
      BY <2>1, <2>3, GotoMoves
    <3> QED
      BY <2>1, <3>5, <3>6 DEF DismissedBy
  <2> QED
    BY <2>2, <2>3
<1>3. CASE j \in Reviews \cup Rechecks /\ ReviewStep(j)
  <2>1. \/ findings' = findings
        \/ \E f : findings' = findings \cup {[run |-> job[j].run, id |-> f.id,
                                              severity |-> f.severity, status |-> "open"]}
    BY <1>1, <1>3
       DEF ReviewStep, StartReview, CreateReviewRun, FetchHead, FetchFiles, RecordPullRequest,
           UpdateReviewRunHeadSHA, Review, SaveFinding, SaveRiskScore, PublishReview,
           FinishReviewRun, MarkReviewed, FailReviewRun, MarkReviewFailed, Expire, SetPR,
           SetRun, SetStatus, AddRun, AddFinding, Finish, Call, Try, ReturnReview, SetCommand,
           tables
  <2>2. j \notin Dismissals
    BY <1>3, JobsAssumption
  <2>3. AnyDismissed' <=> AnyDismissed
    BY <2>1 DEF AnyDismissed
  <2> QED
    BY <2>2, <2>3 DEF DismissedBy
<1>4. CASE \/ j \in Checks /\ CheckStep(j)
           \/ j \in Questions /\ ReadRiskToAnswer(j)
  <2>1. findings' = findings
    BY <1>1, <1>4
       DEF CheckStep, FetchHeadToCheck, MarkChecking, FetchChecks, ReadLatestRun, ReadRisk,
           Decide, ApprovePullRequest, SaveApprovalCheck, MarkDecided, SetPR, SetStatus, Call,
           ReadRiskToAnswer, tables
  <2>2. j \notin Dismissals
    BY <1>4, JobsAssumption
  <2> QED
    BY <2>1, <2>2 DEF DismissedBy, AnyDismissed
<1>5. CASE CommandStep(j)
  <2>1. findings' = findings
    BY <1>5
       DEF CommandStep, PrepareCommand, CheckPermission, RefuseCommand, AbandonCommand,
           AnswerCommand, Call, Try, Attempted, SetCommand, tables
  <2>2. CASE PrepareCommand(j)
    <3>1. PICK n : job' = [job EXCEPT ![j] = [[Fresh EXCEPT !.attempt = n] EXCEPT
                                                !.pc = "prepared"]]
      BY <1>1, <2>2 DEF PrepareCommand
    <3>2. job'[j].pc = "prepared"
      BY <3>1, JobIs DEF Fresh
    <3>3. job[j].pc = "queued"
      BY <2>2 DEF PrepareCommand, At
    <3> QED
      BY <2>1, <3>2, <3>3 DEF DismissedBy, AnyDismissed
  <2>3. CASE CheckPermission(j) \/ RefuseCommand(j) \/ AbandonCommand(j)
    <3>1. /\ job[j].pc \in {"prepared", "refused", "abandoning"}
          /\ \E pc \in {"permitted", "refused", "done", "queued", "dead"} : Goto(j, pc)
      BY <1>1, <2>3 DEF CheckPermission, RefuseCommand, AbandonCommand, Call, Try, Failed, At
    <3>2. job'[j].pc # "answering" /\ job[j].pc # "answering"
      BY <3>1, GotoMoves
    <3> QED
      BY <2>1, <3>2 DEF DismissedBy, AnyDismissed
  <2>4. CASE AnswerCommand(j)
    <3>1. /\ job[j].pc = "answering"
          /\ commands' = [commands EXCEPT ![j] = "success"]
      BY <1>1, <2>4 DEF AnswerCommand, Call, SetCommand, At
    <3>2. j \in Dismissals => commands'[j] = "success"
      BY <3>1 DEF Quiet, CommandsSettle, Commands
    <3> QED
      BY <2>1, <3>1, <3>2 DEF DismissedBy, AnyDismissed
  <2> QED
    BY <1>5, <2>2, <2>3, <2>4 DEF CommandStep
<1> QED
  BY <1>2, <1>3, <1>4, <1>5 DEF JobStep

-----------------------------------------------------------------------------
(* The invariant of runs without a fault.                                  *)

LEMMA Init4 == Init => Inv4
<1> SUFFICES ASSUME Init PROVE Inv4
  OBVIOUS
<1>1. \A j \in Jobs : job[j].pc \in {"queued", "done"}
  BY DEF Init, Fresh
<1>2. PrSettles /\ CommandsSettle
  BY <1>1 DEF Init, PrSettles, CommandsSettle
<1>3. \A j \in Jobs : SettlesWell(j)
  BY <1>1 DEF SettlesWell, SettledPcs
<1>4. DismissalsTell
  BY <1>1 DEF Init, DismissalsTell, AnyDismissed, Commands, Jobs
<1> QED
  BY <1>2, <1>3, <1>4 DEF Inv4, Quiet, Init

LEMMA QuietStill ==
  ASSUME Quiet, UNCHANGED <<pr, runs, job, commands, findings>> PROVE Quiet'
BY DEF Quiet, PrSettles, SettlesWell, CommandsSettle, DismissalsTell, AnyDismissed

\* Faults are only ever added.
LEMMA FaultsGrow ==
  ASSUME faults \in Nat, [Next]_vars
  PROVE  /\ faults' = faults \/ faults' = faults + 1
         /\ faults' \in Nat /\ (faults' = 0 => (faults = 0 /\ NoFault))
<1>1. faults' = faults \/ faults' = faults + 1
  <2>1. ASSUME NEW j, ReviewStep(j) PROVE faults' = faults \/ faults' = faults + 1
    BY <2>1
       DEF ReviewStep, StartReview, CreateReviewRun, FetchHead, FetchFiles, RecordPullRequest,
           UpdateReviewRunHeadSHA, Review, SaveFinding, SaveRiskScore, PublishReview,
           FinishReviewRun, MarkReviewed, FailReviewRun, MarkReviewFailed, Expire,
           ReturnReview, Call, Try, Fault, NoFault
  <2>2. ASSUME NEW j, CommandStep(j) PROVE faults' = faults \/ faults' = faults + 1
    BY <2>2 DEF CommandStep, PrepareCommand, CheckPermission, RefuseCommand, AbandonCommand,
           AnswerCommand, Call, Try, Fault, NoFault
  <2>3. ASSUME NEW j, CheckStep(j) \/ DismissFinding(j) \/ ReadRiskToAnswer(j)
        PROVE  faults' = faults \/ faults' = faults + 1
    BY <2>3 DEF CheckStep, FetchHeadToCheck, MarkChecking, FetchChecks, ReadLatestRun, ReadRisk,
           Decide, ApprovePullRequest, SaveApprovalCheck, MarkDecided, DismissFinding,
           ReadRiskToAnswer, Call, Fault, NoFault
  <2>4. Crash \/ Push \/ UNCHANGED vars => faults' = faults \/ faults' = faults + 1
    BY DEF Crash, Push, vars, Fault
  <2> QED
    BY <2>1, <2>2, <2>3, <2>4 DEF Next, JobStep, Rest
<1> QED
  BY <1>1 DEF NoFault

LEMMA Next4 ==
  ASSUME Inv, Inv', Inv2, Inv3, Inv4, [Next]_vars PROVE Inv4'
<1>1. faults' \in Nat /\ (faults' = 0 => (faults = 0 /\ NoFault))
  BY FaultsGrow DEF Inv4
<1> SUFFICES ASSUME Quiet, NoFault, faults \in Nat PROVE Quiet'
  BY <1>1 DEF Inv4
<1>2. ASSUME NEW j \in Jobs, JobStep(j) PROVE Quiet'
  <2>1. PrBy(j) /\ SettlesWell(j)'
    BY <1>2, QuietReview, QuietCommand, QuietCheck DEF JobStep
  <2>2. Only(j)
    BY <1>2, JobStep2 DEF Touches
  <2> QED
    BY <1>2, <2>1, <2>2, QuietCloses, QuietDismisses, QuietKept
<1>3. ~Crash
  BY DEF Crash, Fault, NoFault
<1>4. CASE Push \/ UNCHANGED vars
  BY <1>4, QuietStill DEF Push, vars, tables
<1> QED
  BY <1>2, <1>3, <1>4 DEF Next, Rest

LEMMA QuietAlways == Spec => []Inv4
<1>1. Inv /\ Inv' /\ Inv2 /\ Inv3 /\ Inv4 /\ [Next]_vars => Inv4'
  BY Next4
<1> QED
  BY <1>1, Init4, InvAlways, EarnedAlways, TablesAlways, PTL DEF Spec

\* When all jobs are over and nothing failed, neither approval_status nor a
\* command is left at a progress marker, and the placeholder without a commit
\* that a recheck writes has been replaced.
THEOREM QuietEnds == Spec => []QuietEnd
<1>1. Inv4 => QuietEnd
  <2> SUFFICES ASSUME Inv4, faults = 0, Over
               PROVE  /\ pr.status \notin {"reviewing", "approval_checking"}
                      /\ \A c \in Commands : commands[c] # "running"
                      /\ runs # <<>> => pr.head # 0
    BY DEF QuietEnd
  <2>1. Quiet
    BY DEF Inv4
  <2>2. \A j \in Jobs : /\ job[j].pc \notin ReviewPcs /\ job[j].pc \notin DecidingPcs
                        /\ job[j].pc \notin HeadlessPcs
    BY DEF Over, ReviewPcs, DecidingPcs, HeadlessPcs
  <2>3. \A c \in Commands : commands[c] # "running"
    BY <2>1 DEF Quiet, CommandsSettle, Over, Ends, Jobs, Commands
  <2> QED
    BY <2>1, <2>2, <2>3 DEF Quiet, PrSettles
<1> QED
  BY <1>1, QuietAlways, PTL

\* When all jobs are over and nothing failed, a finding is dismissed exactly if
\* a dismissal was answered with success (handleDismissCommand).
THEOREM DismissalsAreAnswered == Spec => []DismissalsAnswered
<1>1. Inv4 => DismissalsAnswered
  <2> SUFFICES ASSUME Inv4, faults = 0, Over
               PROVE  AnyDismissed <=> \E j \in Dismissals : commands[j] = "success"
    BY DEF DismissalsAnswered, AnyDismissed
  <2>1. \A j \in Dismissals : job[j].pc # "answering"
    BY DEF Over, Jobs
  <2> QED
    BY <2>1 DEF Inv4, Quiet, DismissalsTell
<1> QED
  BY <1>1, QuietAlways, PTL

-----------------------------------------------------------------------------
(* Runs that are called running and have no job at work: every fault       *)
(* accounts for those it leaves behind.  A job whose handleJobError has    *)
(* passed the run's row no longer counts as at work.                       *)

Reviewing == Reviews \cup Rechecks
WorkPcs   == ReviewPcs \ {"placed", "finished", "erring2"}
Works(j, i) == job[j].run = i /\ job[j].pc \in WorkPcs
Abandoned ==
  {i \in DOMAIN runs : runs[i].status = "running" /\ \A j \in Reviewing : ~Works(j, i)}

Inv5 == Cardinality(Abandoned) <= faults * Cardinality(Reviewing)

LEMMA AbandonedFinite ==
  ASSUME Inv
  PROVE  IsFiniteSet(Abandoned) /\ Cardinality(Abandoned) \in Nat
<1>1. IsFiniteSet(1 .. Len(runs)) /\ Abandoned \subseteq 1 .. Len(runs)
  BY FS_Interval, RunsTyped DEF Inv, Abandoned
<1> QED
  BY <1>1, FS_Subset, FS_CardinalityType

LEMMA ReviewingFinite == IsFiniteSet(Reviewing) /\ Cardinality(Reviewing) \in Nat
BY FiniteAssumption, FS_CardinalityType DEF Reviewing

\* The runs of the other jobs are left alone.
OthersKept(j) ==
  /\ DOMAIN runs' = DOMAIN runs
  /\ \A i \in DOMAIN runs : i # job[j].run => runs'[i] = runs[i]

\* A job that keeps its run, finishes it, or had none, abandons nothing.
LEMMA StaysWorked ==
  ASSUME NEW j \in Reviewing, Only(j), OthersKept(j),
         runs' = runs \/ job[j].pc \in WorkPcs,
         job[j].pc \in WorkPcs =>
           \/ runs'[job[j].run].status # "running"
           \/ job'[j].pc \in WorkPcs /\ job'[j].run = job[j].run
  PROVE  Abandoned' \subseteq Abandoned
<1> SUFFICES ASSUME NEW i \in Abandoned' PROVE i \in Abandoned
  OBVIOUS
<1>1. i \in DOMAIN runs /\ runs'[i].status = "running" /\ \A k \in Reviewing : ~Works(k, i)'
  BY DEF Abandoned, OthersKept
<1>2. ASSUME NEW k \in Reviewing, k # j PROVE ~Works(k, i)
  BY <1>1, <1>2 DEF Works, Only, Reviewing, Jobs
<1>3. ~Works(j, i)
  BY <1>1 DEF Works
<1>4. runs[i].status = "running"
  BY <1>1, <1>3 DEF OthersKept, Works
<1> QED
  BY <1>1, <1>2, <1>3, <1>4 DEF Abandoned

\* Whatever it does, it abandons its own run at most.
LEMMA OwnAbandoned ==
  ASSUME NEW j \in Reviewing, Only(j), OthersKept(j)
  PROVE  Abandoned' \subseteq Abandoned \cup {job[j].run}
<1> SUFFICES ASSUME NEW i \in Abandoned', i # job[j].run PROVE i \in Abandoned
  OBVIOUS
<1>1. i \in DOMAIN runs /\ runs'[i].status = "running" /\ \A k \in Reviewing : ~Works(k, i)'
  BY DEF Abandoned, OthersKept
<1>2. ASSUME NEW k \in Reviewing PROVE ~Works(k, i)
  BY <1>1, <1>2 DEF Works, Only, Reviewing, Jobs
<1>3. runs[i].status = "running"
  BY <1>1 DEF OthersKept
<1> QED
  BY <1>1, <1>2, <1>3 DEF Abandoned

\* A run that has just been created is the only new one.
LEMMA CreateAbandons ==
  ASSUME Inv, NEW j \in Reviewing, Only(j), CreateReviewRun(j)
  PROVE  /\ Abandoned' \subseteq Abandoned \cup {Len(runs) + 1}
         /\ ~Fault => Abandoned' \subseteq Abandoned
<1> DEFINE row == [head |-> job[j].head, status |-> "running", stamp |-> 0, seen |-> 0]
<1>1. /\ job[j].pc = "placed"
      /\ runs' = runs \/ runs' = Append(runs, row)
      /\ ~Fault => job' = [job EXCEPT ![j].pc = "created", ![j].run = Len(runs) + 1]
  BY DEF CreateReviewRun, AddRun, Attempted, At, tables
<1> HIDE DEF row
<1>2. /\ DOMAIN runs' \subseteq DOMAIN runs \cup {Len(runs) + 1}
      /\ \A i \in DOMAIN runs : runs'[i] = runs[i] /\ i # Len(runs) + 1
  <2>1. /\ DOMAIN runs = 1 .. Len(runs) /\ Len(runs) \in Nat
        /\ \A i \in DOMAIN runs : i # Len(runs) + 1
    BY RunsTyped DEF Inv
  <2>2. CASE runs' = runs
    BY <2>1, <2>2
  <2>3. CASE runs' = Append(runs, row)
    <3>1. runs \in Seq(Rows)
      BY DEF Inv, Typed
    <3>2. /\ DOMAIN runs' = 1 .. Len(runs) + 1
          /\ \A i \in 1 .. Len(runs) : runs'[i] = runs[i]
      BY <2>3, <3>1
    <3> QED
      BY <2>1, <3>2
  <2> QED
    BY <1>1, <2>2, <2>3
<1>3. Abandoned' \subseteq Abandoned \cup {Len(runs) + 1}
  <2> SUFFICES ASSUME NEW i \in Abandoned', i # Len(runs) + 1 PROVE i \in Abandoned
    OBVIOUS
  <2>1. i \in DOMAIN runs /\ runs[i].status = "running" /\ \A k \in Reviewing : ~Works(k, i)'
    BY <1>2 DEF Abandoned
  <2>2. ASSUME NEW k \in Reviewing, k # j PROVE ~Works(k, i)
    BY <2>1, <2>2 DEF Works, Only, Reviewing, Jobs
  <2>3. ~Works(j, i)
    BY <1>1 DEF Works, WorkPcs
  <2> QED
    BY <2>1, <2>2, <2>3 DEF Abandoned
<1>4. ASSUME ~Fault, NEW n, n = Len(runs) + 1 PROVE n \notin Abandoned'
  <2>1. job'[j].pc = "created" /\ job'[j].run = n
    BY <1>1, <1>4, JobIs DEF Reviewing, Jobs
  <2>2. Works(j, n)'
    BY <2>1 DEF Works, WorkPcs, ReviewPcs
  <2> QED
    BY <2>2 DEF Abandoned
<1> QED
  BY <1>3, <1>4

\* A review that meets no fault leaves no run behind.
LEMMA ReviewLeavesNone ==
  ASSUME Inv, ~Fault, NEW j \in Reviewing, Only(j), ReviewStep(j)
  PROVE  Abandoned' \subseteq Abandoned
<1> USE DEF Reviewing, Jobs
<1>1. CASE CreateReviewRun(j)
  BY <1>1, CreateAbandons
<1>2. CASE StartReview(j) \/ MarkReviewed(j) \/ MarkReviewFailed(j) \/ ReturnReview(j)
  <2>1. runs' = runs /\ job[j].pc \in {"queued", "permitted", "finished", "erring2", "returning"}
    BY <1>2
       DEF StartReview, MarkReviewed, MarkReviewFailed, ReturnReview, At, SetPR, SetStatus,
           SetCommand, Call, Try, Attempted, tables
  <2>2. job[j].pc \notin WorkPcs
    BY <2>1 DEF WorkPcs, ReviewPcs
  <2> QED
    BY <2>1, <2>2, StaysWorked DEF OthersKept
<1>3. CASE \/ FetchHead(j) \/ FetchFiles(j) \/ RecordPullRequest(j)
           \/ Review(j) \/ SaveFinding(j) \/ SaveRiskScore(j) \/ PublishReview(j)
  <2>1. runs' = runs
    BY <1>3
       DEF FetchHead, FetchFiles, RecordPullRequest, Review, SaveFinding, SaveRiskScore,
           PublishReview, AddFinding, SetPR, Call, Attempted, tables
  <2>2. \/ \E pc \in {"recorded", "scored", "published"} : Goto(j, pc)
        \/ job' = [job EXCEPT ![j].pc = "headRead", ![j].head = head]
        \/ job' = [job EXCEPT ![j].pc = "fetched", ![j].seen = head]
        \/ \E o : job' = [job EXCEPT ![j].pc = "saving", ![j].outcome = o,
                                    ![j].todo = o.findings]
        \/ job[j].pc = "saving" /\ \E f : job' = [job EXCEPT ![j].todo = @ \ {f}]
    BY <1>3
       DEF FetchHead, FetchFiles, RecordPullRequest, Review, SaveFinding, SaveRiskScore,
           PublishReview, Call, At
  <2>3. /\ job'[j].pc \in {"recorded", "scored", "published", "headRead", "fetched", "saving"}
        /\ job'[j].run = job[j].run
    <3>1. CASE \E pc \in {"recorded", "scored", "published"} : Goto(j, pc)
      BY <3>1, GotoMoves
    <3>2. CASE \/ job' = [job EXCEPT ![j].pc = "headRead", ![j].head = head]
               \/ job' = [job EXCEPT ![j].pc = "fetched", ![j].seen = head]
      BY <3>2, JobIs
    <3>3. CASE \E o : job' = [job EXCEPT ![j].pc = "saving", ![j].outcome = o,
                                        ![j].todo = o.findings]
      BY <3>3, JobIs
    <3>4. CASE job[j].pc = "saving" /\ \E f : job' = [job EXCEPT ![j].todo = @ \ {f}]
      BY <3>4, JobIs
    <3> QED
      BY <2>2, <3>1, <3>2, <3>3, <3>4
  <2>4. job'[j].pc \in WorkPcs
    BY <2>3 DEF WorkPcs, ReviewPcs
  <2> QED
    BY <2>1, <2>3, <2>4, StaysWorked DEF OthersKept
<1>4. CASE UpdateReviewRunHeadSHA(j)
  <2>1. /\ job[j].pc = "recorded" /\ Goto(j, "headed")
        /\ \E row : runs' = [runs EXCEPT ![job[j].run] = row]
    BY <1>4 DEF UpdateReviewRunHeadSHA, Call, SetRun, At
  <2>2. job'[j].pc = "headed" /\ job'[j].run = job[j].run
    BY <2>1, GotoMoves
  <2> QED
    BY <2>1, <2>2, StaysWorked DEF OthersKept, WorkPcs, ReviewPcs
<1>5. CASE FinishReviewRun(j) \/ FailReviewRun(j)
  <2>1. /\ job[j].pc \in {"published", "erring"}
        /\ \E status \in {"success", "failed"} : Finish(j, status)
    BY <1>5 DEF FinishReviewRun, FailReviewRun, Try, At
  <2>2. PICK status \in {"success", "failed"} :
          \E stamp : runs' = [runs EXCEPT ![job[j].run] =
                                [runs[job[j].run] EXCEPT !.status = status, !.stamp = stamp]]
    BY <2>1 DEF Finish, SetRun
  <2>3. job[j].pc \in WorkPcs /\ job[j].pc \in OpenPcs
    BY <2>1 DEF WorkPcs, OpenPcs, ReviewPcs
  <2>4. job[j].run \in DOMAIN runs /\ runs[job[j].run] \in Rows
    BY <2>3, RunsTyped DEF Inv, OwnRun
  <2>5. runs'[job[j].run].status = status
    BY <2>2, <2>4 DEF Rows
  <2> QED
    BY <2>2, <2>3, <2>5, StaysWorked DEF OthersKept
<1> QED
  BY <1>1, <1>2, <1>3, <1>4, <1>5 DEF ReviewStep, Expire

\* A review that meets a fault leaves at most one.
LEMMA ReviewLeavesOne ==
  ASSUME Inv, NEW j \in Reviewing, Touches(j), ReviewStep(j)
  PROVE  \E x : Abandoned' \subseteq Abandoned \cup {x}
<1>1. CASE CreateReviewRun(j)
  BY <1>1, CreateAbandons DEF Touches
<1>2. CASE ~CreateReviewRun(j)
  <2>1. runs' = runs \/ \E row : runs' = [runs EXCEPT ![job[j].run] = row]
    BY <1>2
       DEF ReviewStep, StartReview, FetchHead, FetchFiles, RecordPullRequest,
           UpdateReviewRunHeadSHA, Review, SaveFinding, SaveRiskScore, PublishReview,
           FinishReviewRun, MarkReviewed, FailReviewRun, MarkReviewFailed, Expire,
           ReturnReview, SetPR, SetRun, SetStatus, SetCommand, AddFinding, Finish, Call, Try,
           Attempted, tables
  <2>2. OthersKept(j)
    BY <2>1 DEF OthersKept
  <2> QED
    BY <2>2, OwnAbandoned DEF Touches
<1> QED
  BY <1>1, <1>2

\* The other steps of a job leave none.
LEMMA CommandLeavesNone ==
  ASSUME Inv, NEW j \in Jobs, JobStep(j), Only(j), ~ReviewStep(j) \/ j \notin Reviewing
  PROVE  Abandoned' \subseteq Abandoned
<1>1. runs' = runs /\ (j \in Reviewing => job[j].pc \notin WorkPcs)
  <2>1. CASE CommandStep(j)
    <3>1. /\ runs' = runs
          /\ job[j].pc \in {"queued", "prepared", "refused", "abandoning", "answering"}
      BY <2>1 DEF CommandStep, PrepareCommand, CheckPermission, RefuseCommand, AbandonCommand,
             AnswerCommand, SetCommand, Call, Try, Attempted, At, tables
    <3> QED
      BY <3>1 DEF WorkPcs, ReviewPcs
  <2>2. CASE \/ j \in Checks /\ CheckStep(j)
             \/ j \in Dismissals /\ DismissFinding(j)
             \/ j \in Questions /\ ReadRiskToAnswer(j)
    <3>1. runs' = runs
      BY <2>2
         DEF CheckStep, FetchHeadToCheck, MarkChecking, FetchChecks, ReadLatestRun, ReadRisk,
             Decide, ApprovePullRequest, SaveApprovalCheck, MarkDecided, DismissFinding,
             CloseTarget, ReadRiskToAnswer, SetPR, SetStatus, Call, Attempted, tables
    <3> QED
      BY <2>2, <3>1, JobsAssumption DEF Reviewing
  <2> QED
    BY <2>1, <2>2 DEF JobStep, Reviewing
<1>2. CASE j \in Reviewing
  BY <1>1, <1>2, StaysWorked DEF OthersKept
<1>3. CASE j \notin Reviewing
  BY <1>1, <1>3 DEF Abandoned, Works, Only, Reviewing, Jobs
<1> QED
  BY <1>2, <1>3

\* A crash leaves at most one for each review.
LEMMA CrashLeaves ==
  ASSUME Inv, Crash
  PROVE  Abandoned' \subseteq Abandoned \cup {job[k].run : k \in Reviewing}
<1> SUFFICES ASSUME NEW i \in Abandoned', \A k \in Reviewing : job[k].run # i
             PROVE  i \in Abandoned
  OBVIOUS
<1>1. runs' = runs
  BY DEF Crash, tables
<1> QED
  BY <1>1 DEF Abandoned, Works

\* Counting what is left.
LEMMA CountMore ==
  ASSUME Inv, Inv5, faults \in Nat, NEW Left, IsFiniteSet(Left),
         Cardinality(Left) <= Cardinality(Reviewing), faults' = faults + 1,
         Abandoned' \subseteq Abandoned \cup Left
  PROVE  Inv5'
<1> DEFINE n == Cardinality(Reviewing)
<1>1. IsFiniteSet(Abandoned) /\ Cardinality(Abandoned) \in Nat
  BY AbandonedFinite
<1>2. /\ IsFiniteSet(Abandoned \cup Left) /\ Cardinality(Left) \in Nat
      /\ Cardinality(Abandoned \cup Left) \in Nat
      /\ Cardinality(Abandoned \cup Left) <= Cardinality(Abandoned) + Cardinality(Left)
  <2>1. IsFiniteSet(Abandoned \cap Left)
    BY <1>1, FS_Subset
  <2>2. Cardinality(Abandoned \cap Left) \in Nat /\ Cardinality(Left) \in Nat
    BY <2>1, FS_CardinalityType
  <2>3. /\ IsFiniteSet(Abandoned \cup Left)
        /\ Cardinality(Abandoned \cup Left)
             = Cardinality(Abandoned) + Cardinality(Left) - Cardinality(Abandoned \cap Left)
    BY <1>1, FS_Union
  <2>4. Cardinality(Abandoned \cup Left) \in Nat
    BY <2>3, FS_CardinalityType
  <2> QED
    BY <1>1, <2>2, <2>3, <2>4
<1>3. IsFiniteSet(Abandoned') /\ Cardinality(Abandoned') \in Nat
  BY <1>2, FS_Subset, FS_CardinalityType
<1>4. Cardinality(Abandoned') <= Cardinality(Abandoned \cup Left)
  BY <1>2, FS_Subset
<1>5. n \in Nat /\ Cardinality(Left) <= n
  BY ReviewingFinite
<1>6. Cardinality(Abandoned) <= faults * n
  BY DEF Inv5
<1>7. /\ faults * n \in Nat /\ faults' * n = faults * n + n
  <2> HIDE DEF n
  <2>1. \A a, b \in Nat : a * b \in Nat /\ (a + 1) * b = a * b + b
    OBVIOUS
  <2> QED
    BY <1>5, <2>1
<1> HIDE DEF n
<1>8. Cardinality(Abandoned') <= faults' * n
  BY <1>1, <1>2, <1>3, <1>4, <1>5, <1>6, <1>7
<1> QED
  BY <1>8 DEF Inv5, n, Reviewing

LEMMA CountSame ==
  ASSUME Inv, Inv5, faults \in Nat, faults' = faults \/ faults' = faults + 1,
         Abandoned' \subseteq Abandoned
  PROVE  Inv5'
<1>1. CASE faults' = faults
  <2>1. IsFiniteSet(Abandoned') /\ Cardinality(Abandoned') <= Cardinality(Abandoned)
    BY AbandonedFinite, FS_Subset
  <2>2. Cardinality(Abandoned') \in Nat
    BY <2>1, FS_CardinalityType
  <2>3. \A a, b \in Nat : a * b \in Nat
    OBVIOUS
  <2>4. faults * Cardinality(Reviewing) \in Nat
    BY <2>3, ReviewingFinite
  <2> QED
    BY <1>1, <2>1, <2>2, <2>4, AbandonedFinite DEF Inv5, Reviewing
<1>2. CASE faults' = faults + 1
  <2>1. IsFiniteSet({}) /\ Cardinality({}) = 0
    BY FS_EmptySet
  <2>2. Abandoned' \subseteq Abandoned \cup {}
    OBVIOUS
  <2> QED
    BY <1>2, <2>1, <2>2, ReviewingFinite, CountMore
<1> QED
  BY <1>1, <1>2

LEMMA Next5 ==
  ASSUME Inv, Inv', Inv2, Inv4, Inv5, [Next]_vars PROVE Inv5'
<1>1. faults \in Nat /\ (faults' = faults \/ faults' = faults + 1)
  BY FaultsGrow DEF Inv4
<1>2. ASSUME NEW j \in Jobs, JobStep(j) PROVE Inv5'
  <2>1. Touches(j) /\ Only(j)
    BY <1>2, JobStep2 DEF Touches
  <2>2. CASE ~ReviewStep(j) \/ j \notin Reviewing
    BY <1>1, <1>2, <2>1, <2>2, CommandLeavesNone, CountSame
  <2>3. CASE ReviewStep(j) /\ j \in Reviewing /\ faults' = faults
    <3>1. ~Fault
      BY <1>1, <2>3 DEF Fault
    <3> QED
      BY <1>1, <2>1, <2>3, <3>1, ReviewLeavesNone, CountSame
  <2>4. CASE ReviewStep(j) /\ j \in Reviewing /\ faults' = faults + 1
    <3>1. PICK x : Abandoned' \subseteq Abandoned \cup {x}
      BY <2>1, <2>4, ReviewLeavesOne
    <3>2. IsFiniteSet({x}) /\ Cardinality({x}) = 1
      BY FS_Singleton
    <3>3. Cardinality(Reviewing) # 0
      BY <2>4, ReviewingFinite, FS_EmptySet
    <3>4. Cardinality({x}) <= Cardinality(Reviewing)
      BY <3>2, <3>3, ReviewingFinite
    <3> QED
      BY <1>1, <2>4, <3>1, <3>2, <3>4, CountMore
  <2> QED
    BY <1>1, <2>2, <2>3, <2>4
<1>3. CASE Crash
  <2> DEFINE Left == {job[k].run : k \in Reviewing}
             f    == [k \in Reviewing |-> job[k].run]
  <2>1. f \in Surjection(Reviewing, Left)
    BY DEF Surjection
  <2>2. IsFiniteSet(Left) /\ Cardinality(Left) <= Cardinality(Reviewing)
    BY <2>1, ReviewingFinite, FS_Surjection
  <2>3. Abandoned' \subseteq Abandoned \cup Left /\ faults' = faults + 1
    BY <1>3, CrashLeaves DEF Crash, Fault
  <2> HIDE DEF Left
  <2> QED
    BY <1>1, <2>2, <2>3, CountMore
<1>4. CASE Push \/ UNCHANGED vars
  <2>1. UNCHANGED <<runs, job>>
    BY <1>4 DEF Push, vars, tables
  <2>2. Abandoned' = Abandoned
    BY <2>1 DEF Abandoned, Works
  <2> QED
    BY <1>1, <2>2, CountSame
<1> QED
  BY <1>2, <1>3, <1>4 DEF Next, Rest

LEMMA Init5 == Init => Inv5
<1> SUFFICES ASSUME Init PROVE Inv5
  OBVIOUS
<1>1. Abandoned = {} /\ faults = 0
  BY DEF Init, Abandoned
<1> QED
  BY <1>1, FS_EmptySet, ReviewingFinite DEF Inv5

LEMMA AbandonedAlways == Spec => []Inv5
<1>1. Inv /\ Inv' /\ Inv2 /\ Inv4 /\ Inv5 /\ [Next]_vars => Inv5'
  BY Next5
<1> QED
  BY <1>1, Init5, InvAlways, EarnedAlways, QuietAlways, PTL DEF Spec

\* The runs that are called running and belong to no job at work are at most as
\* many as the faults can have left behind: one for each review at a crash, one
\* at any other fault (FinishReviewRun, handleJobError).
THEOREM OrphansAreAccounted == Spec => []OrphansAccounted
<1>1. Inv /\ Inv4 /\ Inv5 => OrphansAccounted
  <2> SUFFICES ASSUME Inv, Inv4, Inv5 PROVE OrphansAccounted
    OBVIOUS
  <2> DEFINE Orphans == {i \in DOMAIN runs :
                           /\ runs[i].status = "running"
                           /\ \A j \in Reviews \cup Rechecks : ~InReview(j, i)}
  <2>1. Orphans \subseteq Abandoned
    BY DEF Abandoned, Works, InReview, WorkPcs, Reviewing
  <2>2. IsFiniteSet(Orphans) /\ Cardinality(Orphans) <= Cardinality(Abandoned)
    BY <2>1, AbandonedFinite, FS_Subset
  <2>3. Cardinality(Orphans) \in Nat
    BY <2>2, FS_CardinalityType
  <2>4. \A a, b \in Nat : a * b \in Nat
    OBVIOUS
  <2>5. faults * Cardinality(Reviewing) \in Nat
    BY <2>4, ReviewingFinite DEF Inv4
  <2> HIDE DEF Orphans
  <2>6. Cardinality(Orphans) <= faults * Cardinality(Reviewing)
    BY <2>2, <2>3, <2>5, AbandonedFinite DEF Inv5
  <2> QED
    BY <2>6 DEF OrphansAccounted, Orphans, Reviewing
<1> QED
  BY <1>1, InvAlways, QuietAlways, AbandonedAlways, PTL
=============================================================================
