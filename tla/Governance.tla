----------------------------- MODULE Governance -----------------------------
(***************************************************************************)
(* Reviews, dismissals and approval checks of one pull request, running    *)
(* concurrently in the workers of pr-go while commits are pushed.  A job   *)
(* is a review (pull_request.opened or synchronize), a recheck             *)
(* (/ai-review, /ai-recheck), a dismissal (/ai-dismiss of Target), a check *)
(* (/ai-approve-check) or a question (/ai-risk).  Each action is one call  *)
(* of the store or of GitHub with what follows it up to the next call.     *)
(*                                                                         *)
(* The queue is reduced to what JobQueue guarantees without overrun        *)
(* leases: a job runs in one worker at a time, again after an error while  *)
(* attempts are left, and again after a crash.  Of the tables only what is *)
(* read back or reported is kept.  Faults are failed calls, timeouts of a  *)
(* review and crashes.                                                     *)
(***************************************************************************)
EXTENDS ApprovalDecision

CONSTANTS
  Reviews, Rechecks, Dismissals, Checks, Questions,   \* jobs by kind
  Outcomes,      \* what a review may come to: its findings and its risk level
  Target,        \* finding id named by the dismissals
  CheckStates,   \* CI states that may be read
  Cfg,           \* approval policy at the base commit
  AutoApprove,   \* approval.auto_approve.enabled
  MaxAttempts,   \* max_attempts of a job
  Loads          \* bounds: the jobs sent, how many commits and faults come, the outcomes

Jobs     == Reviews \cup Rechecks \cup Dismissals \cup Checks \cup Questions
Commands == Rechecks \cup Dismissals \cup Checks \cup Questions

ASSUME JobsAssumption ==
  /\ (Reviews \cup Rechecks) \cap (Dismissals \cup Checks \cup Questions) = {}
  /\ Reviews \cap Rechecks = {}
  /\ Dismissals \cap Checks = {} /\ Checks \cap Questions = {} /\ Dismissals \cap Questions = {}
ASSUME FiniteAssumption == IsFiniteSet(Reviews \cup Rechecks)
ASSUME LoadsAssumption ==
  Loads \subseteq [jobs : SUBSET Jobs, heads : Nat \ {0}, faults : Nat, outcomes : SUBSET Outcomes]

\* riskLevel.
ASSUME OutcomesAssumption ==
  \A o \in Outcomes : o.level \in {"low", "medium", "high", "blocker"}

VARIABLES
  head,        \* head commit of the pull request at GitHub
  pr,          \* pull_requests row: head_sha and approval_status
  runs,        \* review_runs rows by id; history: the commit whose files were read
  findings,    \* review_findings rows
  risks,       \* risk_scores rows by id
  checkRows,   \* approval_checks rows; history: head and risk level they were about
  commands,    \* status of the latest comment_commands row of a command
  job,         \* where each job is and what it has read
  approvals,   \* history: approvals GitHub accepted
  faults,      \* history: faults so far
  load         \* which of Loads this behaviour is about

tables == <<pr, runs, findings, risks, checkRows, commands>>
vars   == <<head, tables, job, approvals, faults, load>>

NoOutcome == [findings |-> {}, level |-> "none"]
Fresh == [pc |-> "queued", attempt |-> 0, ok |-> TRUE,
          head |-> 0, seen |-> 0, run |-> 0, outcome |-> NoOutcome, todo |-> {},
          ci |-> "unknown", latest |-> 0, risk |-> "none",
          result |-> "none", status |-> "none"]

Init ==
  /\ head = 1
  /\ pr = [head |-> 0, status |-> "none"]
  /\ runs = <<>>
  /\ findings = {}
  /\ risks = <<>>
  /\ checkRows = {}
  /\ commands = [j \in Commands |-> "none"]
  /\ load \in Loads
  /\ job = [j \in Jobs |-> IF j \in load.jobs THEN Fresh ELSE [Fresh EXCEPT !.pc = "done"]]
  /\ approvals = {}
  /\ faults = 0

-----------------------------------------------------------------------------
(* Moves of a job.                                                         *)

At(j, pc)     == job[j].pc = pc
Goto(j, pc)   == job' = [job EXCEPT ![j].pc = pc]
Fault         == faults < load.faults /\ faults' = faults + 1
NoFault       == UNCHANGED faults

\* processJob after an error: another attempt if one is left.
Failed(j) == IF job[j].attempt < MaxAttempts THEN "queued" ELSE "dead"

\* The effect of a store call that returns an error: the statement may have
\* been carried out.
Attempted(write) == write \/ UNCHANGED tables

\* A store call of job j that, when it fails, sends the job to onError.
Call(j, next, onError, write) ==
  \/ NoFault /\ write /\ Goto(j, next)
  \/ Fault /\ Attempted(write) /\ Goto(j, onError)

\* As Call, with an error that is discarded.
Try(j, next, write) ==
  /\ \/ NoFault /\ write
     \/ Fault /\ Attempted(write)
  /\ Goto(j, next)

SetPR(h, status) ==
  pr' = [head |-> h, status |-> status] /\ UNCHANGED <<runs, findings, risks, checkRows, commands>>
SetStatus(status) ==
  pr' = [pr EXCEPT !.status = status] /\ UNCHANGED <<runs, findings, risks, checkRows, commands>>
SetCommand(j, status) ==
  commands' = [commands EXCEPT ![j] = status] /\ UNCHANGED <<pr, runs, findings, risks, checkRows>>
AddRun(h) ==
  /\ runs' = Append(runs, [head |-> h, status |-> "running", stamp |-> 0, seen |-> 0])
  /\ UNCHANGED <<pr, findings, risks, checkRows, commands>>
SetRun(run, row) ==
  runs' = [runs EXCEPT ![run] = row] /\ UNCHANGED <<pr, findings, risks, checkRows, commands>>

External == UNCHANGED <<head, approvals, load>>

-----------------------------------------------------------------------------
(* reviewPullRequest.                                                      *)

\* The worker claims the job and writes the placeholder row.  A webhook brings
\* the head it was sent for, however old; a recheck brings none.
EventHeads(j) == IF j \in Rechecks THEN {0} ELSE 1 .. head

StartReview(j) ==
  /\ IF j \in Rechecks THEN At(j, "permitted") ELSE At(j, "queued")
  /\ \E h \in EventHeads(j) :
       LET begun == [Fresh EXCEPT
                       !.attempt = job[j].attempt + (IF j \in Rechecks THEN 0 ELSE 1),
                       !.head = h] IN
       \/ /\ NoFault /\ SetPR(h, "reviewing")
          /\ job' = [job EXCEPT ![j] = [begun EXCEPT !.pc = "placed"]]
       \/ /\ Fault /\ Attempted(SetPR(h, "reviewing"))
          /\ job' = [job EXCEPT ![j] = [begun EXCEPT !.pc = "returning", !.ok = FALSE]]
  /\ External

CreateReviewRun(j) ==
  /\ At(j, "placed")
  /\ \/ /\ NoFault /\ AddRun(job[j].head)
        /\ job' = [job EXCEPT ![j].pc = "created", ![j].run = Len(runs) + 1]
     \/ /\ Fault /\ Attempted(AddRun(job[j].head))
        /\ job' = [job EXCEPT ![j].pc = "returning", ![j].ok = FALSE]
  /\ External

\* FetchPullRequest reads the pull request and then, in further requests, the
\* changed files.
FetchHead(j) ==
  /\ At(j, "created")
  /\ \/ NoFault /\ job' = [job EXCEPT ![j].pc = "headRead", ![j].head = head]
     \/ Fault /\ Goto(j, "erring")
  /\ UNCHANGED tables /\ External

FetchFiles(j) ==
  /\ At(j, "headRead")
  /\ \/ NoFault /\ job' = [job EXCEPT ![j].pc = "fetched", ![j].seen = head]
     \/ Fault /\ Goto(j, "erring")
  /\ UNCHANGED tables /\ External

RecordPullRequest(j) ==
  /\ At(j, "fetched")
  /\ Call(j, "recorded", "erring", SetPR(job[j].head, "reviewing"))
  /\ External

UpdateReviewRunHeadSHA(j) ==
  LET run == job[j].run IN
  /\ At(j, "recorded")
  /\ Call(j, "headed", "erring",
          SetRun(run, [runs[run] EXCEPT !.head = job[j].head, !.seen = job[j].seen]))
  /\ External

\* The reviewer answers with some findings; the risk is scored with them.
Review(j) ==
  /\ At(j, "headed")
  /\ \/ /\ NoFault
        /\ \E o \in load.outcomes :
             job' = [job EXCEPT ![j].pc = "saving", ![j].outcome = o,
                                ![j].todo = o.findings]
     \/ Fault /\ Goto(j, "erring")
  /\ UNCHANGED tables /\ External

AddFinding(run, f) ==
  /\ findings' = findings \cup {[run |-> run, id |-> f.id, severity |-> f.severity,
                                 status |-> "open"]}
  /\ UNCHANGED <<pr, runs, risks, checkRows, commands>>

\* Mutant of SaveFinding: an insert that fails is skipped.
SaveFindingSkips(j) ==
  /\ At(j, "saving")
  /\ \E f \in job[j].todo :
       /\ job' = [job EXCEPT ![j].todo = @ \ {f}]
       /\ \/ NoFault /\ AddFinding(job[j].run, f)
          \/ Fault /\ Attempted(AddFinding(job[j].run, f))
  /\ External

\* SaveFindings inserts row by row, without a transaction.
SaveFinding(j) ==
  /\ At(j, "saving")
  /\ \E f \in job[j].todo :
       \/ /\ NoFault /\ AddFinding(job[j].run, f)
          /\ job' = [job EXCEPT ![j].todo = @ \ {f}]
       \/ Fault /\ Attempted(AddFinding(job[j].run, f)) /\ Goto(j, "erring")
  /\ External

\* Mutant of SaveRiskScore: the row names no run.
SaveRiskScoreNoRun(j) ==
  /\ At(j, "saving") /\ job[j].todo = {}
  /\ Call(j, "scored", "erring",
          /\ risks' = Append(risks, [run |-> 0, level |-> job[j].outcome.level])
          /\ UNCHANGED <<pr, runs, findings, checkRows, commands>>)
  /\ External

SaveRiskScore(j) ==
  /\ At(j, "saving") /\ job[j].todo = {}
  /\ Call(j, "scored", "erring",
          /\ risks' = Append(risks, [run |-> job[j].run,
                                     level |-> job[j].outcome.level])
          /\ UNCHANGED <<pr, runs, findings, checkRows, commands>>)
  /\ External

\* CreateIssueComment, SaveReviewComment and Audit: what they write is read by
\* no handler.
PublishReview(j) ==
  /\ At(j, "scored")
  /\ \/ NoFault /\ Goto(j, "published")
     \/ Fault /\ Goto(j, "erring")
  /\ UNCHANGED tables /\ External

\* finished_at has a resolution of a second: the stamp is the latest one so
\* far or the next.
Stamps == {runs[i].stamp : i \in DOMAIN runs} \cup {0}
NextStamps == {s \in 1 .. Len(runs) + 1 :
                 {s - 1, s} \cap Stamps # {} /\ \A t \in Stamps : t <= s}

Finish(j, status) ==
  LET run == job[j].run IN
  \E stamp \in NextStamps :
    SetRun(run, [runs[run] EXCEPT !.status = status, !.stamp = stamp])

\* Mutant of FinishReviewRun: the run is not finished.
FinishReviewRunForgotten(j) ==
  /\ At(j, "published") /\ NoFault
  /\ Goto(j, "finished")
  /\ UNCHANGED tables /\ External

FinishReviewRun(j) ==
  /\ At(j, "published")
  /\ \/ NoFault /\ Finish(j, "success") /\ Goto(j, "finished")
     \/ /\ Fault /\ Attempted(Finish(j, "success"))
        /\ job' = [job EXCEPT ![j].pc = "returning", ![j].ok = FALSE]
  /\ External

\* Mutant of MarkReviewed: the status stays.
MarkReviewedForgotten(j) ==
  /\ At(j, "finished") /\ NoFault
  /\ Goto(j, "returning")
  /\ UNCHANGED tables /\ External

MarkReviewed(j) ==
  /\ At(j, "finished")
  /\ \/ NoFault /\ SetStatus("reviewed") /\ Goto(j, "returning")
     \/ /\ Fault /\ Attempted(SetStatus("reviewed"))
        /\ job' = [job EXCEPT ![j].pc = "returning", ![j].ok = FALSE]
  /\ External

\* handleJobError: both writes are tried, whatever becomes of the first.
FailReviewRun(j) ==
  /\ At(j, "erring")
  /\ Try(j, "erring2", Finish(j, "failed"))
  /\ External

MarkReviewFailed(j) ==
  /\ At(j, "erring2")
  /\ \/ NoFault /\ SetStatus("review_failed")
     \/ Fault /\ Attempted(SetStatus("review_failed"))
  /\ job' = [job EXCEPT ![j].pc = "returning", ![j].ok = FALSE]
  /\ External

\* The context of the review expires: the call in progress and every later
\* one, those of handleJobError included, fail.
ReviewPcs == {"placed", "created", "headRead", "fetched", "recorded", "headed",
              "saving", "scored", "published", "finished", "erring", "erring2"}
Expire(j) ==
  /\ job[j].pc \in ReviewPcs
  /\ Fault
  /\ job' = [job EXCEPT ![j].pc = "returning", ![j].ok = FALSE]
  /\ UNCHANGED tables /\ External

\* The webhook's review is over; a recheck has its command to finish.
ReturnReview(j) ==
  /\ At(j, "returning")
  /\ \/ /\ j \in Reviews
        /\ Goto(j, IF job[j].ok THEN "done" ELSE Failed(j))
        /\ NoFault /\ UNCHANGED tables
     \/ /\ j \in Rechecks /\ job[j].ok
        /\ Call(j, "done", Failed(j), SetCommand(j, "success"))
     \/ /\ j \in Rechecks /\ ~job[j].ok
        /\ Try(j, Failed(j), SetCommand(j, "failed"))
  /\ External

-----------------------------------------------------------------------------
(* handleCommand.                                                          *)

EnsuredPullRequest ==
  IF pr.status = "none" THEN [head |-> 0, status |-> "review_pending"] ELSE pr

\* prepareCommand: the worker claims the job, makes sure of the pull request's
\* row and inserts a new command row.
PrepareCommand(j) ==
  /\ j \in Commands /\ At(j, "queued")
  /\ LET begun == [Fresh EXCEPT !.attempt = job[j].attempt + 1] IN
     \/ /\ NoFault
        /\ pr' = EnsuredPullRequest
        /\ commands' = [commands EXCEPT ![j] = "running"]
        /\ job' = [job EXCEPT ![j] = [begun EXCEPT !.pc = "prepared"]]
     \/ /\ Fault
        /\ pr' \in {pr, EnsuredPullRequest}
        /\ commands' \in {commands} \cup
             (IF pr' = EnsuredPullRequest THEN {[commands EXCEPT ![j] = "running"]} ELSE {})
        /\ job' = [job EXCEPT ![j] = [begun EXCEPT !.pc =
                     IF begun.attempt < MaxAttempts THEN "queued" ELSE "dead"]]
  /\ UNCHANGED <<runs, findings, risks, checkRows>>
  /\ External

\* The token and the actor's permission, or an error.
CheckPermission(j) ==
  /\ At(j, "prepared")
  /\ \/ NoFault /\ Goto(j, "permitted")
     \/ NoFault /\ Goto(j, "refused")
     \/ Fault /\ Goto(j, "abandoning")
  /\ UNCHANGED tables /\ External

\* A denied command, or one that found nothing to dismiss, is answered with a
\* comment and ends as failed; the job is processed.
RefuseCommand(j) ==
  /\ At(j, "refused")
  /\ \/ Call(j, "done", Failed(j), SetCommand(j, "failed"))
     \/ Fault /\ Goto(j, "abandoning") /\ UNCHANGED tables
  /\ External

\* FinishCommentCommand failed, then the error is returned.
AbandonCommand(j) ==
  /\ At(j, "abandoning")
  /\ Try(j, Failed(j), SetCommand(j, "failed"))
  /\ External

\* handleRiskCommand: LatestRiskScore, which decides what the comment says.
ReadRiskToAnswer(j) ==
  /\ j \in Questions /\ At(j, "permitted")
  /\ \/ NoFault /\ Goto(j, "answering")
     \/ Fault /\ Goto(j, "abandoning")
  /\ UNCHANGED tables /\ External

\* The closing comment, then FinishCommentCommand success.
AnswerCommand(j) ==
  /\ At(j, "answering")
  /\ \/ Call(j, "done", Failed(j), SetCommand(j, "success"))
     \/ Fault /\ Goto(j, "abandoning") /\ UNCHANGED tables
  /\ External

OpenTarget == {f \in findings : f.id = Target /\ f.status = "open"}

\* One UPDATE closes every open row of the pull request with the finding id.
CloseTarget ==
  /\ findings' = (findings \ OpenTarget) \cup
                   {[f EXCEPT !.status = "dismissed"] : f \in OpenTarget}
  /\ UNCHANGED <<pr, runs, risks, checkRows, commands>>

\* Mutant of DismissFinding: the number of rows that were closed is ignored.
DismissFindingAnyway(j) ==
  /\ j \in Dismissals /\ At(j, "permitted") /\ NoFault
  /\ CloseTarget /\ Goto(j, "answering")
  /\ External

DismissFinding(j) ==
  /\ j \in Dismissals /\ At(j, "permitted")
  /\ \/ NoFault /\ CloseTarget /\ Goto(j, IF OpenTarget # {} THEN "answering" ELSE "refused")
     \/ Fault /\ Attempted(CloseTarget) /\ Goto(j, "abandoning")
  /\ External

-----------------------------------------------------------------------------
(* handleApproveCheckCommand.                                              *)

FetchHeadToCheck(j) ==
  /\ j \in Checks /\ At(j, "permitted")
  /\ \/ NoFault /\ job' = [job EXCEPT ![j].pc = "toCheck", ![j].head = head]
     \/ Fault /\ Goto(j, "abandoning")
  /\ UNCHANGED tables /\ External

MarkChecking(j) ==
  /\ At(j, "toCheck")
  /\ Call(j, "checking", "abandoning", SetPR(job[j].head, "approval_checking"))
  /\ External

\* Policy warnings are published; then FetchChecksSummary, whose failure is an
\* unknown state.
FetchChecks(j) ==
  /\ At(j, "checking")
  /\ \/ /\ NoFault
        /\ \E s \in CheckStates : job' = [job EXCEPT ![j].pc = "ciRead", ![j].ci = s]
     \/ Fault /\ job' = [job EXCEPT ![j].pc = "ciRead", ![j].ci = "unknown"]
     \/ Fault /\ Goto(j, "abandoning")
  /\ UNCHANGED tables /\ External

Successful == {i \in DOMAIN runs : runs[i].status = "success"}

\* Mutant of IsLatestSuccessful: the last run, whatever became of it.
IsLast(i) == i = Len(runs)

\* The successful run with the latest finished_at, then the largest id; 0 if
\* there is none.
IsLatestSuccessful(i) ==
  IF Successful = {} THEN i = 0
  ELSE i \in Successful /\ \A k \in Successful :
         \/ runs[i].stamp > runs[k].stamp
         \/ runs[i].stamp = runs[k].stamp /\ i >= k

ReadLatestRun(j) ==
  /\ At(j, "ciRead")
  /\ \/ /\ NoFault
        /\ \E run \in 0 .. Len(runs) :
             /\ IsLatestSuccessful(run)
             /\ job' = [job EXCEPT ![j].pc = "runRead", ![j].latest = run]
     \/ Fault /\ Goto(j, "abandoning")
  /\ UNCHANGED tables /\ External

\* Mutant of LatestRiskLevel: the first row.
FirstRiskLevel == IF risks = <<>> THEN "none" ELSE risks[1].level

\* The last row inserted, whichever run it belongs to.
LatestRiskLevel == IF risks = <<>> THEN "none" ELSE risks[Len(risks)].level

ReadRisk(j) ==
  /\ At(j, "runRead")
  /\ \/ NoFault /\ job' = [job EXCEPT ![j].pc = "riskRead", ![j].risk = LatestRiskLevel]
     \/ Fault /\ Goto(j, "abandoning")
  /\ UNCHANGED tables /\ External

\* Mutant of OpenSeverities: only the findings of the last run.
OpenSeveritiesOfLastRun ==
  {f.severity : f \in {g \in findings : g.status = "open" /\ g.run = Len(runs)}}

OpenSeverities == {f.severity : f \in {g \in findings : g.status = "open"}}

\* ListOpenFindings, of all runs, and the decision.
Decide(j) ==
  /\ At(j, "riskRead")
  /\ \/ /\ NoFault
        /\ LET me  == job[j]
               run == IF me.latest = 0 THEN [found |-> FALSE, head |-> 0]
                      ELSE [found |-> TRUE, head |-> runs[me.latest].head]
               result == DecideApproval(me.head,
                           [state |-> me.ci, details |-> <<>>],
                           run, me.risk, OpenSeverities, Cfg, {})
           IN job' = [job EXCEPT
                        ![j].result = result,
                        ![j].status = result,
                        ![j].pc = IF result = "approval_recommended" /\ AutoApprove
                                  THEN "approving" ELSE "decided"]
     \/ Fault /\ Goto(j, "abandoning")
  /\ UNCHANGED tables /\ External

\* Mutant of ApprovePullRequest: a request that failed is sent again.
ApproveUntilSure(j) ==
  /\ At(j, "approving")
  /\ \/ NoFault /\ job' = [job EXCEPT ![j].pc = "decided", ![j].status = "auto_approved"]
     \/ Fault /\ UNCHANGED job
  /\ approvals' = approvals \cup {[checked |-> job[j].head, landed |-> head]}
  /\ UNCHANGED <<head, tables, load>>

\* The review request names no commit: it approves what the head is when it
\* arrives.  An error may be reported although it arrived.
ApprovePullRequest(j) ==
  /\ At(j, "approving")
  /\ \/ /\ NoFault
        /\ approvals' = approvals \cup {[checked |-> job[j].head, landed |-> head]}
        /\ job' = [job EXCEPT ![j].pc = "decided", ![j].status = "auto_approved"]
     \/ /\ Fault
        /\ approvals' \in {approvals,
                           approvals \cup {[checked |-> job[j].head, landed |-> head]}}
        /\ job' = [job EXCEPT ![j].pc = "decided", ![j].status = "auto_approve_failed"]
  /\ UNCHANGED <<head, tables, load>>

SaveApprovalCheck(j) ==
  /\ At(j, "decided")
  /\ Call(j, "saved", "abandoning",
          /\ checkRows' = checkRows \cup
               {[job |-> j, run |-> job[j].latest, head |-> job[j].head,
                 result |-> job[j].result, risk |-> job[j].risk,
                 auto |-> job[j].status = "auto_approved"]}
          /\ UNCHANGED <<pr, runs, findings, risks, commands>>)
  /\ External

MarkDecided(j) ==
  /\ At(j, "saved")
  /\ Call(j, "answering", "abandoning", SetStatus(job[j].status))
  /\ External

-----------------------------------------------------------------------------
(* The environment.                                                        *)

Push ==
  /\ head < load.heads
  /\ head' = head + 1
  /\ UNCHANGED <<tables, job, approvals, faults, load>>

\* The process dies: every job that was being run is claimed again later, with
\* the attempts it has used.
Crash ==
  /\ Fault
  /\ job' = [j \in Jobs |->
               IF job[j].pc \in {"done", "dead"} THEN job[j]
               ELSE [Fresh EXCEPT !.attempt = job[j].attempt]]
  /\ UNCHANGED tables /\ External

ReviewStep(j) ==
  \/ StartReview(j) \/ CreateReviewRun(j) \/ FetchHead(j) \/ FetchFiles(j)
  \/ RecordPullRequest(j) \/ UpdateReviewRunHeadSHA(j) \/ Review(j)
  \/ SaveFinding(j) \/ SaveRiskScore(j) \/ PublishReview(j)
  \/ FinishReviewRun(j) \/ MarkReviewed(j)
  \/ FailReviewRun(j) \/ MarkReviewFailed(j) \/ Expire(j) \/ ReturnReview(j)

CommandStep(j) ==
  \/ PrepareCommand(j) \/ CheckPermission(j) \/ RefuseCommand(j)
  \/ AbandonCommand(j) \/ AnswerCommand(j)

CheckStep(j) ==
  \/ FetchHeadToCheck(j) \/ MarkChecking(j) \/ FetchChecks(j) \/ ReadLatestRun(j)
  \/ ReadRisk(j) \/ Decide(j) \/ ApprovePullRequest(j) \/ SaveApprovalCheck(j)
  \/ MarkDecided(j)

JobStep(j) ==
  \/ j \in Reviews \cup Rechecks /\ ReviewStep(j)
  \/ j \in Commands /\ CommandStep(j)
  \/ j \in Dismissals /\ DismissFinding(j)
  \/ j \in Questions /\ ReadRiskToAnswer(j)
  \/ j \in Checks /\ CheckStep(j)

Over == \A j \in Jobs : job[j].pc \in {"done", "dead"}

\* Nothing happens any more once every job is over and no commit comes.
Rest == Over /\ UNCHANGED vars

Next ==
  \/ \E j \in Jobs : JobStep(j)
  \/ Push
  \/ Crash
  \/ Rest

Spec == Init /\ [][Next]_vars

-----------------------------------------------------------------------------
(* Properties.                                                             *)

CommandPcs == {"prepared", "permitted", "refused", "abandoning", "answering", "toCheck",
               "checking", "ciRead", "runRead", "riskRead", "approving", "decided", "saved"}
RunStatus == {"running", "success", "failed"}

\* The tables refer to rows that exist, and every job is at a place the handler
\* of its kind can be at.
TypeOK ==
  /\ head \in 1 .. load.heads
  /\ pr.head \in 0 .. head
  /\ \A i \in DOMAIN runs : runs[i].status \in RunStatus /\ runs[i].head \in 0 .. head
  /\ \A f \in findings : f.run \in DOMAIN runs /\ f.status \in {"open", "dismissed"}
  /\ \A i \in DOMAIN risks : risks[i].run \in DOMAIN runs
  /\ \A c \in checkRows : c.run \in DOMAIN runs \cup {0}
  /\ \A j \in Jobs :
       LET ends == {"queued", "done", "dead"} IN
       job[j].pc \in
         IF j \in Reviews THEN ends \cup ReviewPcs \cup {"returning"}
         ELSE IF j \in Rechecks THEN ends \cup ReviewPcs \cup CommandPcs \cup {"returning"}
         ELSE ends \cup CommandPcs

InReview(j, run) == job[j].run = run /\ job[j].pc \in ReviewPcs

\* A review run is called successful only when everything it found is stored:
\* its findings, although SaveFindings inserts them one by one and may stop in
\* the middle, and its risk score, although it may have been retried.
SuccessIsComplete ==
  [][\A i \in DOMAIN runs :
       runs[i].status # "success" /\ runs'[i].status = "success" =>
         \E j \in Reviews \cup Rechecks :
           /\ InReview(j, i)
           /\ \A f \in job[j].outcome.findings :
                \E g \in findings : g.run = i /\ g.id = f.id /\ g.severity = f.severity
           /\ \E k \in DOMAIN risks :
                risks[k] = [run |-> i, level |-> job[j].outcome.level]]_vars

\* A run that is still called running belongs to a job at work, or was left
\* behind by a fault: a crash leaves one for each review at work, any other
\* fault one (FinishReviewRun, handleJobError).
OrphansAccounted ==
  Cardinality({i \in DOMAIN runs :
                 /\ runs[i].status = "running"
                 /\ \A j \in Reviews \cup Rechecks : ~InReview(j, i)})
    <= faults * Cardinality(Reviews \cup Rechecks)

\* When all jobs are over and nothing failed, no progress marker is left,
\* however the jobs interleaved: neither in approval_status, which every job
\* overwrites, nor in the commands, and the placeholder without a commit that a
\* recheck writes has been replaced.
QuietEnd ==
  faults = 0 /\ Over =>
    /\ pr.status \notin {"reviewing", "approval_checking"}
    /\ \A c \in Commands : commands[c] # "running"
    /\ runs # <<>> => pr.head # 0

Recommended(check) == check.result = "approval_recommended"

\* A recommendation that is about the commit that is still the head rests on a
\* successful run that read the files of that very commit, although the head
\* and the files are fetched one after the other while commits are pushed.
RecommendedWasReviewed ==
  \A c \in checkRows :
    Recommended(c) /\ c.head = head =>
      /\ c.run # 0
      /\ runs[c.run].status = "success"
      /\ runs[c.run].seen = head

\* Every finding above low of the run a recommendation cites has been
\* dismissed, although findings are read after the run and dismissals,
\* retries and other reviews go on.
RecommendedIsHandled ==
  \A c \in checkRows :
    Recommended(c) =>
      \A f \in findings :
        f.run = c.run /\ f.severity \in {"blocker", "high", "medium"} =>
          f.status = "dismissed"

\* A recommendation passes over the risk level of the run it cites only for a
\* later score of another run: the score is stored before its run is finished
\* and read after the run, so the own one is never missed (LatestRiskScore).
RiskAccounted ==
  \A c \in checkRows :
    Recommended(c) =>
      \A i \in DOMAIN risks :
        risks[i].run = c.run /\ risks[i].level # "low" =>
          \E k \in DOMAIN risks :
            k > i /\ risks[k].run # c.run /\ risks[k].level = "low"

\* When nothing failed and no job is at work, some finding is dismissed exactly
\* if some dismissal was answered with success, however reviews that reuse the
\* finding's id and dismissals of it interleaved (handleDismissCommand).
DismissalsAnswered ==
  faults = 0 /\ Over =>
    ((\E f \in findings : f.status = "dismissed") <=>
     (\E j \in Dismissals : commands[j] = "success"))

\* GitHub is asked to approve only what a successful run was recorded for: the
\* commit that was checked, and a later one only if it was pushed during the
\* check.
ApprovalHasRun ==
  \A a \in approvals :
    /\ \E i \in DOMAIN runs : runs[i].status = "success" /\ runs[i].head = a.checked
    /\ a.checked <= a.landed

\* README: the approve API is only called when the current head is reviewed.
ApprovalIsOfHead == \A a \in approvals : a.landed = a.checked

\* README: review runs are stored with success/failure status.  An attempt that
\* ends with an error leaves its run failed.
GivenUpRunFails ==
  [][\A j \in Jobs :
       job[j].run # 0 /\ job[j].pc \in ReviewPcs /\ job'[j].pc = "returning" /\ ~job'[j].ok =>
         runs'[job[j].run].status # "running"]_vars

\* The heads of the successful runs, and what the checks are about to approve.
ReviewedHeads == {runs[i].head : i \in Successful}
AboutToApprove == [k \in Checks |-> IF At(k, "approving") THEN job[k].head ELSE 0]

Contract == INSTANCE ApprovalContract
  WITH Commits <- UNION {0 .. l.heads : l \in Loads},
       reviewed <- ReviewedHeads, recommended <- AboutToApprove,
       approved <- {a.checked : a \in approvals}

\* Reviews, checks and approvals, through retries, faults and crashes, keep the
\* contract: only a commit whose review was recorded is ever recommended, and
\* approved at most once for each time it was.
KeepsContract == Contract!Spec
=============================================================================
