-------------------------- MODULE GovernanceProofs --------------------------
(***************************************************************************)
(* Proofs about Governance for any number of jobs, commits and faults: an  *)
(* approval rests on a successful run of the commit that was checked.      *)
(*                                                                         *)
(* The argument: a review run has one job at work on it, which has not     *)
(* finished it successfully, so that a successful run is never written     *)
(* again; what a check has read of the runs therefore stays true until it  *)
(* approves.  With it, Governance implements ApprovalContract.             *)
(***************************************************************************)
EXTENDS Governance, TLAPS

-----------------------------------------------------------------------------
(* The inductive invariant.                                                *)

\* The places at which a review writes to its run.
OpenPcs  == ReviewPcs \ {"placed", "finished"}
RunRead  == {"runRead", "riskRead"}
HeadRead == {"toCheck", "checking", "ciRead", "runRead", "riskRead", "approving"}

Fields == DOMAIN Fresh

Rows == [head : Nat, status : RunStatus, stamp : Nat, seen : Nat]

Typed ==
  /\ load \in Loads /\ head \in 1 .. load.heads
  /\ runs \in Seq(Rows) /\ \A i \in DOMAIN runs : runs[i].head <= head

\* What a job holds, as far as it matters here.
Holds(j) ==
  /\ DOMAIN job[j] = Fields
  /\ job[j].head \in 0 .. head /\ job[j].seen \in 0 .. head
  /\ job[j].pc \in HeadRead => job[j].head # 0

JobsHold == DOMAIN job = Jobs /\ \A j \in Jobs : Holds(j)

\* A review at work writes to a run that is not successful and is its own.
OwnRun ==
  /\ \A j \in Jobs : job[j].pc \in OpenPcs =>
       job[j].run \in DOMAIN runs /\ runs[job[j].run].status # "success"
  /\ \A j, k \in Jobs : job[j].pc \in OpenPcs /\ job[k].pc \in OpenPcs /\ j # k =>
       job[j].run # job[k].run

HasRun(h) == \E i \in Successful : runs[i].head = h

\* What a check read of the runs, and what it is about to approve.
ReadIsTrue ==
  \A j \in Jobs :
    /\ job[j].pc \in RunRead => job[j].latest \in Successful \cup {0}
    /\ job[j].pc = "approving" => HasRun(job[j].head)

ApprovedIsTrue == ApprovalHasRun

Inv == Typed /\ JobsHold /\ OwnRun /\ ReadIsTrue /\ ApprovedIsTrue

-----------------------------------------------------------------------------
(* Steps, as far as the invariant tells them apart.                        *)

\* Only job j moves, and keeps the fields of its record.
Only(j) ==
  /\ DOMAIN job' = Jobs
  /\ \A k \in Jobs : k # j => job'[k] = job[k]

\* What job j gains is true.
Learns(j) ==
  /\ DOMAIN job'[j] = Fields
  /\ job'[j].head \in 0 .. head /\ job'[j].seen \in 0 .. head
  /\ job'[j].pc \in HeadRead => job'[j].head # 0
  /\ job'[j].pc \in RunRead =>
       \/ job[j].pc \in RunRead /\ job'[j].latest = job[j].latest
       \/ job'[j].latest \in Successful \cup {0}
  /\ job'[j].pc = "approving" =>
       \/ job[j].pc = "approving" /\ job'[j].head = job[j].head
       \/ HasRun(job'[j].head)

\* It takes up no work on a run.
Moves(j) ==
  /\ Learns(j)
  /\ job'[j].pc \in OpenPcs => job[j].pc \in OpenPcs /\ job'[j].run = job[j].run

\* Successful runs are not written, and no job is left at work on one.
RunsKept ==
  /\ runs' \in Seq(Rows) /\ \A i \in DOMAIN runs' : runs'[i].head <= head
  /\ \A i \in Successful : i \in DOMAIN runs' /\ runs'[i] = runs[i]
  /\ \A j \in Jobs :
       job[j].pc \in OpenPcs /\ job'[j].pc \in OpenPcs =>
         job[j].run \in DOMAIN runs' /\ runs'[job[j].run].status # "success"

ApprovalsKept ==
  \/ approvals' = approvals
  \/ \E j \in Jobs :
       /\ job[j].pc = "approving"
       /\ approvals' = approvals \cup {[checked |-> job[j].head, landed |-> head]}

LEMMA HeadTyped == Typed => head \in Nat /\ head # 0
BY LoadsAssumption DEF Typed

LEMMA RunsTyped ==
  ASSUME Typed
  PROVE  /\ Len(runs) \in Nat /\ DOMAIN runs = 1 .. Len(runs)
         /\ \A i \in DOMAIN runs : runs[i] \in Rows /\ runs[i].head <= head
BY DEF Typed

LEMMA SuccessfulKept ==
  ASSUME RunsKept
  PROVE  /\ Successful \subseteq Successful'
         /\ \A h : HasRun(h) => HasRun(h)'
BY DEF RunsKept, Successful, HasRun

\* The invariant survives a step in which every job learns what is true and
\* nothing that is true of the runs is undone.
LEMMA LearnInv ==
  ASSUME Inv, DOMAIN job' = Jobs, \A k \in Jobs : Learns(k),
         RunsKept, OwnRun', ApprovalsKept, UNCHANGED load,
         head' \in head .. load.heads
  PROVE  Inv'
<1> USE HeadTyped DEF Inv
<1>1. Typed'
  <2>1. load' \in Loads /\ head' \in 1 .. load'.heads /\ runs' \in Seq(Rows)
    BY LoadsAssumption DEF Typed, RunsKept
  <2>2. ASSUME NEW i \in DOMAIN runs' PROVE runs'[i].head <= head'
    <3>1. runs'[i] \in Rows /\ runs'[i].head <= head
      BY <2>1, <2>2 DEF RunsKept
    <3>2. runs'[i].head \in Nat /\ head \in Nat /\ head' \in Nat /\ head <= head'
      BY <3>1, LoadsAssumption DEF Rows, Typed
    <3> QED
      BY <3>1, <3>2
  <2> QED
    BY <2>1, <2>2 DEF Typed
<1>2. JobsHold'
  BY LoadsAssumption DEF Typed, JobsHold, Holds, Learns
<1>3. ReadIsTrue'
  BY SuccessfulKept DEF ReadIsTrue, Learns
<1>4. ApprovedIsTrue'
  <2> SUFFICES ASSUME NEW a \in approvals'
               PROVE  HasRun(a.checked)' /\ a.checked <= a.landed
    BY DEF ApprovedIsTrue, ApprovalHasRun, HasRun, Successful
  <2>1. CASE a \in approvals
    BY <2>1, SuccessfulKept
       DEF ApprovedIsTrue, ApprovalHasRun, HasRun, Successful
  <2>2. CASE a \notin approvals
    <3>1. PICK j \in Jobs : job[j].pc = "approving"
                            /\ a = [checked |-> job[j].head, landed |-> head]
      BY <2>2 DEF ApprovalsKept
    <3>2. PICK h : h = job[j].head
      OBVIOUS
    <3>3. a.checked = h /\ a.landed = head
      BY <3>1, <3>2
    <3>4. HasRun(h) /\ h <= head
      BY <3>1, <3>2 DEF ReadIsTrue, JobsHold, Holds
    <3>5. HasRun(h)'
      BY <3>4, SuccessfulKept
    <3> QED
      BY <3>3, <3>4, <3>5
  <2> QED
    BY <2>1, <2>2
<1> QED
  BY <1>1, <1>2, <1>3, <1>4

LEMMA StepInv ==
  ASSUME Inv, DOMAIN job' = Jobs, \A k \in Jobs : Moves(k),
         RunsKept, ApprovalsKept, UNCHANGED load,
         head' \in head .. load.heads
  PROVE  Inv'
<1>1. OwnRun'
  BY DEF Inv, OwnRun, Moves, RunsKept
<1> QED
  BY <1>1, LearnInv DEF Moves

\* A job that stays where it is.
LEMMA StayMoves ==
  ASSUME Inv, NEW k \in Jobs, job'[k] = job[k]
  PROVE  Moves(k)
BY DEF Inv, JobsHold, Holds, Moves, Learns

\* A step of one job that writes no run.
LEMMA QuietStep ==
  ASSUME Inv, NEW j \in Jobs, Only(j), Moves(j), UNCHANGED <<runs, head, load>>,
         ApprovalsKept
  PROVE  Inv'
<1>1. \A k \in Jobs : Moves(k)
  BY StayMoves DEF Only
<1>2. RunsKept
  BY DEF RunsKept, Successful, Inv, Typed, OwnRun
<1>3. head' \in head .. load.heads
  BY HeadTyped, LoadsAssumption DEF Inv, Typed
<1> QED
  BY <1>1, <1>2, <1>3, StepInv DEF Only

\* A step of one job at work that may write its own run.
LEMMA WriteStep ==
  ASSUME Inv, NEW j \in Jobs, Only(j), Moves(j), UNCHANGED <<head, load, approvals>>,
         job[j].pc \in OpenPcs, NEW row \in Rows, row.head <= head,
         runs' = runs \/ runs' = [runs EXCEPT ![job[j].run] = row],
         job'[j].pc \in OpenPcs => row.status # "success"
  PROVE  Inv'
<1>1. \A k \in Jobs : Moves(k)
  BY StayMoves DEF Only
<1>2. job[j].run \in DOMAIN runs /\ job[j].run \notin Successful
  BY DEF Inv, OwnRun, Successful
<1>3. runs' \in Seq(Rows) /\ DOMAIN runs' = DOMAIN runs
      /\ \A i \in DOMAIN runs : i # job[j].run => runs'[i] = runs[i]
      /\ runs'[job[j].run] \in {row, runs[job[j].run]}
  BY <1>2 DEF Inv, Typed
<1>4. RunsKept
  <2>1. \A i \in Successful : i \in DOMAIN runs' /\ runs'[i] = runs[i]
    BY <1>2, <1>3 DEF Successful
  <2>2. ASSUME NEW k \in Jobs, job[k].pc \in OpenPcs, job'[k].pc \in OpenPcs
        PROVE  job[k].run \in DOMAIN runs' /\ runs'[job[k].run].status # "success"
    BY <1>2, <1>3, <2>2 DEF Inv, OwnRun
  <2>3. \A i \in DOMAIN runs' : runs'[i].head <= head
    BY <1>3, RunsTyped DEF Inv
  <2> QED
    BY <1>3, <2>1, <2>2, <2>3 DEF RunsKept
<1>5. head' \in head .. load.heads
  BY HeadTyped, LoadsAssumption DEF Inv, Typed
<1> QED
  BY <1>1, <1>4, <1>5, StepInv DEF Only, ApprovalsKept

\* A row that is inserted disturbs no other.
LEMMA AppendKeeps ==
  ASSUME Inv, NEW row \in Rows, row.head <= head, runs' = Append(runs, row)
  PROVE  /\ RunsKept
         /\ Len(runs) + 1 \in DOMAIN runs' /\ Len(runs) + 1 \notin DOMAIN runs
         /\ runs'[Len(runs) + 1] = row
<1>1. /\ runs' \in Seq(Rows) /\ DOMAIN runs' = 1 .. Len(runs) + 1
      /\ DOMAIN runs = 1 .. Len(runs) /\ Len(runs) \in Nat
      /\ \A i \in DOMAIN runs : runs'[i] = runs[i]
      /\ runs'[Len(runs) + 1] = row
  BY DEF Inv, Typed
<1>2. \A i \in DOMAIN runs' : runs'[i].head <= head
  BY <1>1, RunsTyped DEF Inv
<1>3. \A i \in Successful : i \in DOMAIN runs' /\ runs'[i] = runs[i]
  BY <1>1 DEF Successful
<1>4. \A k \in Jobs : job[k].pc \in OpenPcs =>
        job[k].run \in DOMAIN runs' /\ runs'[job[k].run].status # "success"
  BY <1>1 DEF Inv, OwnRun
<1>5. RunsKept
  BY <1>1, <1>2, <1>3, <1>4 DEF RunsKept
<1> QED
  BY <1>1, <1>5

-----------------------------------------------------------------------------
(* The ways in which the actions move a job.                               *)

Calm == UNCHANGED <<runs, head, load, approvals>>

\* Places where a job holds nothing.
Outside(pc) == pc \notin OpenPcs \cup HeadRead \cup RunRead \cup {"approving"}

LEMMA JobIs ==
  ASSUME Inv, NEW j \in Jobs
  PROVE  /\ DOMAIN job = Jobs /\ DOMAIN job[j] = Fields
         /\ Fields = {"pc", "attempt", "ok", "head", "seen", "run", "outcome", "todo",
                      "ci", "latest", "risk", "result", "status"}
         /\ job[j].head \in 0 .. head /\ job[j].seen \in 0 .. head
         /\ job[j].pc \in HeadRead => job[j].head # 0
BY DEF Inv, JobsHold, Holds, Fields, Fresh

LEMMA GotoMoves ==
  ASSUME Inv, NEW j \in Jobs, NEW pc, Goto(j, pc)
  PROVE  /\ Only(j) /\ DOMAIN job'[j] = Fields /\ job'[j].pc = pc
         /\ job'[j].head = job[j].head /\ job'[j].seen = job[j].seen
         /\ job'[j].run = job[j].run /\ job'[j].latest = job[j].latest
BY JobIs DEF Only, Goto

\* A job that goes on, with what it has.
LEMMA QuietGoto ==
  ASSUME Inv, NEW j \in Jobs, NEW pc, Goto(j, pc), Calm,
         pc \in HeadRead => job[j].pc \in HeadRead,
         pc \in OpenPcs => job[j].pc \in OpenPcs,
         pc \in RunRead => job[j].pc \in RunRead,
         pc # "approving"
  PROVE  Inv'
<1>1. Moves(j)
  BY GotoMoves, JobIs DEF Moves, Learns
<1> QED
  BY <1>1, GotoMoves, QuietStep DEF Calm, ApprovalsKept

\* A job that goes where it holds nothing.
LEMMA LetGo ==
  ASSUME Inv, NEW j \in Jobs, Only(j), DOMAIN job'[j] = Fields,
         job'[j].head \in 0 .. head, job'[j].seen \in 0 .. head,
         Outside(job'[j].pc), UNCHANGED <<head, load, approvals>>, RunsKept
  PROVE  Inv'
<1>1. Moves(j)
  BY DEF Moves, Learns, Outside
<1>2. \A k \in Jobs : Moves(k)
  BY <1>1, StayMoves DEF Only
<1>3. head' \in head .. load.heads
  BY HeadTyped, LoadsAssumption DEF Inv, Typed
<1> QED
  BY <1>2, <1>3, StepInv DEF Only, ApprovalsKept

LEMMA CalmKeeps ==
  ASSUME Inv, UNCHANGED runs
  PROVE  RunsKept
BY DEF RunsKept, Successful, Inv, Typed, OwnRun

-----------------------------------------------------------------------------
(* The initial state, and one lemma for each handler.                      *)

LEMMA InvInit == Init => Inv
<1> SUFFICES ASSUME Init PROVE Inv
  OBVIOUS
<1>1. Typed
  BY LoadsAssumption DEF Init, Typed
<1>2. \A j \in Jobs : DOMAIN job[j] = Fields /\ job[j].head = 0 /\ job[j].seen = 0
                       /\ job[j].pc \in {"queued", "done"}
  BY DEF Init, Fields, Fresh
<1>3. JobsHold
  BY <1>2, HeadTyped, <1>1 DEF Init, JobsHold, Holds, HeadRead
<1>4. OwnRun /\ ReadIsTrue
  BY <1>2 DEF OwnRun, ReadIsTrue, OpenPcs, ReviewPcs, RunRead
<1>5. ApprovedIsTrue
  BY DEF Init, ApprovedIsTrue, ApprovalHasRun
<1> QED
  BY <1>1, <1>3, <1>4, <1>5 DEF Inv

LEMMA StartReviewInv ==
  ASSUME Inv, NEW j \in Jobs, StartReview(j) PROVE Inv'
<1>1. PICK h, r :
        /\ h \in EventHeads(j) /\ job' = [job EXCEPT ![j] = r] /\ DOMAIN r = Fields
        /\ r.pc \in {"placed", "returning"} /\ r.head = h /\ r.seen = 0
  <2>1. PICK h, n :
          LET begun == [Fresh EXCEPT !.attempt = n, !.head = h] IN
          /\ h \in EventHeads(j)
          /\ \/ job' = [job EXCEPT ![j] = [begun EXCEPT !.pc = "placed"]]
             \/ job' = [job EXCEPT ![j] = [begun EXCEPT !.pc = "returning", !.ok = FALSE]]
    BY DEF StartReview
  <2> DEFINE begun == [Fresh EXCEPT !.attempt = n, !.head = h]
  <2>2. CASE job' = [job EXCEPT ![j] = [begun EXCEPT !.pc = "placed"]]
    <3> DEFINE r == [begun EXCEPT !.pc = "placed"]
    <3>1. DOMAIN r = Fields /\ r.pc = "placed" /\ r.head = h /\ r.seen = 0
      BY DEF Fields, Fresh
    <3> HIDE DEF r
    <3>2. h \in EventHeads(j) /\ job' = [job EXCEPT ![j] = r]
      BY <2>1, <2>2 DEF r
    <3> QED
      BY <3>1, <3>2
  <2>3. CASE job' = [job EXCEPT ![j] = [begun EXCEPT !.pc = "returning", !.ok = FALSE]]
    <3> DEFINE r == [begun EXCEPT !.pc = "returning", !.ok = FALSE]
    <3>1. DOMAIN r = Fields /\ r.pc = "returning" /\ r.head = h /\ r.seen = 0
      BY DEF Fields, Fresh
    <3> HIDE DEF r
    <3>2. h \in EventHeads(j) /\ job' = [job EXCEPT ![j] = r]
      BY <2>1, <2>3 DEF r
    <3> QED
      BY <3>1, <3>2
  <2> QED
    BY <2>1, <2>2, <2>3
<1>2. h \in 0 .. head
  BY <1>1, HeadTyped DEF EventHeads, Inv
<1>3. Calm
  BY DEF StartReview, SetPR, Attempted, External, Calm, tables
<1>4. Only(j) /\ job'[j] = r
  BY <1>1, JobIs DEF Only
<1>5. Outside(job'[j].pc)
  BY <1>1, <1>4 DEF Outside, OpenPcs, ReviewPcs, HeadRead, RunRead
<1> QED
  BY <1>1, <1>2, <1>3, <1>4, <1>5, LetGo, CalmKeeps, HeadTyped DEF Calm, Inv

\* An action that ends a review with an error.
LEMMA ReturnInv ==
  ASSUME Inv, NEW j \in Jobs, job' = [job EXCEPT ![j].pc = "returning", ![j].ok = FALSE],
         UNCHANGED <<head, load, approvals>>, RunsKept
  PROVE  Inv'
<1>1. /\ Only(j) /\ DOMAIN job'[j] = Fields /\ job'[j].pc = "returning"
      /\ job'[j].head = job[j].head /\ job'[j].seen = job[j].seen
  BY JobIs DEF Only
<1>2. Outside("returning")
  BY DEF Outside, OpenPcs, ReviewPcs, HeadRead, RunRead
<1> QED
  BY <1>1, <1>2, JobIs, LetGo

LEMMA CreateReviewRunInv ==
  ASSUME Inv, NEW j \in Jobs, CreateReviewRun(j) PROVE Inv'
<1> DEFINE row == [head |-> job[j].head, status |-> "running", stamp |-> 0, seen |-> 0]
<1>1. row \in Rows /\ row.status # "success" /\ row.head <= head
  BY JobIs, HeadTyped DEF Rows, RunStatus, Inv
<1>2. UNCHANGED <<head, load, approvals>>
  BY DEF CreateReviewRun, External
<1>3. runs' = runs \/ runs' = Append(runs, row)
  BY DEF CreateReviewRun, AddRun, Attempted, tables
<1>4. RunsKept
  BY <1>1, <1>3, AppendKeeps, CalmKeeps
<1>5. CASE job' = [job EXCEPT ![j].pc = "returning", ![j].ok = FALSE]
  BY <1>2, <1>4, <1>5, ReturnInv
<1>6. CASE /\ runs' = Append(runs, row)
           /\ job' = [job EXCEPT ![j].pc = "created", ![j].run = Len(runs) + 1]
  <2>1. /\ Only(j) /\ DOMAIN job'[j] = Fields /\ job'[j].pc = "created"
        /\ job'[j].head = job[j].head /\ job'[j].seen = job[j].seen
        /\ job'[j].run = Len(runs) + 1
    BY <1>6, JobIs DEF Only
  <2>2. Learns(j)
    BY <2>1, JobIs DEF Learns, HeadRead, RunRead
  <2>3. \A k \in Jobs : Learns(k)
    BY <2>1, <2>2, StayMoves DEF Only, Moves
  <2>4. /\ Len(runs) + 1 \in DOMAIN runs' /\ Len(runs) + 1 \notin DOMAIN runs
        /\ runs'[Len(runs) + 1].status # "success"
    BY <1>1, <1>6, AppendKeeps
  <2>5. \A k \in Jobs : k # j /\ job'[k].pc \in OpenPcs =>
          /\ job'[k].run = job[k].run /\ job[k].run \in DOMAIN runs
          /\ job[k].run \in DOMAIN runs' /\ runs'[job[k].run].status # "success"
    BY <1>4, <2>1 DEF Only, RunsKept, Inv, OwnRun
  <2>6. OwnRun'
    <3>1. \A k \in Jobs : job'[k].pc \in OpenPcs =>
            job'[k].run \in DOMAIN runs' /\ runs'[job'[k].run].status # "success"
      BY <2>1, <2>4, <2>5
    <3>2. \A k, l \in Jobs : job'[k].pc \in OpenPcs /\ job'[l].pc \in OpenPcs /\ k # l =>
            job'[k].run # job'[l].run
      BY <2>1, <2>4, <2>5 DEF Inv, OwnRun, Only
    <3> QED
      BY <3>1, <3>2 DEF OwnRun
  <2>7. head' \in head .. load.heads
    BY <1>2, HeadTyped, LoadsAssumption DEF Inv, Typed
  <2> QED
    BY <1>2, <1>4, <2>1, <2>3, <2>6, <2>7, LearnInv DEF Only, ApprovalsKept
<1> QED
  BY <1>5, <1>6 DEF CreateReviewRun, AddRun

LEMMA UpdateHeadInv ==
  ASSUME Inv, NEW j \in Jobs, UpdateReviewRunHeadSHA(j) PROVE Inv'
<1> DEFINE row == [runs[job[j].run] EXCEPT !.head = job[j].head, !.seen = job[j].seen]
<1>1. job[j].pc = "recorded" /\ job[j].pc \in OpenPcs
  BY DEF UpdateReviewRunHeadSHA, At, OpenPcs, ReviewPcs
<1>2. job[j].run \in DOMAIN runs /\ runs[job[j].run] \in Rows
      /\ runs[job[j].run].status # "success"
  BY <1>1, RunsTyped DEF Inv, OwnRun
<1>3. row \in Rows /\ row.status # "success" /\ row.head <= head
  <2>1. job[j].head \in Nat /\ job[j].seen \in Nat /\ job[j].head <= head
    BY JobIs, HeadTyped DEF Inv
  <2> QED
    BY <1>2, <2>1 DEF Rows
<1>4. PICK pc \in {"headed", "erring"} : Goto(j, pc)
  BY DEF UpdateReviewRunHeadSHA, Call
<1>5. runs' = runs \/ runs' = [runs EXCEPT ![job[j].run] = row]
  BY DEF UpdateReviewRunHeadSHA, Call, SetRun, Attempted, tables
<1>6. Moves(j)
  BY <1>1, <1>4, GotoMoves, JobIs
     DEF Moves, Learns, OpenPcs, ReviewPcs, HeadRead, RunRead
<1>7. UNCHANGED <<head, load, approvals>>
  BY DEF UpdateReviewRunHeadSHA, External
<1> HIDE DEF row
<1> QED
  BY <1>1, <1>3, <1>4, <1>5, <1>6, <1>7, GotoMoves, WriteStep

\* What finishing a run writes.
LEMMA FinishWrites ==
  ASSUME Inv, NEW j \in Jobs, job[j].pc \in OpenPcs, NEW status \in RunStatus,
         Attempted(Finish(j, status))
  PROVE  \E row \in Rows :
           /\ row.status = status /\ row.head = runs[job[j].run].head
           /\ runs' = runs \/ runs' = [runs EXCEPT ![job[j].run] = row]
<1>1. runs[job[j].run] \in Rows /\ Len(runs) \in Nat
  BY RunsTyped DEF Inv, OwnRun
<1>2. CASE Finish(j, status)
  <2>1. PICK stamp \in NextStamps :
          runs' = [runs EXCEPT ![job[j].run] =
                     [runs[job[j].run] EXCEPT !.status = status, !.stamp = stamp]]
    BY <1>2 DEF Finish, SetRun
  <2> DEFINE row == [runs[job[j].run] EXCEPT !.status = status, !.stamp = stamp]
  <2>2. stamp \in Nat
    BY <1>1 DEF NextStamps
  <2>3. row \in Rows /\ row.status = status /\ row.head = runs[job[j].run].head
    BY <1>1, <2>2 DEF Rows
  <2> QED
    BY <2>1, <2>3
<1>3. CASE UNCHANGED runs
  <2> DEFINE row == [runs[job[j].run] EXCEPT !.status = status]
  <2>1. row \in Rows /\ row.status = status /\ row.head = runs[job[j].run].head
    BY <1>1 DEF Rows
  <2> QED
    BY <1>3, <2>1
<1> QED
  BY <1>2, <1>3 DEF Attempted, tables

LEMMA FinishReviewRunInv ==
  ASSUME Inv, NEW j \in Jobs, FinishReviewRun(j) PROVE Inv'
<1>1. job[j].pc = "published" /\ job[j].pc \in OpenPcs
  BY DEF FinishReviewRun, At, OpenPcs, ReviewPcs
<1>2. Attempted(Finish(j, "success"))
  BY DEF FinishReviewRun, Attempted
<1>3. PICK row \in Rows :
        /\ row.head = runs[job[j].run].head
        /\ runs' = runs \/ runs' = [runs EXCEPT ![job[j].run] = row]
  BY <1>1, <1>2, FinishWrites DEF RunStatus
<1>4. row.head <= head
  BY <1>1, <1>3, RunsTyped DEF Inv, OwnRun
<1>5. UNCHANGED <<head, load, approvals>>
  BY DEF FinishReviewRun, External
<1>6. /\ Only(j) /\ DOMAIN job'[j] = Fields /\ job'[j].pc \in {"finished", "returning"}
      /\ job'[j].head = job[j].head /\ job'[j].seen = job[j].seen
  BY JobIs, GotoMoves DEF FinishReviewRun, Only
<1>7. Moves(j) /\ job'[j].pc \notin OpenPcs
  BY <1>6, JobIs DEF Moves, Learns, OpenPcs, ReviewPcs, HeadRead, RunRead
<1> QED
  BY <1>1, <1>3, <1>4, <1>5, <1>6, <1>7, WriteStep

LEMMA FailReviewRunInv ==
  ASSUME Inv, NEW j \in Jobs, FailReviewRun(j) PROVE Inv'
<1>1. job[j].pc = "erring" /\ job[j].pc \in OpenPcs
  BY DEF FailReviewRun, At, OpenPcs, ReviewPcs
<1>2. Attempted(Finish(j, "failed")) /\ Goto(j, "erring2")
  BY DEF FailReviewRun, Try, Attempted
<1>3. PICK row \in Rows :
        /\ row.status = "failed" /\ row.head = runs[job[j].run].head
        /\ runs' = runs \/ runs' = [runs EXCEPT ![job[j].run] = row]
  BY <1>1, <1>2, FinishWrites DEF RunStatus
<1>4. row.head <= head
  BY <1>1, <1>3, RunsTyped DEF Inv, OwnRun
<1>5. UNCHANGED <<head, load, approvals>>
  BY DEF FailReviewRun, External
<1>6. Moves(j)
  BY <1>1, <1>2, GotoMoves, JobIs
     DEF Moves, Learns, OpenPcs, ReviewPcs, HeadRead, RunRead
<1> QED
  BY <1>1, <1>2, <1>3, <1>4, <1>5, <1>6, GotoMoves, WriteStep

\* The other steps of a review write no run.
LEMMA ReviewGoesOn ==
  ASSUME Inv, NEW j \in Jobs,
         \/ RecordPullRequest(j) \/ SaveRiskScore(j) \/ PublishReview(j)
  PROVE  Inv'
<1>1. job[j].pc \in {"fetched", "saving", "scored"} /\ Calm
  BY DEF RecordPullRequest, SaveRiskScore, PublishReview, At, Call, SetPR, Attempted,
         External, tables, Calm
<1>2. PICK pc \in {"recorded", "scored", "published", "erring"} : Goto(j, pc)
  BY DEF RecordPullRequest, SaveRiskScore, PublishReview, Call
<1> QED
  BY <1>1, <1>2, QuietGoto DEF OpenPcs, ReviewPcs, HeadRead, RunRead

LEMMA ReviewReads ==
  ASSUME Inv, NEW j \in Jobs,
         FetchHead(j) \/ FetchFiles(j) \/ Review(j) \/ SaveFinding(j)
  PROVE  Inv'
<1>1. job[j].pc \in OpenPcs /\ Calm
  BY DEF FetchHead, FetchFiles, Review, SaveFinding, AddFinding, At, Attempted, External,
         tables, Calm, OpenPcs, ReviewPcs
<1>2. /\ Only(j) /\ DOMAIN job'[j] = Fields
      /\ job'[j].pc \in {"headRead", "fetched", "saving", "erring"}
      /\ job'[j].head \in {job[j].head, head} /\ job'[j].seen \in {job[j].seen, head}
      /\ job'[j].run = job[j].run
  <2>1. CASE \E pc \in {"erring"} : Goto(j, pc)
    BY <2>1, GotoMoves
  <2>2. CASE FetchHead(j) /\ job' = [job EXCEPT ![j].pc = "headRead", ![j].head = head]
    BY <2>2, JobIs DEF Only
  <2>3. CASE FetchFiles(j) /\ job' = [job EXCEPT ![j].pc = "fetched", ![j].seen = head]
    BY <2>3, JobIs DEF Only
  <2>4. CASE \E o : job' = [job EXCEPT ![j].pc = "saving", ![j].outcome = o,
                                       ![j].todo = o.findings]
    BY <2>4, JobIs DEF Only
  <2>5. CASE At(j, "saving") /\ \E f : job' = [job EXCEPT ![j].todo = @ \ {f}]
    BY <2>5, JobIs DEF Only, At
  <2> QED
    BY <2>1, <2>2, <2>3, <2>4, <2>5 DEF FetchHead, FetchFiles, Review, SaveFinding
<1>3. Moves(j)
  BY <1>1, <1>2, JobIs, HeadTyped
     DEF Moves, Learns, OpenPcs, ReviewPcs, HeadRead, RunRead, Inv
<1> QED
  BY <1>1, <1>2, <1>3, QuietStep DEF Calm, ApprovalsKept

LEMMA ReviewEnds ==
  ASSUME Inv, NEW j \in Jobs,
         MarkReviewed(j) \/ MarkReviewFailed(j) \/ Expire(j) \/ ReturnReview(j)
  PROVE  Inv'
<1>1. Calm
  BY DEF MarkReviewed, MarkReviewFailed, Expire, ReturnReview, SetStatus, SetCommand, Call,
         Try, Attempted, External, tables, Calm
<1>2. CASE job' = [job EXCEPT ![j].pc = "returning", ![j].ok = FALSE]
  BY <1>1, <1>2, ReturnInv, CalmKeeps DEF Calm
<1>3. CASE \E pc \in {"returning", "done", "queued", "dead"} : Goto(j, pc)
  BY <1>1, <1>3, QuietGoto DEF OpenPcs, ReviewPcs, HeadRead, RunRead
<1> QED
  BY <1>2, <1>3
     DEF MarkReviewed, MarkReviewFailed, Expire, ReturnReview, Call, Try, Failed

LEMMA ReviewStepInv ==
  ASSUME Inv, NEW j \in Jobs, ReviewStep(j) PROVE Inv'
BY StartReviewInv, CreateReviewRunInv, UpdateHeadInv, FinishReviewRunInv, FailReviewRunInv,
   ReviewGoesOn, ReviewReads, ReviewEnds DEF ReviewStep

LEMMA CommandStepInv ==
  ASSUME Inv, NEW j \in Jobs, CommandStep(j) PROVE Inv'
<1>1. Calm
  BY DEF CommandStep, PrepareCommand, CheckPermission, RefuseCommand, AbandonCommand,
         AnswerCommand, SetCommand, Call, Try, Attempted, External, tables, Calm
<1>2. CASE PrepareCommand(j)
  <2>1. PICK n, pc :
          /\ pc \in {"prepared", "queued", "dead"}
          /\ job' = [job EXCEPT ![j] = [[Fresh EXCEPT !.attempt = n] EXCEPT !.pc = pc]]
    BY <1>2 DEF PrepareCommand
  <2> DEFINE r == [[Fresh EXCEPT !.attempt = n] EXCEPT !.pc = pc]
  <2>2. DOMAIN r = Fields /\ r.pc = pc /\ r.head = 0 /\ r.seen = 0
    BY DEF Fields, Fresh
  <2>3. Only(j) /\ job'[j] = r
    BY <2>1, JobIs DEF Only
  <2>4. Outside(pc) /\ 0 \in 0 .. head
    <3>1. 0 \in 0 .. head
      BY HeadTyped DEF Inv
    <3> QED
      BY <2>1, <3>1 DEF Outside, OpenPcs, ReviewPcs, HeadRead, RunRead
  <2> QED
    BY <1>1, <2>2, <2>3, <2>4, LetGo, CalmKeeps DEF Calm
<1>3. CASE \E pc \in {"permitted", "refused", "abandoning", "done", "queued", "dead"} :
             Goto(j, pc)
  BY <1>1, <1>3, QuietGoto DEF OpenPcs, ReviewPcs, HeadRead, RunRead
<1> QED
  BY <1>2, <1>3 DEF CommandStep, CheckPermission, RefuseCommand, AbandonCommand,
                    AnswerCommand, Call, Try, Failed

LEMMA SideStepInv ==
  ASSUME Inv, NEW j \in Jobs, DismissFinding(j) \/ ReadRiskToAnswer(j) PROVE Inv'
<1>1. Calm
  BY DEF DismissFinding, ReadRiskToAnswer, CloseTarget, Attempted, External, tables, Calm
<1>2. \E pc \in {"answering", "refused", "abandoning"} : Goto(j, pc)
  BY DEF DismissFinding, ReadRiskToAnswer
<1> QED
  BY <1>1, <1>2, QuietGoto DEF OpenPcs, ReviewPcs, HeadRead, RunRead

\* A check that only moves on.
LEMMA CheckGoesOn ==
  ASSUME Inv, NEW j \in Jobs, MarkChecking(j) \/ SaveApprovalCheck(j) \/ MarkDecided(j)
  PROVE  Inv'
<1>1. Calm
  BY DEF MarkChecking, SaveApprovalCheck, MarkDecided, SetPR, SetStatus, Call, Attempted,
         External, tables, Calm
<1>2. CASE Goto(j, "checking") /\ At(j, "toCheck")
  BY <1>1, <1>2, QuietGoto DEF At, OpenPcs, ReviewPcs, HeadRead, RunRead
<1>3. CASE \E pc \in {"saved", "answering", "abandoning"} : Goto(j, pc)
  BY <1>1, <1>3, QuietGoto DEF OpenPcs, ReviewPcs, HeadRead, RunRead
<1> QED
  BY <1>2, <1>3 DEF MarkChecking, SaveApprovalCheck, MarkDecided, Call

\* The successful run that is read is one.
LEMMA LatestIsSuccessful ==
  ASSUME NEW i, IsLatestSuccessful(i)
  PROVE  i \in Successful \cup {0}
BY DEF IsLatestSuccessful

LEMMA CheckReads ==
  ASSUME Inv, NEW j \in Jobs,
         FetchHeadToCheck(j) \/ FetchChecks(j) \/ ReadLatestRun(j) \/ ReadRisk(j)
  PROVE  Inv'
<1>1. Calm
  BY DEF FetchHeadToCheck, FetchChecks, ReadLatestRun, ReadRisk, External, tables, Calm
<1>2. CASE Goto(j, "abandoning")
  BY <1>1, <1>2, QuietGoto DEF OpenPcs, ReviewPcs, HeadRead, RunRead
<1>3. CASE job' = [job EXCEPT ![j].pc = "toCheck", ![j].head = head]
  <2>1. /\ Only(j) /\ DOMAIN job'[j] = Fields /\ job'[j].pc = "toCheck"
        /\ job'[j].head = head /\ job'[j].seen = job[j].seen
    BY <1>3, JobIs DEF Only
  <2>2. Moves(j)
    BY <2>1, JobIs, HeadTyped
       DEF Moves, Learns, OpenPcs, ReviewPcs, HeadRead, RunRead, Inv
  <2> QED
    BY <1>1, <2>1, <2>2, QuietStep DEF Calm, ApprovalsKept
<1>4. CASE At(j, "checking") /\ \E s : job' = [job EXCEPT ![j].pc = "ciRead", ![j].ci = s]
  <2>1. /\ Only(j) /\ DOMAIN job'[j] = Fields /\ job'[j].pc = "ciRead"
        /\ job'[j].head = job[j].head /\ job'[j].seen = job[j].seen
    BY <1>4, JobIs DEF Only
  <2>2. Moves(j)
    BY <1>4, <2>1, JobIs DEF Moves, Learns, OpenPcs, ReviewPcs, HeadRead, RunRead, At
  <2> QED
    BY <1>1, <2>1, <2>2, QuietStep DEF Calm, ApprovalsKept
<1>5. CASE At(j, "ciRead") /\ \E run : /\ IsLatestSuccessful(run)
                                       /\ job' = [job EXCEPT ![j].pc = "runRead", ![j].latest = run]
  <2>1. /\ Only(j) /\ DOMAIN job'[j] = Fields /\ job'[j].pc = "runRead"
        /\ job'[j].head = job[j].head /\ job'[j].seen = job[j].seen
        /\ job'[j].latest \in Successful \cup {0}
    BY <1>5, JobIs, LatestIsSuccessful DEF Only
  <2>2. Moves(j)
    BY <1>5, <2>1, JobIs DEF Moves, Learns, OpenPcs, ReviewPcs, HeadRead, RunRead, At
  <2> QED
    BY <1>1, <2>1, <2>2, QuietStep DEF Calm, ApprovalsKept
<1>6. CASE At(j, "runRead")
           /\ job' = [job EXCEPT ![j].pc = "riskRead", ![j].risk = LatestRiskLevel]
  <2>1. /\ Only(j) /\ DOMAIN job'[j] = Fields /\ job'[j].pc = "riskRead"
        /\ job'[j].head = job[j].head /\ job'[j].seen = job[j].seen
        /\ job'[j].latest = job[j].latest
    BY <1>6, JobIs DEF Only
  <2>2. Moves(j)
    BY <1>6, <2>1, JobIs DEF Moves, Learns, OpenPcs, ReviewPcs, HeadRead, RunRead, At
  <2> QED
    BY <1>1, <2>1, <2>2, QuietStep DEF Calm, ApprovalsKept
<1> QED
  BY <1>2, <1>3, <1>4, <1>5, <1>6 DEF FetchHeadToCheck, FetchChecks, ReadLatestRun, ReadRisk

\* A recommendation is for a commit a run was recorded for.
LEMMA RecommendedHasRun ==
  ASSUME NEW h, NEW ci, NEW latest \in Successful \cup {0}, NEW risk, NEW severities,
         DecideApproval(h, ci,
           IF latest = 0 THEN [found |-> FALSE, head |-> 0]
           ELSE [found |-> TRUE, head |-> runs[latest].head],
           risk, severities, Cfg, {}) = "approval_recommended"
  PROVE  HasRun(h)
BY DEF DecideApproval, Blocked, HasRun

LEMMA DecideInv ==
  ASSUME Inv, NEW j \in Jobs, Decide(j) PROVE Inv'
<1>1. Calm /\ job[j].pc = "riskRead"
  BY DEF Decide, External, tables, Calm, At
<1>2. CASE Goto(j, "abandoning")
  BY <1>1, <1>2, QuietGoto DEF OpenPcs, ReviewPcs, HeadRead, RunRead
<1>3. CASE ~Goto(j, "abandoning")
  <2> DEFINE result ==
        DecideApproval(job[j].head, [state |-> job[j].ci, details |-> <<>>],
          IF job[j].latest = 0 THEN [found |-> FALSE, head |-> 0]
          ELSE [found |-> TRUE, head |-> runs[job[j].latest].head],
          job[j].risk, OpenSeverities, Cfg, {})
  <2>1. PICK pc : /\ job' = [job EXCEPT ![j].result = result, ![j].status = result,
                                       ![j].pc = pc]
                  /\ pc = IF result = "approval_recommended" /\ AutoApprove
                          THEN "approving" ELSE "decided"
    BY <1>3 DEF Decide
  <2>2. result = "approval_recommended" => HasRun(job[j].head)
    BY <1>1, RecommendedHasRun DEF Inv, ReadIsTrue, RunRead
  <2> HIDE DEF result
  <2>3. /\ Only(j) /\ DOMAIN job'[j] = Fields /\ job'[j].pc = pc
        /\ job'[j].head = job[j].head /\ job'[j].seen = job[j].seen
    BY <2>1, JobIs DEF Only
  <2>4. pc \in {"approving", "decided"} /\ (pc = "approving" => HasRun(job[j].head))
    BY <2>1, <2>2
  <2>5. Moves(j)
    BY <1>1, <2>3, <2>4, JobIs DEF Moves, Learns, OpenPcs, ReviewPcs, HeadRead, RunRead
  <2> QED
    BY <1>1, <2>3, <2>5, QuietStep DEF Calm, ApprovalsKept
<1> QED
  BY <1>2, <1>3

LEMMA ApproveInv ==
  ASSUME Inv, NEW j \in Jobs, ApprovePullRequest(j) PROVE Inv'
<1>1. /\ job[j].pc = "approving" /\ UNCHANGED <<runs, head, load>>
      /\ approvals' \in {approvals,
            approvals \cup {[checked |-> job[j].head, landed |-> head]}}
  BY DEF ApprovePullRequest, tables, At
<1>2. PICK s : job' = [job EXCEPT ![j].pc = "decided", ![j].status = s]
  BY DEF ApprovePullRequest
<1>3. /\ Only(j) /\ DOMAIN job'[j] = Fields /\ job'[j].pc = "decided"
      /\ job'[j].head = job[j].head /\ job'[j].seen = job[j].seen
  BY <1>2, JobIs DEF Only
<1>4. Moves(j)
  BY <1>3, JobIs DEF Moves, Learns, OpenPcs, ReviewPcs, HeadRead, RunRead
<1> QED
  BY <1>1, <1>3, <1>4, QuietStep DEF ApprovalsKept

LEMMA PushInv == ASSUME Inv, Push PROVE Inv'
<1>1. UNCHANGED <<job, runs, load, approvals>> /\ head' \in head .. load.heads
  BY HeadTyped, LoadsAssumption DEF Push, tables, Inv, Typed
<1>2. \A k \in Jobs : Moves(k)
  BY <1>1, StayMoves
<1> QED
  BY <1>1, <1>2, StepInv, CalmKeeps DEF ApprovalsKept, Inv, JobsHold

LEMMA CrashInv == ASSUME Inv, Crash PROVE Inv'
<1>1. UNCHANGED <<runs, head, load, approvals>> /\ DOMAIN job' = Jobs
  BY DEF Crash, External, tables
<1>2. ASSUME NEW k \in Jobs PROVE Moves(k)
  <2>1. CASE job'[k] = job[k]
    BY <2>1, StayMoves
  <2>2. CASE job'[k] # job[k]
    <3>1. job'[k] = [Fresh EXCEPT !.attempt = job[k].attempt]
      BY <2>2 DEF Crash
    <3>2. /\ DOMAIN job'[k] = Fields /\ job'[k].pc = "queued"
          /\ job'[k].head = 0 /\ job'[k].seen = 0
      BY <3>1 DEF Fields, Fresh
    <3> QED
      BY <3>2, HeadTyped DEF Moves, Learns, OpenPcs, ReviewPcs, HeadRead, RunRead, Inv
  <2> QED
    BY <2>1, <2>2
<1>3. head' \in head .. load.heads
  BY <1>1, HeadTyped, LoadsAssumption DEF Inv, Typed
<1> QED
  BY <1>1, <1>2, <1>3, StepInv, CalmKeeps DEF ApprovalsKept

LEMMA StutterInv == ASSUME Inv, UNCHANGED vars PROVE Inv'
<1>1. UNCHANGED <<job, runs, head, load, approvals>>
  BY DEF vars, tables
<1>2. \A k \in Jobs : Moves(k)
  BY <1>1, StayMoves
<1>3. head' \in head .. load.heads
  BY <1>1, HeadTyped, LoadsAssumption DEF Inv, Typed
<1> QED
  BY <1>1, <1>2, <1>3, StepInv, CalmKeeps DEF ApprovalsKept, Inv, JobsHold

LEMMA NextInv == Inv /\ [Next]_vars => Inv'
<1> SUFFICES ASSUME Inv, [Next]_vars PROVE Inv'
  OBVIOUS
<1>1. CASE \E j \in Jobs : JobStep(j)
  <2>1. PICK j \in Jobs : JobStep(j)
    BY <1>1
  <2> QED
    BY <2>1, ReviewStepInv, CommandStepInv, SideStepInv, CheckGoesOn, CheckReads, DecideInv,
       ApproveInv DEF JobStep, CheckStep
<1>2. CASE Push
  BY <1>2, PushInv
<1>3. CASE Crash
  BY <1>3, CrashInv
<1>4. CASE UNCHANGED vars
  BY <1>4, StutterInv
<1> QED
  BY <1>1, <1>2, <1>3, <1>4 DEF Next, Rest

LEMMA InvAlways == Spec => []Inv
BY InvInit, NextInv, PTL DEF Spec

-----------------------------------------------------------------------------
(* The theorems.                                                           *)

\* Whatever the jobs, pushes, crashes and failed calls: GitHub is asked to
\* approve only after a successful run of the very commit that was checked, and
\* what is approved is that commit or one pushed since (ApprovePullRequest).
THEOREM ApprovalRestsOnRun == Spec => []ApprovalHasRun
<1>1. Inv => ApprovalHasRun
  BY DEF Inv, ApprovedIsTrue
<1> QED
  BY <1>1, InvAlways, PTL

-----------------------------------------------------------------------------
(* Governance implements ApprovalContract.  The invariant gives what the   *)
(* contract asks of a recommendation; what is left is that no other step   *)
(* touches what the contract talks about.                                  *)

AllCommits == UNION {0 .. l.heads : l \in Loads}

\* Only job j moves, and neither from nor to an approval.
Off(j) == Only(j) /\ job[j].pc # "approving" /\ job'[j].pc # "approving"

\* One more commit, at most, has a successful run.
MoreReviewed ==
  \/ ReviewedHeads' = ReviewedHeads
  \/ \E h \in 0 .. head : ReviewedHeads' = ReviewedHeads \cup {h}

LEMMA CommitKnown ==
  ASSUME Inv, NEW h \in 0 .. head
  PROVE  h \in AllCommits
BY LoadsAssumption DEF Inv, Typed, AllCommits

LEMMA OffSame ==
  ASSUME Inv, NEW j \in Jobs, Off(j)
  PROVE  AboutToApprove' = AboutToApprove
<1>1. \A k \in Checks : (IF At(k, "approving") THEN job[k].head ELSE 0)'
                       = IF At(k, "approving") THEN job[k].head ELSE 0
  BY DEF Off, Only, At, Jobs
<1> QED
  BY <1>1 DEF AboutToApprove

-----------------------------------------------------------------------------
(* What happens to the runs.                                               *)

LEMMA SameReviewed ==
  ASSUME UNCHANGED runs
  PROVE  ReviewedHeads' = ReviewedHeads
BY DEF ReviewedHeads, Successful

\* A new row is running.
LEMMA AppendReviewed ==
  ASSUME Inv, NEW row \in Rows, row.status = "running", runs' = Append(runs, row)
  PROVE  ReviewedHeads' = ReviewedHeads
<1>1. /\ DOMAIN runs' = 1 .. Len(runs) + 1 /\ DOMAIN runs = 1 .. Len(runs)
      /\ Len(runs) \in Nat /\ runs'[Len(runs) + 1] = row
      /\ \A i \in DOMAIN runs : runs'[i] = runs[i]
  BY DEF Inv, Typed
<1>2. Successful' = Successful /\ \A i \in Successful : runs'[i] = runs[i]
  BY <1>1 DEF Successful
<1> QED
  BY <1>2 DEF ReviewedHeads

\* A row of a review at work is overwritten.
LEMMA WriteReviewed ==
  ASSUME Inv, NEW j \in Jobs, job[j].pc \in OpenPcs, NEW row \in Rows, row.head <= head,
         runs' = [runs EXCEPT ![job[j].run] = row]
  PROVE  MoreReviewed
<1> DEFINE run == job[j].run
<1>1. run \in DOMAIN runs /\ run \notin Successful
  BY DEF Inv, OwnRun, Successful
<1>2. /\ DOMAIN runs' = DOMAIN runs /\ runs'[run] = row
      /\ \A i \in DOMAIN runs : i # run => runs'[i] = runs[i]
  BY <1>1 DEF Inv, Typed
<1>3. /\ Successful' = IF row.status = "success" THEN Successful \cup {run} ELSE Successful
      /\ \A i \in Successful : runs'[i] = runs[i]
  BY <1>1, <1>2 DEF Successful
<1>4. ReviewedHeads' = IF row.status = "success" THEN ReviewedHeads \cup {row.head}
                       ELSE ReviewedHeads
  BY <1>2, <1>3 DEF ReviewedHeads
<1>5. row.head \in 0 .. head
  BY HeadTyped DEF Rows, Inv
<1> QED
  BY <1>4, <1>5 DEF MoreReviewed

LEMMA ReviewWrites ==
  ASSUME Inv, NEW j \in Jobs, ReviewStep(j) PROVE MoreReviewed
<1>1. CASE UNCHANGED runs
  BY <1>1, SameReviewed DEF MoreReviewed
<1>2. CASE CreateReviewRun(j)
  <2> DEFINE row == [head |-> job[j].head, status |-> "running", stamp |-> 0, seen |-> 0]
  <2>1. row \in Rows /\ row.status = "running"
    BY JobIs, HeadTyped DEF Rows, RunStatus, Inv
  <2>2. runs' = runs \/ runs' = Append(runs, row)
    BY <1>2 DEF CreateReviewRun, AddRun, Attempted, tables
  <2> QED
    BY <2>1, <2>2, <1>1, AppendReviewed DEF MoreReviewed
<1>3. CASE UpdateReviewRunHeadSHA(j)
  <2> DEFINE row == [runs[job[j].run] EXCEPT !.head = job[j].head, !.seen = job[j].seen]
  <2>1. job[j].pc \in OpenPcs
    BY <1>3 DEF UpdateReviewRunHeadSHA, At, OpenPcs, ReviewPcs
  <2>2. runs[job[j].run] \in Rows
    BY <2>1, RunsTyped DEF Inv, OwnRun
  <2>3. job[j].head \in Nat /\ job[j].seen \in Nat /\ job[j].head <= head
    BY JobIs, HeadTyped DEF Inv
  <2>4. row \in Rows /\ row.head <= head
    BY <2>2, <2>3 DEF Rows
  <2>5. runs' = runs \/ runs' = [runs EXCEPT ![job[j].run] = row]
    BY <1>3 DEF UpdateReviewRunHeadSHA, Call, SetRun, Attempted, tables
  <2> QED
    BY <1>1, <2>1, <2>4, <2>5, WriteReviewed
<1>4. CASE FinishReviewRun(j) \/ FailReviewRun(j)
  <2>1. job[j].pc \in OpenPcs
    BY <1>4 DEF FinishReviewRun, FailReviewRun, At, OpenPcs, ReviewPcs
  <2>2. \E status \in RunStatus : Attempted(Finish(j, status))
    BY <1>4 DEF FinishReviewRun, FailReviewRun, Try, Attempted, RunStatus
  <2>3. PICK row \in Rows :
          /\ row.head = runs[job[j].run].head
          /\ runs' = runs \/ runs' = [runs EXCEPT ![job[j].run] = row]
    BY <2>1, <2>2, FinishWrites
  <2>4. row.head <= head
    BY <2>1, <2>3, RunsTyped DEF Inv, OwnRun
  <2> QED
    BY <1>1, <2>1, <2>3, <2>4, WriteReviewed
<1> QED
  BY <1>1, <1>2, <1>3, <1>4
     DEF ReviewStep, StartReview, FetchHead, FetchFiles, RecordPullRequest, Review,
         SaveFinding, AddFinding, SaveRiskScore, PublishReview, MarkReviewed,
         MarkReviewFailed, Expire, ReturnReview, SetPR, SetStatus, SetCommand, Call, Try,
         Attempted, External, tables

-----------------------------------------------------------------------------
(* What happens to the recommendations.                                    *)

LEMMA GotoOff ==
  ASSUME Inv, NEW j \in Jobs, job[j].pc # "approving",
         \E pc : pc # "approving" /\ Goto(j, pc)
  PROVE  Off(j)
BY GotoMoves DEF Off

LEMMA ReturnOff ==
  ASSUME Inv, NEW j \in Jobs, job[j].pc # "approving",
         job' = [job EXCEPT ![j].pc = "returning", ![j].ok = FALSE]
  PROVE  Off(j)
BY JobIs DEF Off, Only

LEMMA ReviewOff ==
  ASSUME Inv, NEW j \in Jobs, ReviewStep(j) PROVE Off(j)
<1>1. job[j].pc # "approving"
  BY DEF ReviewStep, StartReview, CreateReviewRun, FetchHead, FetchFiles, RecordPullRequest,
         UpdateReviewRunHeadSHA, Review, SaveFinding, SaveRiskScore, PublishReview,
         FinishReviewRun, MarkReviewed, FailReviewRun, MarkReviewFailed, Expire,
         ReturnReview, ReviewPcs, At
<1>2. CASE \E pc : pc # "approving" /\ Goto(j, pc)
  BY <1>1, <1>2, GotoOff
<1>3. CASE job' = [job EXCEPT ![j].pc = "returning", ![j].ok = FALSE]
  BY <1>1, <1>3, ReturnOff
<1>4. CASE StartReview(j)
  <2>1. PICK h, n :
          LET begun == [Fresh EXCEPT !.attempt = n, !.head = h] IN
          \/ job' = [job EXCEPT ![j] = [begun EXCEPT !.pc = "placed"]]
          \/ job' = [job EXCEPT ![j] = [begun EXCEPT !.pc = "returning", !.ok = FALSE]]
    BY <1>4 DEF StartReview
  <2>2. Only(j) /\ job'[j].pc \in {"placed", "returning"}
    BY <2>1, JobIs DEF Only, Fresh
  <2> QED
    BY <1>1, <2>2 DEF Off
<1>5. CASE \/ job' = [job EXCEPT ![j].pc = "created", ![j].run = Len(runs) + 1]
           \/ job' = [job EXCEPT ![j].pc = "headRead", ![j].head = head]
           \/ job' = [job EXCEPT ![j].pc = "fetched", ![j].seen = head]
           \/ \E o : job' = [job EXCEPT ![j].pc = "saving", ![j].outcome = o,
                                       ![j].todo = o.findings]
           \/ \E f : job' = [job EXCEPT ![j].todo = @ \ {f}]
  <2>1. /\ Only(j)
        /\ job'[j].pc \in {"created", "headRead", "fetched", "saving", job[j].pc}
    BY <1>5, JobIs DEF Only
  <2> QED
    BY <1>1, <2>1 DEF Off
<1>6. CASE ReturnReview(j)
  <2>1. \E pc \in {"done", "queued", "dead"} : Goto(j, pc)
    BY <1>6 DEF ReturnReview, Call, Try, Failed
  <2> QED
    BY <2>1, <1>2
<1> QED
  BY <1>2, <1>3, <1>4, <1>5, <1>6
     DEF ReviewStep, CreateReviewRun, FetchHead, FetchFiles, RecordPullRequest,
         UpdateReviewRunHeadSHA, Review, SaveFinding, SaveRiskScore, PublishReview,
         FinishReviewRun, MarkReviewed, FailReviewRun, MarkReviewFailed, Expire, Call, Try

LEMMA CommandOff ==
  ASSUME Inv, NEW j \in Jobs, CommandStep(j) PROVE Off(j)
<1>1. job[j].pc # "approving"
  BY DEF CommandStep, PrepareCommand, CheckPermission, RefuseCommand, AbandonCommand,
         AnswerCommand, At
<1>2. CASE PrepareCommand(j)
  <2>1. PICK n, pc :
          /\ pc \in {"prepared", "queued", "dead"}
          /\ job' = [job EXCEPT ![j] = [[Fresh EXCEPT !.attempt = n] EXCEPT !.pc = pc]]
    BY <1>2 DEF PrepareCommand
  <2>2. Only(j) /\ job'[j].pc = pc
    BY <2>1, JobIs DEF Only, Fresh
  <2> QED
    BY <1>1, <2>1, <2>2 DEF Off
<1>3. CASE \E pc \in {"permitted", "refused", "abandoning", "done", "queued", "dead"} :
             Goto(j, pc)
  BY <1>1, <1>3, GotoOff
<1> QED
  BY <1>2, <1>3 DEF CommandStep, CheckPermission, RefuseCommand, AbandonCommand,
                    AnswerCommand, Call, Try, Failed

LEMMA CheckOff ==
  ASSUME Inv, NEW j \in Jobs,
         \/ DismissFinding(j) \/ ReadRiskToAnswer(j)
         \/ FetchHeadToCheck(j) \/ MarkChecking(j) \/ FetchChecks(j) \/ ReadLatestRun(j)
         \/ ReadRisk(j) \/ SaveApprovalCheck(j) \/ MarkDecided(j)
  PROVE  Off(j)
<1>1. job[j].pc # "approving"
  BY DEF DismissFinding, ReadRiskToAnswer, FetchHeadToCheck, MarkChecking, FetchChecks,
         ReadLatestRun, ReadRisk, SaveApprovalCheck, MarkDecided, At
<1>2. CASE \E pc : pc # "approving" /\ Goto(j, pc)
  BY <1>1, <1>2, GotoOff
<1>3. CASE \/ job' = [job EXCEPT ![j].pc = "toCheck", ![j].head = head]
           \/ \E s : job' = [job EXCEPT ![j].pc = "ciRead", ![j].ci = s]
           \/ \E run : job' = [job EXCEPT ![j].pc = "runRead", ![j].latest = run]
           \/ job' = [job EXCEPT ![j].pc = "riskRead", ![j].risk = LatestRiskLevel]
  <2>1. Only(j) /\ job'[j].pc \in {"toCheck", "ciRead", "runRead", "riskRead"}
    BY <1>3, JobIs DEF Only
  <2> QED
    BY <1>1, <2>1 DEF Off
<1>4. CASE DismissFinding(j)
  <2>1. \E pc \in {"answering", "refused", "abandoning"} : Goto(j, pc)
    BY <1>4 DEF DismissFinding
  <2> QED
    BY <2>1, <1>2
<1> QED
  BY <1>2, <1>3, <1>4
     DEF ReadRiskToAnswer, FetchHeadToCheck, MarkChecking, FetchChecks, ReadLatestRun,
         ReadRisk, SaveApprovalCheck, MarkDecided, Call

-----------------------------------------------------------------------------
(* Every step is one of the contract, or none.                             *)

Asked == {a.checked : a \in approvals}

ContractStep ==
  \/ \E h \in AllCommits : Contract!Review(h)
  \/ \E k \in Checks : Contract!Approve(k) \/ \E h \in AllCommits : Contract!Recommend(k, h)
  \/ Contract!Forget
  \/ UNCHANGED <<ReviewedHeads, AboutToApprove, Asked>>

LEMMA QuietKeeps ==
  ASSUME Inv, MoreReviewed, UNCHANGED approvals, AboutToApprove' = AboutToApprove
  PROVE  ContractStep
<1>1. Asked' = Asked
  BY DEF Asked
<1>2. CASE ReviewedHeads' = ReviewedHeads
  BY <1>1, <1>2 DEF ContractStep
<1>3. CASE \E h \in 0 .. head : ReviewedHeads' = ReviewedHeads \cup {h}
  <2>1. PICK h \in AllCommits : ReviewedHeads' = ReviewedHeads \cup {h}
    BY <1>3, CommitKnown
  <2>2. Contract!Review(h)
    BY <1>1, <2>1 DEF Contract!Review, Asked
  <2> QED
    BY <2>2 DEF ContractStep
<1> QED
  BY <1>2, <1>3 DEF MoreReviewed

LEMMA DecideKeeps ==
  ASSUME Inv, NEW j \in Checks, Decide(j) PROVE ContractStep
<1> USE DEF Jobs
<1>1. job[j].pc = "riskRead" /\ ReviewedHeads' = ReviewedHeads /\ Asked' = Asked
      /\ UNCHANGED approvals
  BY SameReviewed DEF Decide, At, External, tables, Asked
<1>2. CASE Goto(j, "abandoning")
  BY <1>1, <1>2, GotoOff, OffSame, QuietKeeps DEF MoreReviewed
<1>3. CASE ~Goto(j, "abandoning")
  <2>1. PICK result, pc :
          job' = [job EXCEPT ![j].result = result, ![j].status = result, ![j].pc = pc]
    BY <1>3 DEF Decide
  <2>2. Only(j) /\ DOMAIN job'[j] = Fields /\ job'[j].pc = pc /\ job'[j].head = job[j].head
    BY <2>1, JobIs DEF Only
  <2>3. CASE pc # "approving"
    BY <1>1, <2>2, <2>3, OffSame, QuietKeeps DEF Off, MoreReviewed
  <2>4. CASE pc = "approving"
    <3>1. Inv' /\ UNCHANGED runs
      BY DecideInv DEF Decide, tables
    <3>2. PICK h : h = job[j].head
      OBVIOUS
    <3>3. h \in ReviewedHeads
      BY <2>2, <2>4, <3>1, <3>2 DEF Inv, ReadIsTrue, HasRun, Successful, ReviewedHeads
    <3>4. h \in AllCommits
      BY <3>2, JobIs, CommitKnown
    <3>5. AboutToApprove[j] = 0
      BY <1>1 DEF AboutToApprove, At
    <3>6. AboutToApprove' = [AboutToApprove EXCEPT ![j] = h]
      BY <2>2, <2>4, <3>2 DEF AboutToApprove, At, Only
    <3>7. Contract!Recommend(j, h)
      BY <1>1, <3>3, <3>5, <3>6 DEF Contract!Recommend, Asked
    <3> QED
      BY <3>4, <3>7 DEF ContractStep
  <2> QED
    BY <2>3, <2>4
<1> QED
  BY <1>2, <1>3

LEMMA ApproveKeeps ==
  ASSUME Inv, NEW j \in Checks, ApprovePullRequest(j) PROVE ContractStep
<1> USE DEF Jobs
<1>1. /\ job[j].pc = "approving" /\ UNCHANGED runs
      /\ approvals' \in {approvals,
            approvals \cup {[checked |-> job[j].head, landed |-> head]}}
  BY DEF ApprovePullRequest, tables, At
<1>2. PICK s : job' = [job EXCEPT ![j].pc = "decided", ![j].status = s]
  BY DEF ApprovePullRequest
<1>3. Only(j) /\ job'[j].pc = "decided"
  BY <1>2, JobIs DEF Only
<1>4. AboutToApprove[j] = job[j].head /\ job[j].head # 0
  BY <1>1, JobIs DEF AboutToApprove, At, HeadRead
<1>5. AboutToApprove' = [AboutToApprove EXCEPT ![j] = 0]
  BY <1>3 DEF AboutToApprove, At, Only
<1>6. Asked' \in {Asked, Asked \cup {job[j].head}}
  <2>1. CASE approvals' = approvals
    BY <2>1 DEF Asked
  <2>2. CASE approvals' = approvals \cup {[checked |-> job[j].head, landed |-> head]}
    BY <2>2 DEF Asked
  <2> QED
    BY <1>1, <2>1, <2>2
<1>7. ReviewedHeads' = ReviewedHeads
  BY <1>1, SameReviewed
<1>8. Contract!Approve(j)
  BY <1>4, <1>5, <1>6, <1>7 DEF Contract!Approve, Asked
<1> QED
  BY <1>8 DEF ContractStep

LEMMA CrashKeeps ==
  ASSUME Inv, Crash PROVE ContractStep
<1>1. ReviewedHeads' = ReviewedHeads /\ Asked' = Asked
  BY SameReviewed DEF Crash, External, tables, Asked
<1>2. \A k \in Jobs : job'[k].pc # "approving"
  BY DEF Crash, Fresh
<1>3. AboutToApprove' = [k \in Checks |-> 0]
  BY <1>2 DEF AboutToApprove, At, Jobs
<1> QED
  BY <1>1, <1>3 DEF ContractStep, Contract!Forget, Asked

LEMMA StepKeeps ==
  ASSUME Inv, [Next]_vars PROVE ContractStep
<1>1. CASE \E j \in Jobs : JobStep(j)
  <2>1. PICK j \in Jobs : JobStep(j)
    BY <1>1
  <2>2. CASE ReviewStep(j)
    <3>1. UNCHANGED approvals
      BY <2>2 DEF ReviewStep, StartReview, CreateReviewRun, FetchHead, FetchFiles,
           RecordPullRequest, UpdateReviewRunHeadSHA, Review, SaveFinding, SaveRiskScore,
           PublishReview, FinishReviewRun, MarkReviewed, FailReviewRun, MarkReviewFailed,
           Expire, ReturnReview, External
    <3> QED
      BY <2>2, <3>1, ReviewWrites, ReviewOff, OffSame, QuietKeeps
  <2>3. CASE CommandStep(j)
    <3>1. UNCHANGED <<runs, approvals>>
      BY <2>3 DEF CommandStep, PrepareCommand, CheckPermission, RefuseCommand,
           AbandonCommand, AnswerCommand, SetCommand, Call, Try, Attempted, External, tables
    <3> QED
      BY <2>3, <3>1, SameReviewed, CommandOff, OffSame, QuietKeeps DEF MoreReviewed
  <2>4. CASE \/ DismissFinding(j) \/ ReadRiskToAnswer(j)
             \/ FetchHeadToCheck(j) \/ MarkChecking(j) \/ FetchChecks(j) \/ ReadLatestRun(j)
             \/ ReadRisk(j) \/ SaveApprovalCheck(j) \/ MarkDecided(j)
    <3>1. UNCHANGED <<runs, approvals>>
      BY <2>4 DEF DismissFinding, CloseTarget, ReadRiskToAnswer, FetchHeadToCheck,
           MarkChecking, FetchChecks, ReadLatestRun, ReadRisk, SaveApprovalCheck,
           MarkDecided, SetPR, SetStatus, Call, Attempted, External, tables
    <3> QED
      BY <2>4, <3>1, SameReviewed, CheckOff, OffSame, QuietKeeps DEF MoreReviewed
  <2>5. CASE j \in Checks /\ (Decide(j) \/ ApprovePullRequest(j))
    BY <2>5, DecideKeeps, ApproveKeeps
  <2> QED
    BY <2>1, <2>2, <2>3, <2>4, <2>5 DEF JobStep, CheckStep
<1>2. CASE Crash
  BY <1>2, CrashKeeps
<1>3. CASE Push \/ UNCHANGED vars
  <2>1. UNCHANGED <<job, runs, approvals>>
    BY <1>3 DEF Push, vars, tables
  <2> QED
    BY <2>1, SameReviewed DEF ContractStep, AboutToApprove, At, Asked
<1> QED
  BY <1>1, <1>2, <1>3 DEF Next, Rest

LEMMA InitKeeps == Init => Contract!Init
BY DEF Init, Contract!Init, ReviewedHeads, Successful, AboutToApprove, At, Fresh, Jobs

\* However reviews, checks, retries, faults and crashes interleave, a commit is
\* only recommended once a successful run of it was recorded, approved only by
\* a check that recommended it, and each recommendation is used once
\* (handleApproveCheckCommand, reviewPullRequest).
THEOREM GovernanceKeepsContract == Spec => KeepsContract
<1>1. Inv /\ [Next]_vars => [Contract!Next]_(Contract!vars)
  BY StepKeeps DEF ContractStep, Contract!Next, Contract!vars, AllCommits, Asked
<1> QED
  BY <1>1, InitKeeps, InvAlways, PTL DEF Spec, KeepsContract, Contract!Spec
=============================================================================
