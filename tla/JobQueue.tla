------------------------------ MODULE JobQueue ------------------------------
(***************************************************************************)
(* The persistent webhook queue of pr-go: the webhook handler that records *)
(* a delivery, enqueues its job and signals a worker (app/server.go), the  *)
(* MySQL tables webhook_deliveries and webhook_jobs with the statements    *)
(* that change them (store/mysql.go), and the worker goroutines that claim *)
(* a job, process its event and write the outcome back.                    *)
(*                                                                         *)
(* A delivery has at most one job (delivery_id is UNIQUE in both tables),  *)
(* so the job of delivery d is jobs[d].  The clock is abstracted to the    *)
(* two comparisons the SQL makes: due (available_at <= now) and stale      *)
(* (locked_at older than 15 minutes).  locked_by is written by the code    *)
(* and read nowhere, so it is left out.  What an event does when it is     *)
(* processed is modelled elsewhere; here it succeeds or fails.             *)
(***************************************************************************)
EXTENDS Integers, Sequences, FiniteSets

CONSTANTS
  Deliveries,    \* X-GitHub-Delivery ids of events that trigger work
  NoDelivery,    \* stands for the missing id of an idle goroutine
  Handlers,      \* goroutines that net/http runs handleWebhook in
  Workers,       \* worker ids, worker-1 .. worker-WorkerCount
  MaxAttempts,   \* ServerConfig.MaxRetries, stored as max_attempts
  RetryBase,     \* ServerConfig.RetryDelay
  Minute,        \* the longest delay before another attempt
  DurationBits,  \* width of a time.Duration
  ChanCap,       \* capacity of Server.jobs
  MaxCrashes,    \* bound: crashes of the process
  MaxErrors,     \* bound: store calls that return an error
  MaxOverruns    \* bound: leases that expire under a running worker

ASSUME NoDeliveryAssumption == NoDelivery \notin Deliveries
ASSUME MaxAttemptsAssumption == MaxAttempts \in Nat \ {0}
ASSUME DelayAssumption ==
  RetryBase \in Nat \ {0} /\ Minute \in Nat \ {0} /\ DurationBits \in Nat \ {0}
ASSUME ChanCapAssumption == ChanCap \in Nat \ {0}
ASSUME BoundsAssumption ==
  MaxCrashes \in Nat /\ MaxErrors \in Nat /\ MaxOverruns \in Nat

VARIABLES
  deliveries,    \* webhook_deliveries.status per delivery, "none": no row
  jobs,          \* webhook_jobs row per delivery
  signals,       \* Server.jobs, the buffered channel of job ids
  handler,       \* the webhook request each handler goroutine serves
  runner,        \* the job each worker goroutine has in hand
  acked,         \* history: deliveries answered with 202
  alerted,       \* history: deliveries sendAlert was called for
  crashes,       \* history: crashes so far
  errors,        \* history: store calls that failed so far
  overruns       \* history: leases that expired under a running worker

vars == <<deliveries, jobs, signals, handler, runner, acked, alerted,
          crashes, errors, overruns>>

\* startWorkers runs two goroutines per worker id: one ranges over the
\* channel, the other drains the table at every tick.
Consumers == Workers \X {"consumer"}
Pollers   == Workers \X {"poller"}
Runners   == Consumers \cup Pollers

JobStatus == {"none", "queued", "processing", "retrying", "processed", "failed"}
Terminal  == {"processed", "failed"}

NoJob == [status |-> "none", attempts |-> 0, due |-> FALSE, stale |-> FALSE]
Idle  == [pc |-> "idle", job |-> NoDelivery]
Free  == [pc |-> "idle", job |-> NoDelivery, token |-> 0]

\* A runner has a job in hand from the claim to its last write.
HoldingPcs == {"claimed", "working", "ok", "okMarked", "err", "errMarked",
               "alerting"}
Holds(r, d) == runner[r].pc \in HoldingPcs /\ runner[r].job = d

\* The statements that settle a job are still ahead of the runner.
Unsettled(r, d) == Holds(r, d) /\ runner[r].pc # "alerting"

-----------------------------------------------------------------------------
Init ==
  /\ deliveries = [d \in Deliveries |-> "none"]
  /\ jobs = [d \in Deliveries |-> NoJob]
  /\ signals = <<>>
  /\ handler = [h \in Handlers |-> Idle]
  /\ runner = [r \in Runners |-> Free]
  /\ acked = {}
  /\ alerted = {}
  /\ crashes = 0
  /\ errors = 0
  /\ overruns = 0

\* A store call fails.  The caller sees an error whether or not the
\* statement took effect on the server.
StoreError == errors < MaxErrors /\ errors' = errors + 1
StoreOk    == UNCHANGED errors

-----------------------------------------------------------------------------
(* handleWebhook.  A request for d is served by h from RecordDelivery on;  *)
(* what comes before touches no state.                                     *)

\* Mutant of RecordDelivery: the new delivery is answered without a job.
RecordDeliverySkipsEnqueue(h, d) ==
  /\ handler[h].pc = "idle" /\ deliveries[d] = "none" /\ StoreOk
  /\ deliveries' = [deliveries EXCEPT ![d] = "queued"]
  /\ handler' = [handler EXCEPT ![h] = [pc |-> "enqueued", job |-> d]]
  /\ UNCHANGED <<jobs, signals, runner, acked, alerted, crashes, overruns>>

RecordDelivery(h, d) ==
  /\ handler[h].pc = "idle"
  /\ \/ /\ deliveries[d] = "none"
        /\ deliveries' = [deliveries EXCEPT ![d] = "queued"]
        /\ handler' = [handler EXCEPT ![h] = [pc |-> "recorded", job |-> d]]
        /\ StoreOk
        /\ UNCHANGED acked
     \/ /\ deliveries[d] # "none"
        /\ acked' = acked \cup {d}
        /\ StoreOk
        /\ UNCHANGED <<deliveries, handler>>
     \/ /\ deliveries[d] = "none"
        /\ StoreError
        /\ deliveries' \in {deliveries, [deliveries EXCEPT ![d] = "queued"]}
        /\ UNCHANGED <<handler, acked>>
  /\ UNCHANGED <<jobs, signals, runner, alerted, crashes, overruns>>

\* INSERT ... ON DUPLICATE KEY UPDATE id: an existing row keeps its state.
WithJob(d) ==
  IF jobs[d].status = "none"
  THEN [jobs EXCEPT ![d] = [status |-> "queued", attempts |-> 0,
                            due |-> TRUE, stale |-> FALSE]]
  ELSE jobs

EnqueueWebhookJob(h) ==
  LET d == handler[h].job IN
  /\ handler[h].pc = "recorded"
  /\ \/ /\ StoreOk
        /\ jobs' = WithJob(d)
        /\ handler' = [handler EXCEPT ![h].pc = "enqueued"]
     \/ /\ StoreError
        /\ jobs' \in {jobs, WithJob(d)}
        /\ handler' = [handler EXCEPT ![h].pc = "refusing"]
  /\ UNCHANGED <<deliveries, signals, runner, acked, alerted, crashes,
                 overruns>>

\* The enqueue failed: the delivery is marked failed and answered with 500.
RefuseDelivery(h) ==
  /\ handler[h].pc = "refusing"
  /\ \/ /\ StoreOk
        /\ deliveries' = [deliveries EXCEPT ![handler[h].job] = "failed"]
     \/ StoreError /\ UNCHANGED deliveries
  /\ handler' = [handler EXCEPT ![h] = Idle]
  /\ UNCHANGED <<jobs, signals, runner, acked, alerted, crashes, overruns>>

\* Mutant of SignalWorker: the job id is lost (no LAST_INSERT_ID(id)).
SignalWorkerNoId(h) ==
  /\ handler[h].pc = "enqueued"
  /\ signals' = IF Len(signals) < ChanCap THEN Append(signals, NoDelivery) ELSE signals
  /\ acked' = acked \cup {handler[h].job}
  /\ handler' = [handler EXCEPT ![h] = Idle]
  /\ UNCHANGED <<deliveries, jobs, runner, alerted, crashes, errors, overruns>>

\* select with default: a full channel drops the signal.  202 either way.
SignalWorker(h) ==
  LET d == handler[h].job IN
  /\ handler[h].pc = "enqueued"
  /\ signals' = IF Len(signals) < ChanCap THEN Append(signals, d) ELSE signals
  /\ acked' = acked \cup {d}
  /\ handler' = [handler EXCEPT ![h] = Idle]
  /\ UNCHANGED <<deliveries, jobs, runner, alerted, crashes, errors, overruns>>

-----------------------------------------------------------------------------
(* ClaimWebhookJob: one transaction that locks a claimable row, counts the *)
(* attempt and takes the lease.  It never compares attempts with           *)
(* max_attempts.                                                           *)

\* Mutant of Abandoned: a job that was lost on its last attempt is left alone.
AbandonedWithAttemptsLeft(d) ==
  jobs[d].status = "processing" /\ jobs[d].stale /\ jobs[d].attempts < MaxAttempts

Abandoned(d) == jobs[d].status = "processing" /\ jobs[d].stale

\* Mutants of Claimable: the age of the lease is not looked at; failed jobs are
\* tried once more.
ClaimableAnyTime(d) ==
  \/ jobs[d].status \in {"queued", "retrying"} /\ jobs[d].due
  \/ jobs[d].status = "processing"
ClaimableFailed(d) ==
  \/ jobs[d].status \in {"queued", "retrying", "failed"} /\ jobs[d].due
  \/ Abandoned(d)

Claimable(d) ==
  \/ jobs[d].status \in {"queued", "retrying"} /\ jobs[d].due
  \/ Abandoned(d)

\* Mutant of Claimed: the attempt is not counted.
ClaimedUncounted(d) ==
  [jobs EXCEPT ![d] = [status |-> "processing", attempts |-> @.attempts,
                       due |-> @.due, stale |-> FALSE]]

Claimed(d) ==
  [jobs EXCEPT ![d] = [status |-> "processing", attempts |-> @.attempts + 1,
                       due |-> @.due, stale |-> FALSE]]

\* ORDER BY puts expired leases first; among the others, available_at and id
\* decide, which the model leaves open.
NextInLine ==
  LET old == {d \in Deliveries : Abandoned(d)} IN
  IF old # {} THEN old ELSE {d \in Deliveries : Claimable(d)}

Claim(r, d) ==
  \/ /\ StoreOk
     /\ jobs' = Claimed(d)
     /\ runner' = [runner EXCEPT ![r] =
                     [pc |-> "claimed", job |-> d, token |-> jobs[d].attempts + 1]]
  \/ /\ StoreError
     /\ jobs' \in {jobs, Claimed(d)}
     /\ runner' = [runner EXCEPT ![r] = Free]

ReceiveSignal(r) ==
  /\ r \in Consumers
  /\ runner[r].pc = "idle"
  /\ signals # <<>>
  /\ runner' = [runner EXCEPT ![r] =
                  [pc |-> "signalled", job |-> Head(signals), token |-> 0]]
  /\ signals' = Tail(signals)
  /\ UNCHANGED <<deliveries, jobs, handler, acked, alerted, crashes, errors,
                 overruns>>

ClaimSignalled(r) ==
  LET d == runner[r].job IN
  /\ runner[r].pc = "signalled"
  /\ \/ Claimable(d) /\ Claim(r, d)
     \/ /\ ~Claimable(d)
        /\ runner' = [runner EXCEPT ![r] = Free]
        /\ UNCHANGED <<jobs, errors>>
  /\ UNCHANGED <<deliveries, signals, handler, acked, alerted, crashes,
                 overruns>>

\* A tick of the poller, or the next round of drainJobs.
ClaimNext(r) ==
  /\ r \in Pollers
  /\ runner[r].pc = "idle"
  /\ \E d \in NextInLine : Claim(r, d)
  /\ UNCHANGED <<deliveries, signals, handler, acked, alerted, crashes,
                 overruns>>

-----------------------------------------------------------------------------
(* processJob after the claim.  Every store error below is discarded.      *)

MarkDeliveryStatus(d, status) ==
  \/ StoreOk /\ deliveries' = [deliveries EXCEPT ![d] = status]
  \/ StoreError /\ UNCHANGED deliveries

MarkProcessing(r) ==
  /\ runner[r].pc = "claimed"
  /\ MarkDeliveryStatus(runner[r].job, "processing")
  /\ runner' = [runner EXCEPT ![r].pc = "working"]
  /\ UNCHANGED <<jobs, signals, handler, acked, alerted, crashes, overruns>>

ProcessEvent(r) ==
  /\ runner[r].pc = "working"
  /\ \E outcome \in {"ok", "err"} :
       runner' = [runner EXCEPT ![r].pc = outcome]
  /\ UNCHANGED <<deliveries, jobs, signals, handler, acked, alerted, crashes,
                 errors, overruns>>

\* Mutants of MayRetry: off by one, either way.
MayRetryOneLess(r) == runner[r].token + 1 < MaxAttempts
MayRetryOneMore(r) == runner[r].token <= MaxAttempts

\* claimed.Attempts < claimed.MaxAttempts, on the row as it was claimed.
MayRetry(r) == runner[r].token < MaxAttempts

\* Mutant of MarkOutcome: a job that is given up is reported as retrying.
MarkOutcomeRetrying(r) ==
  /\ \/ /\ runner[r].pc = "ok"
        /\ MarkDeliveryStatus(runner[r].job, "processed")
        /\ runner' = [runner EXCEPT ![r].pc = "okMarked"]
     \/ /\ runner[r].pc = "err"
        /\ MarkDeliveryStatus(runner[r].job, "retrying")
        /\ runner' = [runner EXCEPT ![r].pc = "errMarked"]
  /\ UNCHANGED <<jobs, signals, handler, acked, alerted, crashes, overruns>>

MarkOutcome(r) ==
  /\ \/ /\ runner[r].pc = "ok"
        /\ MarkDeliveryStatus(runner[r].job, "processed")
        /\ runner' = [runner EXCEPT ![r].pc = "okMarked"]
     \/ /\ runner[r].pc = "err"
        /\ MarkDeliveryStatus(runner[r].job,
                              IF MayRetry(r) THEN "retrying" ELSE "failed")
        /\ runner' = [runner EXCEPT ![r].pc = "errMarked"]
  /\ UNCHANGED <<jobs, signals, handler, acked, alerted, crashes, overruns>>

\* Multiplication of a time.Duration wraps around.
Wrap(n) ==
  LET half == 2 ^ (DurationBits - 1) IN ((n + half) % (2 * half)) - half

\* RetryDelay doubled once for each attempt after the first.
Backoff[attempt \in Nat] ==
  IF attempt <= 1 THEN RetryBase ELSE Wrap(2 * Backoff[attempt - 1])

\* Mutant of RetryDelay: doubled for the attempt itself, too.
RetryDelayOneMore(attempt) ==
  IF Backoff[attempt + 1] > Minute THEN Minute ELSE Backoff[attempt + 1]

\* The limit is compared with the product, not before each doubling.
RetryDelay(attempt) == IF Backoff[attempt] > Minute THEN Minute ELSE Backoff[attempt]

\* Mutant of Settle: a job that is retried starts counting again.
SettleResets(d, status, due) ==
  /\ StoreOk
  /\ jobs' = [jobs EXCEPT ![d] = [status |-> status,
                                  attempts |-> IF status = "retrying" THEN 0 ELSE @.attempts,
                                  due |-> due, stale |-> FALSE]]

\* CompleteWebhookJob, RetryWebhookJob and FailWebhookJob update the row by
\* id alone: neither its status nor who locked it is looked at.
Settle(d, status, due) ==
  \/ /\ StoreOk
     /\ jobs' = [jobs EXCEPT ![d] = [status |-> status, attempts |-> @.attempts,
                                     due |-> due, stale |-> FALSE]]
  \/ StoreError /\ UNCHANGED jobs

CompleteWebhookJob(r) ==
  /\ runner[r].pc = "okMarked"
  /\ Settle(runner[r].job, "processed", jobs[runner[r].job].due)
  /\ runner' = [runner EXCEPT ![r] = Free]
  /\ UNCHANGED <<deliveries, signals, handler, acked, alerted, crashes,
                 overruns>>

\* available_at is now + retryDelay: a delay that wrapped around is no delay.
RetryWebhookJob(r) ==
  /\ runner[r].pc = "errMarked" /\ MayRetry(r)
  /\ Settle(runner[r].job, "retrying", ~(RetryDelay(runner[r].token) > 0))
  /\ runner' = [runner EXCEPT ![r] = Free]
  /\ UNCHANGED <<deliveries, signals, handler, acked, alerted, crashes,
                 overruns>>

\* Mutant of FailWebhookJob: the worker returns before the alert.
FailWebhookJobSilently(r) ==
  /\ runner[r].pc = "errMarked" /\ ~MayRetry(r)
  /\ Settle(runner[r].job, "failed", jobs[runner[r].job].due)
  /\ runner' = [runner EXCEPT ![r] = Free]
  /\ UNCHANGED <<deliveries, signals, handler, acked, alerted, crashes, overruns>>

\* Mutant of FailWebhookJob: the alert is sent in the place of the update.
FailWebhookJobUnsettled(r) ==
  /\ runner[r].pc = "errMarked" /\ ~MayRetry(r)
  /\ runner' = [runner EXCEPT ![r].pc = "alerting"]
  /\ StoreOk
  /\ UNCHANGED <<deliveries, jobs, signals, handler, acked, alerted, crashes, overruns>>

FailWebhookJob(r) ==
  /\ runner[r].pc = "errMarked" /\ ~MayRetry(r)
  /\ Settle(runner[r].job, "failed", jobs[runner[r].job].due)
  /\ runner' = [runner EXCEPT ![r].pc = "alerting"]
  /\ UNCHANGED <<deliveries, signals, handler, acked, alerted, crashes,
                 overruns>>

SendAlert(r) ==
  /\ runner[r].pc = "alerting"
  /\ alerted' = alerted \cup {runner[r].job}
  /\ runner' = [runner EXCEPT ![r] = Free]
  /\ UNCHANGED <<deliveries, jobs, signals, handler, acked, crashes, errors,
                 overruns>>

-----------------------------------------------------------------------------
(* Time and crashes.                                                       *)

\* available_at is reached.
BecomeDue(d) ==
  /\ jobs[d].status = "retrying" /\ ~jobs[d].due
  /\ jobs' = [jobs EXCEPT ![d].due = TRUE]
  /\ UNCHANGED <<deliveries, signals, handler, runner, acked, alerted, crashes,
                 errors, overruns>>

\* The runner that took the lease is still at work on the job.
LeaseInUse(d) ==
  \E r \in Runners : Unsettled(r, d) /\ runner[r].token = jobs[d].attempts

\* locked_at falls behind by 15 minutes.
LeaseExpires(d) ==
  /\ jobs[d].status = "processing" /\ ~jobs[d].stale
  /\ \/ ~LeaseInUse(d) /\ UNCHANGED overruns
     \/ LeaseInUse(d) /\ overruns < MaxOverruns /\ overruns' = overruns + 1
  /\ jobs' = [jobs EXCEPT ![d].stale = TRUE]
  /\ UNCHANGED <<deliveries, signals, handler, runner, acked, alerted, crashes,
                 errors>>

\* The process dies and is started again: NewServer finds the tables as they
\* are, the channel is new and empty, every goroutine starts over.
Crash ==
  /\ crashes < MaxCrashes
  /\ crashes' = crashes + 1
  /\ signals' = <<>>
  /\ handler' = [h \in Handlers |-> Idle]
  /\ runner' = [r \in Runners |-> Free]
  /\ UNCHANGED <<deliveries, jobs, acked, alerted, errors, overruns>>

-----------------------------------------------------------------------------
HandlerStep(h) ==
  \/ \E d \in Deliveries : RecordDelivery(h, d)
  \/ EnqueueWebhookJob(h)
  \/ RefuseDelivery(h)
  \/ SignalWorker(h)

RunnerStep(r) ==
  \/ ReceiveSignal(r)
  \/ ClaimSignalled(r)
  \/ ClaimNext(r)
  \/ MarkProcessing(r)
  \/ ProcessEvent(r)
  \/ MarkOutcome(r)
  \/ CompleteWebhookJob(r)
  \/ RetryWebhookJob(r)
  \/ FailWebhookJob(r)
  \/ SendAlert(r)

Next ==
  \/ \E h \in Handlers : HandlerStep(h)
  \/ \E r \in Runners : RunnerStep(r)
  \/ \E d \in Deliveries : BecomeDue(d) \/ LeaseExpires(d)
  \/ Crash

Spec == Init /\ [][Next]_vars

(***************************************************************************)
(* Goroutines are scheduled, processing ends (reviewPullRequest runs under *)
(* a timeout), time passes, and every poller ticks.  Nothing is assumed of *)
(* the sender, of the handlers, of errors or of crashes.                   *)
(***************************************************************************)
Fairness ==
  /\ \A r \in Runners : WF_vars(RunnerStep(r))
  /\ \A d \in Deliveries : WF_vars(BecomeDue(d)) /\ WF_vars(LeaseExpires(d))
FairSpec == Spec /\ Fairness

-----------------------------------------------------------------------------
(* Properties.                                                             *)

JobRow == [status : JobStatus, attempts : Nat, due : BOOLEAN, stale : BOOLEAN]
HandlerState == [pc : {"idle", "recorded", "enqueued", "refusing"},
                 job : Deliveries \cup {NoDelivery}]
RunnerState  == [pc : {"idle", "signalled"} \cup HoldingPcs,
                 job : Deliveries \cup {NoDelivery},
                 token : Nat]

\* The tables, the channel and the goroutines only hold values the code puts
\* there; a goroutine that is busy has a delivery in hand.
TypeOK ==
  /\ deliveries \in [Deliveries -> JobStatus]
  /\ jobs \in [Deliveries -> JobRow]
  /\ signals \in Seq(Deliveries)
  /\ handler \in [Handlers -> HandlerState]
  /\ runner \in [Runners -> RunnerState]
  /\ \A h \in Handlers : handler[h].pc # "idle" => handler[h].job \in Deliveries
  /\ \A r \in Runners : runner[r].pc # "idle" => runner[r].job \in Deliveries
  /\ acked \subseteq Deliveries
  /\ alerted \subseteq Deliveries
  /\ crashes \in Nat /\ errors \in Nat /\ overruns \in Nat

\* The row is leased; a runner is astray when it has not settled its job and the
\* lease it took is over: taken from it, or settled by another runner.
InForce(d) == jobs[d].status = "processing" /\ ~jobs[d].stale
Strays(d) ==
  {r \in Runners : Unsettled(r, d) /\ ~(InForce(d) /\ runner[r].token = jobs[d].attempts)}

\* Two goroutines never run the same attempt of a job, and those that run it
\* besides the one whose lease is in force are no more than the leases that
\* expired under a running worker, whatever else fails and crashes
\* (ClaimWebhookJob against the unconditional updates of the settling calls).
ExclusiveLease ==
  \A d \in Deliveries :
    /\ \A r1, r2 \in Runners :
         r1 # r2 /\ Unsettled(r1, d) /\ Unsettled(r2, d) =>
           runner[r1].token # runner[r2].token
    /\ Cardinality(Strays(d)) <= overruns

\* A runner works on an attempt that was counted, and no other runner has the
\* same attempt of the same job.
TokensIssued ==
  \A r \in Runners, d \in Deliveries :
    Holds(r, d) => runner[r].token \in 1 .. jobs[d].attempts
TokensDiffer ==
  \A d \in Deliveries, r1, r2 \in Runners :
    r1 # r2 /\ Holds(r1, d) /\ Holds(r2, d) =>
      runner[r1].token # runner[r2].token

\* Until a lease is overrun, a runner that has not settled its job has the
\* latest attempt of it and a lease that has not expired.
LeaseInForce ==
  overruns = 0 =>
    \A r \in Runners, d \in Deliveries :
      Unsettled(r, d) => /\ runner[r].token = jobs[d].attempts
                         /\ jobs[d].status = "processing"
                         /\ ~jobs[d].stale

NoRowNoAttempt ==
  \A d \in Deliveries : jobs[d].status = "none" => jobs[d].attempts = 0

\* A job that was given up had all its attempts, however often it was
\* claimed, lost and reclaimed (processJob's choice of retry or fail).
FailedMeansExhausted ==
  \A d \in Deliveries :
    jobs[d].status = "failed" => jobs[d].attempts >= MaxAttempts

\* The leases at every moment: what makes ExclusiveLease, TerminalStays and
\* FailedMeansExhausted hold from one step of the queue to the next.
QueueInv ==
  /\ TypeOK
  /\ TokensIssued
  /\ TokensDiffer
  /\ LeaseInForce
  /\ NoRowNoAttempt
  /\ FailedMeansExhausted

\* A job is attempted more often than max_attempts only if a claim was lost:
\* one attempt per crash, per failed store call and per overrun lease at most.
AttemptsAccounted ==
  \A d \in Deliveries :
    jobs[d].attempts <= MaxAttempts + crashes + errors + overruns

\* The delivery row follows the job row through crashes at any point: when a
\* job is waiting or settled, the delivery says the same (processJob writes
\* the delivery first and the job last).
DeliveryMirrorsJob ==
  errors = 0 /\ overruns = 0 =>
    \A d \in Deliveries :
      jobs[d].status \in {"queued", "retrying", "processed", "failed"} =>
        deliveries[d] = jobs[d].status

\* A delivery that was answered with 202 has a job, or a concurrent request is
\* about to enqueue it, as long as no crash and no store error came between
\* RecordDelivery and EnqueueWebhookJob.
AckedHasJob ==
  crashes = 0 /\ errors = 0 =>
    \A d \in acked :
      \/ jobs[d].status # "none"
      \/ \E h \in Handlers : handler[h] = [pc |-> "recorded", job |-> d]

\* An operator is told of every job that was given up, through store errors and
\* overrun leases: only a crash between FailWebhookJob and sendAlert loses the
\* alert.
FailedIsAlerted ==
  crashes = 0 =>
    \A d \in Deliveries :
      jobs[d].status = "failed" =>
        \/ d \in alerted
        \/ \E r \in Runners : Holds(r, d) /\ runner[r].pc = "alerting"

\* An alert tells of a job that was given up for good: the worker alerts after
\* it updated the row, and nothing takes the job up again.  Only a failed
\* FailWebhookJob, whose error is discarded, makes the alert premature.
AlertedIsFailed ==
  errors = 0 /\ overruns = 0 => \A d \in alerted : jobs[d].status = "failed"

\* A settled job is settled again only by a worker that is astray, with what it
\* had still to write: no claim, signal, redelivery, crash or failed call does
\* it, and no worker does it twice.  Without overrun leases there is none.
TerminalStays ==
  [][\A d \in Deliveries :
       jobs[d].status \in Terminal /\ jobs'[d].status # jobs[d].status =>
         /\ overruns > 0
         /\ \E r \in Strays(d) : ~Unsettled(r, d)']_vars

\* Every job that reaches the table is settled, although signals are dropped
\* when the channel is full and lost in a crash: the pollers find it.
EveryJobSettles ==
  \A d \in Deliveries : jobs[d].status = "queued" ~> jobs[d].status \in Terminal

\* README: a webhook is acknowledged after delivery deduplication and
\* enqueueing, and restarts do not lose accepted work.
AckImpliesJob == \A d \in acked : jobs[d].status # "none"

\* The product of a retry delay, before its limit and in numbers of any size.
Doubled[attempt \in Nat] ==
  IF attempt <= 1 THEN RetryBase ELSE 2 * Doubled[attempt - 1]

\* A job that is put back is due at once only when the doubling of its delay has
\* left the range of a Duration: up to that attempt a worker, with its lease or
\* astray, makes it wait (retryDelay looks at the limit after the last doubling).
RetryWaits ==
  [][\A d \in Deliveries :
       jobs[d].status # "retrying" /\ jobs'[d].status = "retrying" /\ jobs'[d].due =>
         Doubled[jobs[d].attempts] >= 2 ^ (DurationBits - 1)]_vars
=============================================================================
