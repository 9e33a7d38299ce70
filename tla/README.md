# TLA+ models of pr-go

pr-go is a GitHub App that reviews pull requests. Webhooks arrive over HTTP, are
stored in a MySQL queue, and are processed by worker goroutines that call GitHub
and an LLM, store findings and risk scores, answer comment commands and, where the
repository's policy allows it, approve a pull request. This directory holds TLA+
models of that program, their TLC configurations, and proofs checked by TLAPS.

Paths below are relative to `src/`. `PROJECT.json` maps each definition to the
source lines it stands for.

## Inventory

| Component | State | Operations | What is hard | What makes it correct |
|---|---|---|---|---|
| Webhook queue: `internal/app/server.go` 154-317, `internal/store/mysql.go` 51-184 | tables `webhook_deliveries`, `webhook_jobs`; channel `Server.jobs` | record, enqueue, signal, claim, complete, retry after a delay, fail, alert | two goroutines per worker id race for rows; leases of 15 minutes; updates by id alone; crashes between any two statements; a full or lost channel; a delay that doubles | a job runs once at a time, its attempts are accounted for, a settled job stays settled, every job is settled |
| Reviews: `server.go` 319-516 | `pull_requests`, `review_runs`, `review_findings`, `risk_scores` | thirteen calls of the store and of GitHub, and the error path | several reviews and checks of a pull request at once; commits pushed between two requests; partial inserts; a timeout that also cancels the error path | a successful run is complete; no progress marker stays behind |
| Comment commands: `internal/app/commands.go` | `comment_commands`, `approval_checks` and the tables above | `/ai-review`, `/ai-recheck`, `/ai-dismiss`, `/ai-approve-check`, `/ai-risk` | the check reads run, risk and findings in three queries and approves last | a recommendation rests on a finished review of the right commit, with its findings handled |
| Decision, checks, risk: `internal/app/approval.go`, `internal/github/client.go` 287-335, `internal/review/risk.go`, `internal/policy/config.go` 200-297 | none | `summarizeChecks`, `ScoreRiskWithOptions`, policy rules, `DecideApproval` | many reasons folded into three results; unknown values; thresholds | nothing bad on the inputs is recommended; nothing worse is answered more permissively |
| Repository policy: `internal/app/policy.go`, `internal/policy/config.go` 84-197, 299-436 | a `Config` while it is parsed | lines, lists, scalars, validation, globs | section, subsection and list are carried from line to line; lists that start from a default; errors in a late line; stars that look ahead | the settings in force are those the file gives; a pattern matches the paths it names |
| Diff compression: `internal/review/diff.go`, `types.go` | the text so far | `CompressDiff`, `BuildInput` | a byte budget at the boundary between header and patch | the budget is kept, and what is left out is told |
| Installations: `internal/app/installations.go`, `mysql.go` 186-275 | `repositories.active` | record, deactivate one, deactivate all | events are queue jobs, run in any order and started over after an error | the active repositories are the granted ones |
| Webhook decoding: `internal/app/webhook.go` | none | signature, JSON | none that a state machine shows | not modelled |
| GitHub client, app tokens, LLM providers | none | HTTP calls | answers that come late or not at all | modelled only as such answers |
| Alerts: `internal/app/alert.go` | none | one HTTP call | lost in a crash | a step of the queue |
| Admin pages, rendering, command line | none | queries, formatting, flags | none | not modelled |

The parts interact through the tables alone. `handleWebhook` inserts the job and
signals its id over the channel. A worker claims it and calls `processEvent`, which
runs a review, a command or an installation event and returns an error or nil; the
worker then retries or settles the job. Reviews, dismissals and checks of one pull
request are different jobs: nothing keeps them from running side by side. Both
read the policy file of the base commit once they know the pull request; a review
filters the changed files with it and compresses what is left.

## Modules

| Module | Models or proves |
|---|---|
| `JobQueue` | the webhook queue with handlers, workers, leases, delays, failed store calls and crashes |
| `JobLifecycle` | what the queue promises of one job |
| `JobQueueRefinement` | the mapping from `JobQueue` to `JobLifecycle` |
| `ApprovalDecision` | the pure functions of the decision, as operators |
| `ApprovalInputs` | those operators composed, over inputs that get worse step by step |
| `Governance` | reviews, dismissals, checks and questions of one pull request; uses `ApprovalDecision` |
| `ApprovalContract` | what the approval check promises of a pull request |
| `PolicyFile` | fetching, parsing and validating the policy file |
| `DiffBudget` | `CompressDiff` |
| `ReviewInput` | composes `PolicyFile` and `DiffBudget`: what the model is shown |
| `PathGlob` | `policy.Match` |
| `Installations` | repositories recorded and deactivated by queue jobs |
| `MC...` | symmetry and values of the constants for TLC |
| `JobQueueProofs` | theorems about `JobQueue` |
| `ApprovalProofs` | theorems about `ApprovalInputs` |
| `ReviewInputProofs` | theorems about `ReviewInput` |
| `GovernanceProofs`, `RecommendationProofs`, `TablesProofs` | theorems about `Governance` |
| `InstallationsProofs` | theorems about `Installations` |
| `PathGlobProofs` | theorems about `PathGlob` |

### JobQueue

`deliveries` and `jobs` are the two tables, a row per delivery id, which is unique
in both. `signals` is the buffered channel. `handler[h]` is a goroutine inside
`handleWebhook` and `runner[r]` one of the two goroutines per worker id that
`startWorkers` starts: the consumer of the channel and the poller. Each action is
one statement or transaction with the local code around it; between two actions
every other goroutine may run.

- `RecordDelivery`, `EnqueueWebhookJob`, `RefuseDelivery`, `SignalWorker` are
  `handleWebhook`. A second request for a recorded delivery is answered at once.
- `ReceiveSignal`, `ClaimSignalled`, `ClaimNext` are the two ways to a claim;
  `Claimable` and `NextInLine` are the WHERE and ORDER BY of `ClaimWebhookJob`.
- `MarkProcessing`, `ProcessEvent`, `MarkOutcome`, `CompleteWebhookJob`,
  `RetryWebhookJob`, `FailWebhookJob`, `SendAlert` are the rest of `processJob`.
- `RetryDelay` is the Go function: `Backoff` doubles a duration of `DurationBits`
  bits that wraps around, and only the result is compared with a minute. A delay
  that is not positive makes the job due at once.
- `BecomeDue` and `LeaseExpires` are the clock, reduced to the two comparisons the
  SQL makes. `Crash` is a restart: tables stay, channel and goroutines do not.

A store call that fails returns an error and may have taken effect for the insert
of a delivery, the insert of a job and the claim. The errors of the statements
after the claim are discarded, so one that took effect is the same as a success;
only the other kind is a step of its own. `runner[r].token` is
`claimed.Attempts`. The column `locked_by` is written and never read, and is left
out.

### Governance

`head` is the commit GitHub shows; the other state variables are the tables,
reduced to what handlers read back or reports show. `job[j]` is where the worker
that runs `j` is and what it has read. `Call`, `Try` and `Attempted` are a store
call whose error is returned, one whose error is discarded, and the effect of a
statement that returned an error and may have been carried out. `Expire` is the
timeout of a review, which cancels the context that `handleJobError` writes with.
`FetchHead` and `FetchFiles` are separate because `FetchPullRequest` makes separate
requests; `seen` remembers the commit the files were of. Findings and risk of a
review come from the outcomes of the load; model, comment and audit rows are left
out, as no handler reads them. The changed files play no part under the default
policy that the runs use; rules about paths are in `ApprovalInputs`. The queue is
what `JobQueue` guarantees without overrun leases: one worker at a time per job.
Branches that only end a webhook early (an event that is no review, a draft)
enqueue nothing the model needs; a command with wrong arguments ends like one
whose author lacks the permission.

`Loads` bounds a behaviour: which jobs are sent, how many commits and faults
there are and what reviews may come to. `Init` picks one, so that one run covers
several mixes of jobs without their product.

`ApprovalContract` speaks of commits only: reviewed, recommended by a check,
approved. In the refinement a commit is reviewed when a run of it is successful
(`ReviewedHeads`), recommended from the decision of a check to its call of GitHub
(`AboutToApprove`), and approved when GitHub was asked for it by a check of it.

### ApprovalDecision and ApprovalInputs

One operator per function, `findings` being a count per severity. Which pattern
matches which path is the constant `Matches`. `ApprovalInputs` starts from inputs
that deserve a recommendation and takes away one good thing per step (a check
becomes pending and then fails, a file is added, a finding appears, a dismissal is
undone, the run becomes one of an older head), so that monotony of the whole
pipeline is an action property. A file may also take the place of a test, but only
of one that is nothing else (`OnlyATest`): where a rule or `high_risk_paths` asks
for a human because of the test, its removal is no step for the worse.

### ReviewInput, PolicyFile and DiffBudget

A line of the policy file is a record of its kind, indentation, key and value:
what is left once comment, blanks and quotes are taken off. `ReadLine` is one turn
of the loop in `Parse`, with `section`, `subsection` and `listKey` carried from
line to line as in the code; `RejectLine` is the same turn for a line that is
wrong, and `EndOfFile` validates. The file may also be missing or unreadable. The
second part of the module reads the settings off the whole file, without the
loop's variables; properties compare the two.

Of a changed file `DiffBudget` keeps the path and the lengths of header and patch.
`OmitFile`, `CutFile` and `ShowFile` are the three branches of the loop in
`CompressDiff`. `ReviewInput` puts the parts in their order: the policy is loaded,
`FilterIgnored` is `buildReviewInput`, and what it keeps is compressed.

### PathGlob

A pattern grows by a character per step; the invariants speak of it and of every
path in `Names`. `Match` tries the pattern as `path.Match` reads it and as
`globRegex` translates it. Both are sequences of tokens: `globRegex` gives the token
that begins at each position, `Width` how much of the pattern it stands for.
`MatchesFrom` says for each position of the pattern where in the name the rest of it
matches the rest of the name, from the end to the beginning, a token at a time
(`Before`). `Fits` is the reference: segment by segment, with `**` any directories.
`Utf8` gives what the bytes of a character are when each is taken for a character,
as `globRegex` does; `Garbled` names, which have just these characters, are left
out of `MatchesSegments`.

### Installations

`events` are the jobs in the order of the events that caused them; workers take
them in any order. `granted` is what GitHub lets the app see, `rows` is
`repositories.active`. Webhooks of pull requests are events too, because
`UpsertRepository` is their first store call. `audits` are the repositories whose
last record is followed by a removal entry in the audit log, so that each removal
needs an entry of its own. `overtaken` remembers the kinds of the jobs that were not
over when a later one was begun: the guarantees that an uninstallation or a set of
rows needs (`ordered`) ask that there is none, and `RemovedIsInactive` allows only
jobs of pull requests. Two choices of detail: the SELECT and the UPDATE of
`DeactivateRepository`, which name one repository, are a step with the audit entry
that follows, so a repository that is inactive for a moment before its entry is
written is not seen, while a fault between the two is (`DeactivateRepository` with
`Fail` or without the entry); the statements of `DeactivateRepositoriesByInstallation`
are steps of their own.

## Runs

| Run | Question | Result |
|---|---|---|
| `JobQueueFaults` | are leases, attempts, settled jobs, delays, delivery rows and alerts accounted for through faults? | holds |
| `JobQueueRefinement` | with two jobs, one worker and one channel slot: is every job settled, and does the queue implement `JobLifecycle`, fairness included? | holds |
| `JobQueueAck` | does an acknowledged delivery have a job? | violated |
| `Approval` | with the default policy and one that uses every kind of rule: is a recommendation earned, low risk quiet, and the decision monotone? | holds |
| `Governance` | over six loads of jobs, pushes and faults: is a successful run complete, do recommendations and approvals rest on one and keep `ApprovalContract`, are dismissals answered truthfully, and is nothing left running unexplained? | holds |
| `GovernanceHead` | is the approved commit the checked one? | violated |
| `GovernanceGivenUp` | does an attempt that ends with an error leave its run failed? | violated |
| `ReviewInput` | are the settings in force those the file gives, does only an accepted file hide a changed file, does the diff keep to its budget and tell what it left out? | holds |
| `PolicyLists` | is a configured list of any length taken as it is written? | violated |
| `PathGlob` | does a pattern match the paths whose segments fit it, and does a second star hide nothing? | holds |
| `InstallationsOrdered` | do jobs that overtake none leave the granted repositories active, and are removals audited? | holds |
| `InstallationsStale` | is a removed repository inactive when all jobs are done and only jobs of pull requests were overtaken? | violated |

### Bounds

- `JobQueue`: in `JobQueueRefinement` two attempts distinguish the first from the
  last, and two deliveries make the channel of one slot overflow. In
  `JobQueueFaults` one delivery with two handlers and four goroutines has every race
  for a row; two failures and two overrun leases let two runners lose the same job
  one after the other. The base of 1 is doubled in durations of three bits (-4 to 3)
  over up to four attempts: the delays are 1 and 2, and the third is a product that
  does not fit, as 64 bits and the base of two seconds have it at attempt 34.
- `ApprovalInputs`: five steps combine any five changes for the worse. Apart
  from the risk level, each reason of the decision looks at one or two inputs, and
  five steps take the score across every threshold, with and without findings
  dismissed.
- `Governance`: six loads of two or three jobs, with at most two heads, one fault
  and two attempts. They put a check next to a review under a push and a fault,
  with a dismissal and with more outcomes; a recheck next to a review with a
  fault; a check and a dismissal next to two reviews; a question with a fault. Two
  or three jobs are the smallest sets in which a job overwrites what another has
  read. Two heads give one push, at any point. More faults exceed the state space
  that is checked in minutes; the theorems hold for any number of jobs, heads and
  faults.
- `ReviewInput`: files of up to five of eighteen lines, which is enough for a list
  in a subsection that follows another section, and for a wrong line after it.
  The default lists have two entries in place of thirteen and six, so that a list
  can be shorter, as long and longer. Three pull requests of two files meet a
  limit of 4 and the default, here 6: both files fit, the second is cut or has no
  room, the first has no room and the second has some.
- `PathGlob`: patterns of up to six characters of five (a letter, a letter of two
  bytes, star, question mark, slash), paths of up to five, and two garbled ones:
  directories three deep, and both `**/` and `/**` in one pattern. The theorems are
  about patterns and paths of any length.
- `Installations`: three events are a grant, a removal and one that races with
  them; two faults fail a job on each of its attempts.

`CHECK_DEADLOCK FALSE` is set where the number of steps or events is bounded and
the model really stops. `Governance` has the step `Rest` instead, which is enabled
only when every job is over, so a job that gets stuck is reported.

### Fairness

`JobQueue!Fairness` is weak fairness of each worker goroutine (the Go scheduler, a
ticker that never stops, and a review that runs under a timeout), of a retry
becoming due and of a lease growing old (time passes). Nothing is assumed of
senders, handlers, failures or crashes. With these, `EveryJobSettles` says that
jobs are settled although signals are dropped by a full channel or lost in a
crash: the pollers find them. The other specifications have no fairness, and their
properties are safety properties.

### Mutants

Definitions whose comment begins with "Mutant of" are not part of a specification.
Each is the definition it names with a plausible bug: a WHERE clause that forgets
the age of the lease, an attempt that is not counted, an insert whose failure is
skipped, a header that is not measured, a new section that keeps the old
subsection. `PROJECT.json` names, for every property of a run that holds, the
mutant under which it does not.

## Findings

Each of these is a run that ends in a counterexample; `PROJECT.json` quotes the
lines.

1. `JobQueueAck`: `RecordDelivery` and `EnqueueWebhookJob` are separate. After a
   crash in between, the redelivery is answered "duplicate" and no job exists.
2. `GovernanceHead`: the approval names no commit; one pushed during the check is
   approved in the place of the one that was checked.
3. `GovernanceGivenUp`: `handleJobError` writes with the context of the review, so
   after its timeout the run stays `running`.
4. `InstallationsStale`: `UpsertRepository` sets `active`. The job of a pull request
   that was queued before its repository was removed, and runs after the job of the
   removal, brings the repository back, and nothing corrects it later.
5. `PolicyLists`: `appendList` takes a list whose length is that of the default
   list for the default list. The seventh entry of `test_file_patterns` and the
   fourteenth of `high_risk_paths` replace all entries before them.

What the models show besides, where a property states the weaker fact that holds:

- An expired lease is reclaimed without looking at `max_attempts`, so the last
  attempt may be followed by others: one per crash, failed call and overrun lease
  (`AttemptsAccounted`).
- `LatestRiskScore` is the last row of the pull request, not that of the run that
  the decision cites. `RiskAccounted` says when a recommendation may pass over the
  level of its own run: only for a later score of another run.
- Finding ids are given anew by each review, and `DismissFinding` closes all open
  rows of the id: one `/ai-dismiss` may close findings of two reviews.
- A pattern with `**` and a character of more than one byte matches only what
  `path.Match` finds, to which `**` is one directory, since `globRegex` takes the
  character apart. `MatchesSegments` says that it never matches too much.
- `retryDelay` doubles the base once for each attempt and compares with a minute
  only afterwards. A product that does not fit a duration is negative or otherwise
  wrong, and the job may be due at once. With the base of two seconds this begins
  at attempt 34. `--max-retries` has no upper limit (its default is 3), so the
  "exponential backoff up to `--max-retries`" of `README.md:169` ends there;
  `RetryWaits` says up to which attempt it holds.
- The error of `FailWebhookJob` is discarded: the alert of a final failure goes out
  although the row stays `processing`, is reclaimed when its lease has expired, and
  the job may be processed after all. `AlertedIsFailed` holds without failed calls.
- A worker whose lease was overrun may settle a job that is settled already, with
  another outcome (`TerminalStays`): the statements name the row by its id alone.
- Jobs that run out of order may leave the wrong repositories active also without a
  job of a pull request, and a repository that is recorded between the two
  statements of an uninstallation is deactivated without an audit entry: this is why
  `OrderedAgree`, and `RemovalAudited` for uninstallations, speak of `ordered`.

## Proofs

All theorems hold for any values of the constants that satisfy the named
assumptions of the modules. Those say that ids differ by kind (`JobsAssumption`,
`NoDeliveryAssumption`), that bounds, limits and delays are numbers, positive
where the code makes them so (`MaxAttemptsAssumption`, `AttemptsAssumption`,
`ChanCapAssumption`, `BoundsAssumption`, `DelayAssumption`, `LoadsAssumption`,
`LimitsAssumption`, `RulesAssumption`), that a behaviour has finitely many reviews
(`FiniteAssumption`), that a review's level is one of the four of `riskLevel`
(`OutcomesAssumption`), what lines, default lists, files and characters are
(`LinesAssumption`, `DefaultsAssumption`, `ChangesAssumption`, `CharsAssumption`),
that a character of one byte is that byte (`Utf8Assumption`), that paths neither
begin nor end with a slash (`NamesAssumption`),
and that the files to start with are finitely many and no file that is added is a
test (`PathsAssumption`). TLC evaluates them in the runs.

Every safety property of a run that holds is a theorem; what the prover cannot
reach is under "Only model-checked".

### The queue

| Theorem | States |
|---|---|
| `TypeCorrect` | `Spec => []TypeOK` |
| `QueueInvariant` | `Spec => []QueueInv` |
| `LeasesExclude` | `Spec => []ExclusiveLease` |
| `GivenUpAfterAllAttempts` | `Spec => []FailedMeansExhausted` |
| `SettledForGood` | `Spec => TerminalStays` |
| `Refinement` | with `MaxOverruns = 0`, `Spec => Lifecycle!Spec` |
| `AcknowledgedHasJob` | `Spec => []AckedHasJob` |
| `AlertsTellFailures`, `AlertsOnlyFailures` | `Spec => []FailedIsAlerted`, `Spec => []AlertedIsFailed` |
| `RetriesWait` | `Spec => RetryWaits` |
| `DeliveriesMirrorJobs` | `Spec => []DeliveryMirrorsJob` |
| `AttemptsBounded` | `Spec => []AttemptsAccounted` |

`ExclusiveLease` is not inductive: nothing in it says that the attempt a runner
holds is the one in the row, so a reclaim could hand out the same number twice.
`QueueInv` adds that:

- `TokensIssued`: a runner's attempt number was counted in the row;
- `TokensDiffer`: no two runners hold the same attempt of a job. A claim hands out
  `attempts + 1`, which by `TokensIssued` nobody has;
- `LeaseInForce`: until a lease is overrun, a runner that has not settled its job
  holds the latest attempt of a row that is `processing` and not stale. A claim
  needs a row that is not so, hence a job nobody holds;
- `NoRowNoAttempt` and `FailedMeansExhausted`: for the first attempt and for the
  choice in `processJob`.

The proof goes handler by handler: lemmas say what a claim and a settling statement
do to each part, one lemma for each group of actions shows `QueueInv'`, and
`QueueInvariant` puts them together. `SettledForGood` and `Refinement` follow from
the same invariant: with a lease in force, a settling statement finds the row
`processing`, and every step is a step of `JobLifecycle` on one job or a stutter;
the runner that settles a settled row is astray. `LeasesExclude` needs, besides
`TokensDiffer`, that the runners astray are no more than the overrun leases
(`StrayInv`): a step adds one only with an overrun, or when one astray settles the
job of the runner that has the lease and so is astray no longer (`StraysKept`).
`RetriesWait` compares `Backoff` with the product that does not wrap (`Doubled`,
an induction over the attempts): as long as this fits a duration the two are the
same, and the attempt of a worker is never above that of the row.
The second part of the module adds one invariant per theorem on top of it: where a
request is between its two inserts (`AckInv`), where a runner is between its
failure and the alert (`AlertInv`), and which of the two rows it has written
(`MirrorInv`). `AttemptsAccounted` bounds the attempts beyond `max_attempts` by the
crashes, failed calls and overrun leases. Its invariant, `AccountInv`, counts with
them what is still to come: the attempt that a row waits for, and the runners that
have lost the lease with attempts to go by their own token and may still put the
job back (`Reopeners`). Each of these took a mishap, and none is used twice.

### The decision

| Theorem | States |
|---|---|
| `RecommendationEarned` | `Spec => []RecommendedIsEarned` |
| `LowRiskMeansQuiet` | `Spec => []LowRiskIsQuiet` |
| `WorseningHelpsNot` | `Spec => WorseningNeverHelps` |

They hold for every policy, every relation of patterns and paths and any numbers.
The invariant, `Answers`, is the set of answers GitHub gives; a lemma per function
says what its result implies about its inputs. For `WorseningHelpsNot` the lemma
`Understand` reduces `summarizeChecks` and `RequiredCheckReasons` to whether
something failed, whether something is pending and which checks succeeded.
`Worsening` shows that every step moves these, the files, the findings and the run
in one direction (`Worsens`), and `ScoreGrows`, `RiskGrows`, `BlockingStays` and
`HandingStays` carry the direction through the score, the level, the blocking
reasons and the rules to `DecisionStays`.

### What the model is shown

| Theorem | States |
|---|---|
| `ReviewInputTypeOK` | `Spec => []TypeOK` |
| `DiffWithinBudget`, `DiffCutIsTold`, `DiffCutsOnlyWhenFull` | the three properties of the diff, for any files and limits |
| `DiffNothingLost` | `Spec => []NothingLost` |
| `RejectedHidesNothing` | a policy that was rejected hides no file |
| `ScalarsReadAsWritten` | `Spec => []ScalarsAsWritten`, for files of any lines and any length |
| `ShortListsReadAsWritten` | `Spec => []ShortListsAsWritten`, for any default lists |
| `HidesAsWritten` | `Spec => []HiddenAsWritten` |

The invariant adds that the parameters of `CompressDiff` are fixed before it looks
at a file (`FixedBefore`), that files are listed in their order (`Listed`) and that
a warning goes with the default policy (`DefaultWhenWarned`).

The loop of `Parse` is compared with definitions that look at the whole file. What
is inductive is that they agree on the lines read so far (`Reads`): the section,
subsection and list that the loop carries are those that the next line stands in
(`Places`), and each field of the configuration is what the lines so far give
(`ReadSoFar`). A line at the end changes neither the key of an earlier one
(`KeyOfStays`) nor its rank in its list (`NthStays`). `AppendList` drops the
defaults when the length is theirs, which for a list no longer than the default
one happens only at its first item: this is why `ShortListsAsWritten` holds and
the run `PolicyLists` ends in a counterexample. `HidesAsWritten` adds where the
files looked at so far went (`Sorted`).

`BytesUpTo` is recursive. Instead of an induction over the files, the invariant
`Tallied` says along a behaviour that a function with its equation exists and that
every such function ends at the sum of the two counts.

### Reviews and checks

| Theorem | States |
|---|---|
| `ApprovalRestsOnRun` | `Spec => []ApprovalHasRun` |
| `GovernanceKeepsContract` | `Spec => KeepsContract`: `Governance` implements `ApprovalContract` |
| `RecommendedReviewed` | `Spec => []RecommendedWasReviewed` |
| `RecommendedHandled` | `Spec => []RecommendedIsHandled` |
| `RecommendedRiskAccounted` | `Spec => []RiskAccounted` |
| `GovernanceTypeOK` | `Spec => []TypeOK` |
| `SuccessComplete` | `Spec => SuccessIsComplete` |
| `QuietEnds` | `Spec => []QuietEnd` |
| `DismissalsAreAnswered` | `Spec => []DismissalsAnswered` |
| `OrphansAreAccounted` | `Spec => []OrphansAccounted` |

A check approves on what it read several statements before, so the properties are
not inductive: what is needed is that nothing that was read can become false.
`GovernanceProofs!Inv` has the reason, `OwnRun`: a review at work writes to a run
that is its own and not successful. A successful run is therefore never written
again, what a check has read of the runs stays true until it approves
(`ReadIsTrue`), and so does what it approved on (`ApprovedIsTrue`). The contract
needs no more than this invariant; every step not of the contract leaves the three
mapped variables alone.

`RecommendationProofs!Inv2` continues with what a check knows at each place
(`Advice`), which stays true because findings and risk scores are only added to a
run that is still open. It needs that the files were read after the head
(`FilesFollow`), that a finding is open or dismissed (`FindingsHold`) and that a run
is scored once (`ScoredOnce`). `TablesProofs!Inv3` adds that rows name rows
(`Refers`), that a job is where a handler of its kind can be (`AtHome`) and that
what a review has gone past is stored (`Stored`), from which a run is complete at
the statement that calls it successful.

Without a fault, whatever a table says is in progress has a job that will say
otherwise: `Quiet` names, for the row of the pull request, the commands and the
dismissed findings, where that job is. Jobs interleave on one row, so the invariant
speaks of some job, and a step of another job that writes the row leaves it with
one or settles it. With faults, `OrphansAccounted` bounds the runs left running.
Its invariant counts the runs that no review works on any more (`Abandoned`):
every one of them was left by a review at a fault, and a fault leaves at most one
run of each review behind.

### Installations

| Theorem | States |
|---|---|
| `InstallationsTypeOK` | `Spec => []TypeOK` |
| `OrderedJobsAgree` | `Spec => []OrderedAgree` |
| `RemovalsAudited` | `Spec => []RemovalAudited` |

GitHub grants a repository if the last event that names it turns it on
(`GrantedIsLast`). Jobs that begin in order have one job at the front, with all
before it done and all after it not begun (`BegunInOrder`). The rows agree with the
last events before the front, except for the repositories that its job is treating
(`FrontFollows`, `RowsFollow`); a retry treats them all again, which is why a failed
attempt does no harm. `RemovalsAudited` has two cases: the jobs of lists audit a
row right after they turn it off, whoever else is at work (`AuditedLists`); an
uninstallation finds at its UPDATE the rows that it read only if no other job is at
work (`SelectedIsActive`).

### Patterns

| Theorem | States |
|---|---|
| `GlobMatchesSegments` | `Spec => []MatchesSegments` |
| `GlobMoreStarsMatchMore` | `Spec => []MoreStarsMatchMore` |

Both are about what recursive functions compute for a pattern of any length, so the
proofs go by induction over its positions. The induction theorems of the library
take an operator, which the provers cannot instantiate; `Backwards` states the
principle for a set of positions instead, from the least element of a set of
numbers. `Recursion` shows that a function exists whose value at a position is
given by its values at later ones, hence that `MatchesFrom`, `SegmentFitsFrom` and
`FitsFrom` have the values of their definitions (`MatchesFromIs`,
`SegmentFitsFromIs`, `FitsFromIs`).

`MatchesSegments` is shown in three layers. `InSegment`: if what follows a segment
of the pattern matches only at a slash or at the end, the segment matches whole
segments of the name, those that fit it; a character that is taken apart (`Unread`)
matches none. `SegmentsMatch`: a language in which each segment is read character by
character, or as one token for `**` and the slash behind it, matches what fits, from
the start of each segment on. `AsItIs` and `AsRegexp`: `path.Match` reads every
segment character by character, and `globRegex` reads `**` as one token when it is a
whole segment; it looks two characters ahead, and this is where `Regular` is needed.

For `MoreStarsMatchMore`, `TrimStretched` shows that doubling a star and trimming
slashes commute, `DoubledRegexp` that no token before the star changes, although
`globRegex` looks ahead, and `DoubledMatchMore` that each position matches at least
what it matched.

### Only model-checked

- `EveryJobSettles` and the fairness part of `ImplementsLifecycle`: liveness is
  outside the prover's reach.

## Not modelled

- Webhook signatures and decoding: one request in, one kind of job out.
- HTTP clients, app tokens and LLM providers: seen only through answers that come,
  fail or come late. The choice of the provider and the clean-up of the model's
  findings only prepare such a call or its answer. A severity other than the four
  counts as nothing.
- Pagination of check runs: only the first 100 of a commit are read, and
  `ApprovalInputs` is about what was read.
- Rendering of comments, admin pages, reports and metrics, the command line and
  start-up: no state that two actors share, and no decision that is read back.
- In the policy file: how comments, blanks and quotes are taken off a line, and
  brackets, backslashes and blanks in patterns. A misspelt rule or level does
  what the code does (nothing, or applies to everything), but no document says
  what it should do. `Valid` lets a temperature of `nan` pass, as the code does.
- A force-push that returns to an earlier commit: heads are numbered in the order of
  their pushes, and `RecommendedWasReviewed` and its proof rely on it.
- A name of a check that contains `=`: the decision parses the summary's
  `name=status` at the first one, finds no such required check and blocks.
- The substrings that `isHighRiskPath` looks for besides the patterns: a path that
  contains one is a path that `Matches` a pattern of `HighRiskPaths`.
