--------------------------- MODULE JobQueueProofs ---------------------------
(***************************************************************************)
(* Proofs about the webhook queue, for any number of deliveries, handlers, *)
(* workers and attempts, any capacity of the channel and any number of     *)
(* crashes, store errors and overrun leases.                               *)
(***************************************************************************)
EXTENDS JobQueueRefinement, FiniteSetTheorems, WellFoundedInduction, TLAPS

-----------------------------------------------------------------------------
(* A fact about any sets.                                                  *)

\* The sum of a number and the size of a set.
LEMMA Tally ==
  ASSUME NEW M, NEW N, IsFiniteSet(M), NEW b \in Nat, NEW b2 \in Nat, NEW c \in Nat,
         NEW c2 \in {c, c + 1}, b + Cardinality(M) <= c,
         \/ b2 <= b /\ N \subseteq M
         \/ c2 = c + 1 /\ b2 <= b + 1 /\ N \subseteq M
         \/ c2 = c + 1 /\ b2 <= b /\ \E q : N \subseteq M \cup {q}
         \/ \E r \in M : b2 <= b + 1 /\ N \subseteq M \ {r}
         \/ \E r \in M : b2 <= b /\ \E q : N \subseteq (M \ {r}) \cup {q}
  PROVE  IsFiniteSet(N) /\ b2 + Cardinality(N) <= c2
<1>1. Cardinality(M) \in Nat
  BY FS_CardinalityType
<1>2. ASSUME NEW S, IsFiniteSet(S), N \subseteq S
      PROVE  IsFiniteSet(N) /\ Cardinality(N) \in Nat /\ Cardinality(S) \in Nat
             /\ Cardinality(N) <= Cardinality(S)
  BY <1>2, FS_Subset, FS_CardinalityType
<1>3. CASE b2 <= b /\ N \subseteq M
  BY <1>1, <1>2, <1>3
<1>4. CASE c2 = c + 1 /\ b2 <= b + 1 /\ N \subseteq M
  BY <1>1, <1>2, <1>4
<1>5. CASE c2 = c + 1 /\ b2 <= b /\ \E q : N \subseteq M \cup {q}
  <2>1. PICK q : N \subseteq M \cup {q}
    BY <1>5
  <2>2. IsFiniteSet(M \cup {q}) /\ Cardinality(M \cup {q}) <= Cardinality(M) + 1
    BY <1>1, FS_AddElement
  <2>3. IsFiniteSet(N) /\ Cardinality(N) \in Nat /\ Cardinality(M \cup {q}) \in Nat
        /\ Cardinality(N) <= Cardinality(M \cup {q})
    BY <1>2, <2>1, <2>2
  <2> QED
    BY <1>1, <1>5, <2>2, <2>3
<1>6. ASSUME NEW r \in M, b2 <= b + 1 /\ N \subseteq M \ {r}
      PROVE  IsFiniteSet(N) /\ b2 + Cardinality(N) <= c2
  <2>1. IsFiniteSet(M \ {r}) /\ Cardinality(M \ {r}) = Cardinality(M) - 1
    BY <1>6, FS_RemoveElement
  <2>2. IsFiniteSet(N) /\ Cardinality(N) \in Nat /\ Cardinality(N) <= Cardinality(M \ {r})
    BY <1>2, <1>6, <2>1
  <2> QED
    BY <1>1, <1>6, <2>1, <2>2
<1>7. ASSUME NEW r \in M, NEW q, b2 <= b, N \subseteq (M \ {r}) \cup {q}
      PROVE  IsFiniteSet(N) /\ b2 + Cardinality(N) <= c2
  <2>1. IsFiniteSet(M \ {r}) /\ Cardinality(M \ {r}) = Cardinality(M) - 1
    BY <1>7, FS_RemoveElement
  <2>2. ASSUME NEW S, IsFiniteSet(S), Cardinality(S) = Cardinality(M) - 1
        PROVE  IsFiniteSet(S \cup {q}) /\ Cardinality(S \cup {q}) <= Cardinality(M)
    BY <1>1, <2>2, FS_AddElement
  <2>3. IsFiniteSet(N) /\ Cardinality(N) \in Nat /\ Cardinality((M \ {r}) \cup {q}) \in Nat
        /\ Cardinality(N) <= Cardinality((M \ {r}) \cup {q})
    BY <1>2, <1>7, <2>1, <2>2
  <2> QED
    BY <1>1, <1>7, <2>1, <2>2, <2>3
<1> QED
  BY <1>3, <1>4, <1>5, <1>6, <1>7

USE MaxAttemptsAssumption, ChanCapAssumption, BoundsAssumption,
    NoDeliveryAssumption

-----------------------------------------------------------------------------
(* Type correctness.                                                       *)

\* The initial state is well typed.
LEMMA InitTypeOK == Init => TypeOK
<1> SUFFICES ASSUME Init PROVE TypeOK
  OBVIOUS
<1>1. NoJob \in JobRow
  BY DEF NoJob, JobRow, JobStatus
<1>2. Idle \in HandlerState /\ Idle.pc = "idle"
  BY DEF Idle, HandlerState
<1>3. Free \in RunnerState /\ Free.pc = "idle"
  BY DEF Free, RunnerState
<1>4. QED
  BY <1>1, <1>2, <1>3 DEF Init, TypeOK, JobStatus

\* What a claim writes is well typed.
LEMMA ClaimType ==
  ASSUME TypeOK, NEW r \in Runners, NEW d \in Deliveries, Claim(r, d)
  PROVE  /\ jobs' \in [Deliveries -> JobRow]
         /\ runner' \in [Runners -> RunnerState]
         /\ \A q \in Runners :
              runner'[q].pc # "idle" => runner'[q].job \in Deliveries
         /\ errors' \in Nat
<1> DEFINE row == [status |-> "processing", attempts |-> jobs[d].attempts + 1,
                   due |-> jobs[d].due, stale |-> FALSE]
           hold == [pc |-> "claimed", job |-> d, token |-> jobs[d].attempts + 1]
<1>1. jobs[d] \in JobRow /\ jobs[d].attempts \in Nat /\ jobs[d].due \in BOOLEAN
  BY DEF TypeOK, JobRow
<1>2. row \in JobRow
  BY <1>1 DEF JobRow, JobStatus
<1>3. Claimed(d) = [jobs EXCEPT ![d] = row]
  BY DEF Claimed
<1>4. Claimed(d) \in [Deliveries -> JobRow]
  <2> HIDE DEF row
  <2> QED BY <1>2, <1>3 DEF TypeOK
<1>5. hold \in RunnerState /\ hold.pc = "claimed" /\ hold.job = d
  BY <1>1 DEF RunnerState, HoldingPcs
<1>6. Free \in RunnerState /\ Free.pc = "idle"
  BY DEF Free, RunnerState
<1>7. jobs' \in {jobs, Claimed(d)} /\ errors' \in Nat
  BY DEF Claim, StoreOk, StoreError, TypeOK
<1>8. runner' = [runner EXCEPT ![r] = hold] \/ runner' = [runner EXCEPT ![r] = Free]
  BY DEF Claim
<1> HIDE DEF row, hold
<1>9. QED
  BY <1>4, <1>5, <1>6, <1>7, <1>8 DEF TypeOK

\* The three calls that settle a job, as statements.
LEMMA SettleCases ==
  ASSUME TypeOK, NEW r \in Runners, runner[r].job \in Deliveries,
         CompleteWebhookJob(r) \/ RetryWebhookJob(r) \/ FailWebhookJob(r)
  PROVE  \E s \in {"processed", "retrying", "failed"}, b \in BOOLEAN :
           /\ s \in JobStatus
           /\ Settle(runner[r].job, s, b)
           /\ s = "failed" => ~MayRetry(r)
           /\ s = "retrying" => MayRetry(r) /\ b = ~(RetryDelay(runner[r].token) > 0)
<1> DEFINE wait == ~(RetryDelay(runner[r].token) > 0)
           now  == jobs[runner[r].job].due
<1>1. wait \in BOOLEAN
  OBVIOUS
<1>2. now \in BOOLEAN
  BY DEF TypeOK, JobRow
<1>3. CASE RetryWebhookJob(r)
  BY <1>1, <1>3 DEF RetryWebhookJob, JobStatus
<1>4. CASE CompleteWebhookJob(r)
  BY <1>2, <1>4 DEF CompleteWebhookJob, JobStatus
<1>5. CASE FailWebhookJob(r)
  BY <1>2, <1>5 DEF FailWebhookJob, JobStatus
<1>6. QED
  BY <1>3, <1>4, <1>5

\* What a settling statement writes is well typed.
LEMMA SettleType ==
  ASSUME TypeOK, NEW d \in Deliveries, NEW s \in JobStatus, NEW b \in BOOLEAN,
         Settle(d, s, b)
  PROVE  jobs' \in [Deliveries -> JobRow] /\ errors' \in Nat
<1> DEFINE row == [status |-> s, attempts |-> jobs[d].attempts,
                   due |-> b, stale |-> FALSE]
<1>1. jobs[d].attempts \in Nat
  BY DEF TypeOK, JobRow
<1>2. row \in JobRow
  BY <1>1 DEF JobRow
<1>3. jobs' = [jobs EXCEPT ![d] = row] \/ jobs' = jobs
  BY DEF Settle
<1> HIDE DEF row
<1>4. QED
  BY <1>2, <1>3 DEF TypeOK, Settle, StoreOk, StoreError

\* A runner that moves on keeps its job, and a runner that lets go has none.
LEMMA RunnerMoves ==
  ASSUME TypeOK, NEW r \in Runners, NEW p \in HoldingPcs,
         runner[r].pc # "idle",
         \/ runner' = [runner EXCEPT ![r].pc = p]
         \/ runner' = [runner EXCEPT ![r] = Free]
  PROVE  /\ runner' \in [Runners -> RunnerState]
         /\ \A q \in Runners :
              runner'[q].pc # "idle" => runner'[q].job \in Deliveries
<1> DEFINE moved == [runner[r] EXCEPT !.pc = p]
<1>1. runner[r] \in RunnerState /\ runner[r].job \in Deliveries
  BY DEF TypeOK
<1>2. moved \in RunnerState /\ moved.job \in Deliveries
  BY <1>1 DEF RunnerState
<1>3. Free \in RunnerState /\ Free.pc = "idle"
  BY DEF Free, RunnerState
<1>4. runner' = [runner EXCEPT ![r] = moved] \/ runner' = [runner EXCEPT ![r] = Free]
  OBVIOUS
<1> HIDE DEF moved
<1>5. QED
  BY <1>2, <1>3, <1>4 DEF TypeOK

\* A handler that moves on has a delivery in hand.
LEMMA HandlerMoves ==
  ASSUME TypeOK, NEW h \in Handlers, NEW d \in Deliveries, NEW p,
         p \in {"recorded", "enqueued", "refusing"},
         \/ handler' = [handler EXCEPT ![h] = [pc |-> p, job |-> d]]
         \/ handler[h].pc # "idle" /\ handler' = [handler EXCEPT ![h].pc = p]
         \/ handler' = [handler EXCEPT ![h] = Idle]
         \/ handler' = handler
  PROVE  /\ handler' \in [Handlers -> HandlerState]
         /\ \A g \in Handlers :
              handler'[g].pc # "idle" => handler'[g].job \in Deliveries
<1> DEFINE moved == [handler[h] EXCEPT !.pc = p]
           taken == [pc |-> p, job |-> d]
<1>1. handler[h] \in HandlerState
  BY DEF TypeOK
<1>2. moved \in HandlerState /\ moved.job = handler[h].job
  BY <1>1 DEF HandlerState
<1>3. taken \in HandlerState /\ taken.job = d
  BY DEF HandlerState
<1>4. Idle \in HandlerState /\ Idle.pc = "idle"
  BY DEF Idle, HandlerState
<1>5. \/ handler' = [handler EXCEPT ![h] = taken]
      \/ handler[h].pc # "idle" /\ handler' = [handler EXCEPT ![h] = moved]
      \/ handler' = [handler EXCEPT ![h] = Idle]
      \/ handler' = handler
  OBVIOUS
<1> HIDE DEF moved, taken
<1>6. QED
  BY <1>2, <1>3, <1>4, <1>5 DEF TypeOK

\* A step of a webhook request keeps the types.
LEMMA HandlerStepType ==
  ASSUME TypeOK, NEW h \in Handlers, HandlerStep(h)
  PROVE  TypeOK'
<1>1. ASSUME NEW d \in Deliveries, RecordDelivery(h, d)  PROVE TypeOK'
  <2>1. handler' = [handler EXCEPT ![h] = [pc |-> "recorded", job |-> d]]
          \/ handler' = handler
    BY <1>1 DEF RecordDelivery
  <2>2. deliveries' \in [Deliveries -> JobStatus]
    BY <1>1 DEF RecordDelivery, TypeOK, JobStatus
  <2>3. acked' \subseteq Deliveries /\ errors' \in Nat
    BY <1>1 DEF RecordDelivery, TypeOK, StoreOk, StoreError
  <2>4. QED
    BY <1>1, <2>1, <2>2, <2>3, HandlerMoves DEF TypeOK, RecordDelivery
<1>2. CASE EnqueueWebhookJob(h)
  <2> DEFINE d == handler[h].job
             row == [status |-> "queued", attempts |-> 0, due |-> TRUE,
                     stale |-> FALSE]
  <2>1. d \in Deliveries /\ handler[h].pc # "idle"
    BY <1>2 DEF EnqueueWebhookJob, TypeOK
  <2>2. row \in JobRow
    BY DEF JobRow, JobStatus
  <2>3. WithJob(d) = jobs \/ WithJob(d) = [jobs EXCEPT ![d] = row]
    BY DEF WithJob
  <2>4. jobs' \in {jobs, WithJob(d)} /\ errors' \in Nat
    BY <1>2 DEF EnqueueWebhookJob, StoreOk, StoreError, TypeOK
  <2>5. handler' = [handler EXCEPT ![h].pc = "enqueued"]
          \/ handler' = [handler EXCEPT ![h].pc = "refusing"]
    BY <1>2 DEF EnqueueWebhookJob
  <2> HIDE DEF row, d
  <2>6. jobs' \in [Deliveries -> JobRow]
    BY <2>1, <2>2, <2>3, <2>4 DEF TypeOK
  <2>7. QED
    BY <1>2, <2>1, <2>4, <2>5, <2>6, HandlerMoves DEF TypeOK, EnqueueWebhookJob
<1>3. CASE RefuseDelivery(h)
  <2>1. deliveries' \in [Deliveries -> JobStatus] /\ errors' \in Nat
    BY <1>3 DEF RefuseDelivery, StoreOk, StoreError, TypeOK, JobStatus
  <2>2. handler[h].job \in Deliveries /\ handler' = [handler EXCEPT ![h] = Idle]
    BY <1>3 DEF RefuseDelivery, TypeOK
  <2>3. QED
    BY <1>3, <2>1, <2>2, HandlerMoves DEF TypeOK, RefuseDelivery
<1>4. CASE SignalWorker(h)
  <2>1. handler[h].job \in Deliveries /\ handler' = [handler EXCEPT ![h] = Idle]
    BY <1>4 DEF SignalWorker, TypeOK
  <2>2. signals' \in Seq(Deliveries) /\ acked' \subseteq Deliveries
    BY <1>4, <2>1 DEF SignalWorker, TypeOK
  <2>3. QED
    BY <1>4, <2>1, <2>2, HandlerMoves DEF TypeOK, SignalWorker
<1>5. QED
  BY <1>1, <1>2, <1>3, <1>4 DEF HandlerStep

\* A step of a worker goroutine keeps the types.
LEMMA RunnerStepType ==
  ASSUME TypeOK, NEW r \in Runners, RunnerStep(r)
  PROVE  TypeOK'
<1>1. CASE ReceiveSignal(r)
  <2> DEFINE got == [pc |-> "signalled", job |-> Head(signals), token |-> 0]
  <2>1. Head(signals) \in Deliveries /\ Tail(signals) \in Seq(Deliveries)
    BY <1>1 DEF ReceiveSignal, TypeOK
  <2>2. got \in RunnerState /\ got.job \in Deliveries
    BY <2>1 DEF RunnerState
  <2>3. runner' = [runner EXCEPT ![r] = got]
    BY <1>1 DEF ReceiveSignal
  <2> HIDE DEF got
  <2>4. QED
    BY <1>1, <2>1, <2>2, <2>3 DEF TypeOK, ReceiveSignal
<1>2. CASE ClaimSignalled(r)
  <2>1. runner[r].job \in Deliveries /\ runner[r].pc # "idle"
    BY <1>2 DEF TypeOK, ClaimSignalled
  <2>2. CASE Claim(r, runner[r].job)
    BY <1>2, <2>1, <2>2, ClaimType DEF TypeOK, ClaimSignalled
  <2>3. CASE ~Claimable(runner[r].job)
    <3>1. runner' = [runner EXCEPT ![r] = Free] /\ UNCHANGED <<jobs, errors>>
      BY <1>2, <2>3 DEF ClaimSignalled
    <3>2. "working" \in HoldingPcs
      BY DEF HoldingPcs
    <3>3. QED
      BY <1>2, <2>1, <3>1, <3>2, RunnerMoves DEF TypeOK, ClaimSignalled
  <2>4. QED
    BY <1>2, <2>2, <2>3 DEF ClaimSignalled
<1>3. CASE ClaimNext(r)
  <2>1. PICK d \in Deliveries : Claim(r, d)
    BY <1>3 DEF ClaimNext, NextInLine
  <2>2. QED
    BY <1>3, <2>1, ClaimType DEF TypeOK, ClaimNext
<1>4. CASE MarkProcessing(r)
  <2>1. deliveries' \in [Deliveries -> JobStatus] /\ errors' \in Nat
    BY <1>4 DEF MarkProcessing, MarkDeliveryStatus, StoreOk, StoreError, TypeOK,
                JobStatus
  <2>2. runner' = [runner EXCEPT ![r].pc = "working"] /\ runner[r].pc # "idle"
          /\ "working" \in HoldingPcs
    BY <1>4 DEF MarkProcessing, HoldingPcs
  <2>3. QED
    BY <1>4, <2>1, <2>2, RunnerMoves DEF TypeOK, MarkProcessing
<1>5. CASE ProcessEvent(r)
  <2>1. PICK p \in {"ok", "err"} : runner' = [runner EXCEPT ![r].pc = p]
    BY <1>5 DEF ProcessEvent
  <2>2. p \in HoldingPcs /\ runner[r].pc # "idle"
    BY <1>5 DEF ProcessEvent, HoldingPcs
  <2>3. QED
    BY <1>5, <2>1, <2>2, RunnerMoves DEF TypeOK, ProcessEvent
<1>6. CASE MarkOutcome(r)
  <2>1. deliveries' \in [Deliveries -> JobStatus] /\ errors' \in Nat
    BY <1>6 DEF MarkOutcome, MarkDeliveryStatus, StoreOk, StoreError, TypeOK,
                JobStatus
  <2>2. PICK p \in {"okMarked", "errMarked"} :
          runner' = [runner EXCEPT ![r].pc = p]
    BY <1>6 DEF MarkOutcome
  <2>3. p \in HoldingPcs /\ runner[r].pc # "idle"
    BY <1>6 DEF MarkOutcome, HoldingPcs
  <2>4. QED
    BY <1>6, <2>1, <2>2, <2>3, RunnerMoves DEF TypeOK, MarkOutcome
<1>7. CASE CompleteWebhookJob(r) \/ RetryWebhookJob(r) \/ FailWebhookJob(r)
  <2>1. runner[r].pc # "idle" /\ runner[r].job \in Deliveries
    BY <1>7 DEF CompleteWebhookJob, RetryWebhookJob, FailWebhookJob, TypeOK
  <2>2. PICK s \in JobStatus, b \in BOOLEAN : Settle(runner[r].job, s, b)
    BY <1>7, <2>1, SettleCases
  <2>3. \/ runner' = [runner EXCEPT ![r] = Free]
        \/ runner' = [runner EXCEPT ![r].pc = "alerting"]
    BY <1>7 DEF CompleteWebhookJob, RetryWebhookJob, FailWebhookJob
  <2>4. "alerting" \in HoldingPcs
    BY DEF HoldingPcs
  <2>5. UNCHANGED <<deliveries, signals, handler, acked, alerted, crashes,
                    overruns>>
    BY <1>7 DEF CompleteWebhookJob, RetryWebhookJob, FailWebhookJob
  <2>6. QED
    BY <2>1, <2>2, <2>3, <2>4, <2>5, SettleType, RunnerMoves DEF TypeOK
<1>8. CASE SendAlert(r)
  <2>1. runner[r].pc # "idle" /\ runner' = [runner EXCEPT ![r] = Free]
          /\ "alerting" \in HoldingPcs
    BY <1>8 DEF SendAlert, HoldingPcs
  <2>2. QED
    BY <1>8, <2>1, RunnerMoves DEF TypeOK, SendAlert
<1>9. QED
  BY <1>1, <1>2, <1>3, <1>4, <1>5, <1>6, <1>7, <1>8 DEF RunnerStep

\* The passing of time keeps the types.
LEMMA TimeType ==
  ASSUME TypeOK, NEW d \in Deliveries, BecomeDue(d) \/ LeaseExpires(d)
  PROVE  TypeOK'
<1> DEFINE dueRow   == [jobs[d] EXCEPT !.due = TRUE]
           staleRow == [jobs[d] EXCEPT !.stale = TRUE]
<1>1. dueRow \in JobRow /\ staleRow \in JobRow
  BY DEF TypeOK, JobRow
<1>2. jobs' = [jobs EXCEPT ![d] = dueRow] \/ jobs' = [jobs EXCEPT ![d] = staleRow]
  BY DEF BecomeDue, LeaseExpires
<1>3. overruns' \in Nat
  BY DEF BecomeDue, LeaseExpires, TypeOK
<1> HIDE DEF dueRow, staleRow
<1>4. jobs' \in [Deliveries -> JobRow]
  BY <1>1, <1>2 DEF TypeOK
<1>5. QED
  BY <1>3, <1>4 DEF TypeOK, BecomeDue, LeaseExpires

\* A crash keeps the types.
LEMMA CrashType == TypeOK /\ Crash => TypeOK'
<1> SUFFICES ASSUME TypeOK, Crash PROVE TypeOK'
  OBVIOUS
<1>1. Idle \in HandlerState /\ Idle.pc = "idle"
  BY DEF Idle, HandlerState
<1>2. Free \in RunnerState /\ Free.pc = "idle"
  BY DEF Free, RunnerState
<1>3. QED
  BY <1>1, <1>2 DEF TypeOK, Crash

\* Type correctness: the tables, the channel and the goroutines of the queue
\* only ever hold the values the code puts there.
THEOREM TypeCorrect == Spec => []TypeOK
<1>1. TypeOK /\ [Next]_vars => TypeOK'
  <2>1. TypeOK /\ UNCHANGED vars => TypeOK'
    BY DEF TypeOK, vars
  <2>2. QED
    BY <2>1, HandlerStepType, RunnerStepType, TimeType, CrashType DEF Next
<1>2. QED
  BY <1>1, InitTypeOK, PTL DEF Spec

-----------------------------------------------------------------------------
(* The invariant of the leases.                                            *)

\* The invariant of the leases holds at the start.
LEMMA InitQueueInv == Init => QueueInv
<1> SUFFICES ASSUME Init PROVE QueueInv
  OBVIOUS
<1>1. \A r \in Runners, d \in Deliveries : ~Holds(r, d)
  BY DEF Init, Holds, Free, HoldingPcs
<1>2. \A d \in Deliveries : jobs[d].status = "none" /\ jobs[d].attempts = 0
  BY DEF Init, NoJob
<1>3. QED
  BY <1>1, <1>2, InitTypeOK
     DEF QueueInv, TokensIssued, TokensDiffer, LeaseInForce, Unsettled,
         NoRowNoAttempt, FailedMeansExhausted

\* A step that leaves the table alone and gives no runner a new attempt keeps
\* the invariant.
LEMMA NoNewHolder ==
  ASSUME QueueInv, TypeOK', UNCHANGED <<jobs, overruns>>,
         \A q \in Runners, d \in Deliveries :
           /\ Holds(q, d)' => Holds(q, d) /\ runner'[q].token = runner[q].token
           /\ Unsettled(q, d)' => Unsettled(q, d)
  PROVE  QueueInv'
<1>1. TokensIssued'
  BY DEF QueueInv, TokensIssued
<1>2. TokensDiffer'
  BY DEF QueueInv, TokensDiffer
<1>3. LeaseInForce'
  BY DEF QueueInv, LeaseInForce, Unsettled
<1>4. QED
  BY <1>1, <1>2, <1>3 DEF QueueInv, NoRowNoAttempt, FailedMeansExhausted

\* What a runner's own move means for what it holds.
LEMMA MoveHolds ==
  ASSUME TypeOK, NEW r \in Runners, NEW p \in HoldingPcs,
         runner[r].pc \in HoldingPcs \ {"alerting"},
         runner' = [runner EXCEPT ![r].pc = p]
  PROVE  \A q \in Runners, d \in Deliveries :
           /\ Holds(q, d)' => Holds(q, d) /\ runner'[q].token = runner[q].token
           /\ Unsettled(q, d)' => Unsettled(q, d)
  BY DEF TypeOK, RunnerState, Holds, Unsettled

\* A runner that lets go holds nothing.
LEMMA FreeHolds ==
  ASSUME TypeOK, NEW r \in Runners, runner' = [runner EXCEPT ![r] = Free]
  PROVE  \A q \in Runners, d \in Deliveries :
           /\ Holds(q, d)' => /\ q # r /\ Holds(q, d)
                              /\ runner'[q].token = runner[q].token
           /\ Unsettled(q, d)' => Unsettled(q, d)
  BY DEF TypeOK, RunnerState, Holds, Unsettled, Free, HoldingPcs

\* A claimable job has no runner at work on it while no lease was overrun.
LEMMA ClaimableUnheld ==
  ASSUME QueueInv, overruns = 0, NEW d \in Deliveries, Claimable(d),
         NEW q \in Runners
  PROVE  ~Unsettled(q, d)
  BY DEF QueueInv, LeaseInForce, Claimable, Abandoned

\* A claim keeps the invariant of the leases.
LEMMA ClaimQueueInv ==
  ASSUME QueueInv, TypeOK', NEW r \in Runners, NEW d \in Deliveries,
         Claimable(d), Claim(r, d), UNCHANGED overruns,
         runner[r].pc \notin HoldingPcs
  PROVE  QueueInv'
<1> DEFINE n == jobs[d].attempts
<1>1. TypeOK /\ n \in Nat
  BY DEF QueueInv, TypeOK, JobRow
<1>2. CASE jobs' = jobs
  <2>1. runner' = [runner EXCEPT ![r] = Free]
    <3>1. Claimed(d)[d].attempts = n + 1 /\ n + 1 # n
      BY <1>1 DEF Claimed, TypeOK
    <3>2. QED
      BY <1>2, <3>1 DEF Claim
  <2>2. QED
    BY <1>1, <1>2, <2>1, FreeHolds, NoNewHolder
<1>3. CASE jobs' = Claimed(d)
  <2>1. /\ jobs'[d].status = "processing"
        /\ jobs'[d].attempts = n + 1
        /\ jobs'[d].stale = FALSE
        /\ \A c \in Deliveries : c # d => jobs'[c] = jobs[c]
    BY <1>1, <1>3 DEF Claimed, TypeOK
  <2>2. \/ runner' = [runner EXCEPT ![r] =
                         [pc |-> "claimed", job |-> d, token |-> n + 1]]
        \/ runner' = [runner EXCEPT ![r] = Free]
    BY DEF Claim
  <2>3. \A q \in Runners, c \in Deliveries :
          q # r => /\ Holds(q, c)' <=> Holds(q, c)
                   /\ Unsettled(q, c)' <=> Unsettled(q, c)
                   /\ runner'[q] = runner[q]
    BY <1>1, <2>2 DEF TypeOK, Holds, Unsettled
  <2>4. \A c \in Deliveries :
          Holds(r, c)' => c = d /\ runner'[r].token = n + 1
    BY <1>1, <2>2 DEF TypeOK, Holds, Free, HoldingPcs
  <2>5. \A q \in Runners, c \in Deliveries :
          Holds(q, c) => runner[q].token \in 1 .. jobs[c].attempts
    BY DEF QueueInv, TokensIssued
  <2>6. TokensIssued'
    BY <1>1, <2>1, <2>3, <2>4, <2>5 DEF TokensIssued
  <2>7. TokensDiffer'
    <3> SUFFICES ASSUME NEW c \in Deliveries, NEW q1 \in Runners,
                        NEW q2 \in Runners, q1 # q2, Holds(q1, c)', Holds(q2, c)'
                 PROVE  runner'[q1].token # runner'[q2].token
      BY DEF TokensDiffer
    <3>1. CASE q1 # r /\ q2 # r
      BY <2>3, <3>1 DEF QueueInv, TokensDiffer
    <3>2. CASE q1 = r
      BY <1>1, <2>3, <2>4, <2>5, <3>2
    <3>3. CASE q2 = r
      BY <1>1, <2>3, <2>4, <2>5, <3>3
    <3>4. QED
      BY <3>1, <3>2, <3>3
  <2>8. LeaseInForce'
    <3> SUFFICES ASSUME overruns' = 0, NEW q \in Runners, NEW c \in Deliveries,
                        Unsettled(q, c)'
                 PROVE  /\ runner'[q].token = jobs'[c].attempts
                        /\ jobs'[c].status = "processing"
                        /\ ~jobs'[c].stale
      BY DEF LeaseInForce
    <3>1. Holds(q, c)'
      BY DEF Unsettled
    <3>2. CASE q = r
      BY <2>1, <2>4, <3>1, <3>2
    <3>3. CASE q # r
      <4>1. Unsettled(q, c) /\ c # d
        BY <2>3, <3>3, ClaimableUnheld
      <4>2. QED
        BY <2>1, <2>3, <3>3, <4>1 DEF QueueInv, LeaseInForce
    <3>4. QED
      BY <3>2, <3>3
  <2>9. NoRowNoAttempt' /\ FailedMeansExhausted'
    BY <2>1 DEF QueueInv, NoRowNoAttempt, FailedMeansExhausted
  <2>10. QED
    BY <2>6, <2>7, <2>8, <2>9 DEF QueueInv
<1>4. QED
  BY <1>2, <1>3 DEF Claim

\* A runner settles the job it holds, or loses the statement to an error.
LEMMA SettleQueueInv ==
  ASSUME QueueInv, TypeOK', NEW r \in Runners, NEW d \in Deliveries,
         Unsettled(r, d), NEW s \in {"processed", "retrying", "failed"},
         s = "failed" => ~MayRetry(r),
         NEW b \in BOOLEAN, Settle(d, s, b), UNCHANGED overruns,
         \/ runner' = [runner EXCEPT ![r] = Free]
         \/ runner' = [runner EXCEPT ![r].pc = "alerting"]
  PROVE  QueueInv'
<1>1. TypeOK /\ runner[r].pc \in HoldingPcs \ {"alerting"} /\ runner[r].job = d
        /\ Holds(r, d)
  BY DEF QueueInv, Unsettled, Holds
<1>2. \A q \in Runners, c \in Deliveries :
        /\ Holds(q, c)' => Holds(q, c) /\ runner'[q].token = runner[q].token
        /\ Unsettled(q, c)' => Unsettled(q, c)
  <2>1. CASE runner' = [runner EXCEPT ![r] = Free]
    BY <1>1, <2>1, FreeHolds
  <2>2. CASE runner' = [runner EXCEPT ![r].pc = "alerting"]
    <3>1. "alerting" \in HoldingPcs
      BY DEF HoldingPcs
    <3>2. QED
      BY <1>1, <2>2, <3>1, MoveHolds
  <2>3. QED
    BY <2>1, <2>2
<1>3. CASE jobs' = jobs
  BY <1>2, <1>3, NoNewHolder
<1>4. CASE jobs' # jobs
  <2>1. /\ jobs'[d].status = s
        /\ jobs'[d].attempts = jobs[d].attempts
        /\ \A c \in Deliveries : c # d => jobs'[c] = jobs[c]
    BY <1>1, <1>4 DEF Settle, TypeOK
  <2>2. \A c \in Deliveries : jobs'[c].attempts = jobs[c].attempts
    BY <2>1
  <2>3. TokensIssued' /\ TokensDiffer'
    BY <1>2, <2>2 DEF QueueInv, TokensIssued, TokensDiffer
  <2>4. LeaseInForce'
    <3> SUFFICES ASSUME overruns' = 0, NEW q \in Runners, NEW c \in Deliveries,
                        Unsettled(q, c)'
                 PROVE  /\ runner'[q].token = jobs'[c].attempts
                        /\ jobs'[c].status = "processing"
                        /\ ~jobs'[c].stale
      BY DEF LeaseInForce
    <3>1. Unsettled(q, c) /\ runner'[q].token = runner[q].token
      BY <1>2 DEF Unsettled
    <3>2. q # r
      <4>1. runner'[r].pc \in {"idle", "alerting"}
        BY <1>1 DEF TypeOK, RunnerState, Free
      <4>2. QED
        BY <4>1 DEF Unsettled, Holds, HoldingPcs
    <3>3. c # d
      BY <1>1, <3>1, <3>2 DEF QueueInv, TokensDiffer, LeaseInForce, Unsettled
    <3>4. QED
      BY <2>1, <3>1, <3>3 DEF QueueInv, LeaseInForce
  <2>5. FailedMeansExhausted'
    <3>1. s = "failed" => jobs[d].attempts >= MaxAttempts
      <4>1. runner[r].token \in 1 .. jobs[d].attempts /\ runner[r].token \in Nat
              /\ jobs[d].attempts \in Nat
        BY <1>1 DEF QueueInv, TokensIssued, TypeOK, RunnerState, JobRow
      <4>2. QED
        BY <4>1 DEF MayRetry
    <3>2. QED
      BY <2>1, <3>1 DEF QueueInv, FailedMeansExhausted
  <2>6. NoRowNoAttempt'
    BY <2>1 DEF QueueInv, NoRowNoAttempt
  <2>7. QED
    BY <2>3, <2>4, <2>5, <2>6 DEF QueueInv
<1>5. QED
  BY <1>3, <1>4

\* A webhook request keeps the invariant of the leases.
LEMMA HandlerStepQueueInv ==
  ASSUME QueueInv, TypeOK', NEW h \in Handlers, HandlerStep(h)
  PROVE  QueueInv'
<1>1. UNCHANGED <<runner, overruns>>
  BY DEF HandlerStep, RecordDelivery, EnqueueWebhookJob, RefuseDelivery,
         SignalWorker
<1>2. \A q \in Runners, d \in Deliveries :
        /\ Holds(q, d)' <=> Holds(q, d)
        /\ Unsettled(q, d)' <=> Unsettled(q, d)
  BY <1>1 DEF Holds, Unsettled
<1>3. CASE jobs' = jobs
  BY <1>1, <1>2, <1>3, NoNewHolder
<1>4. CASE jobs' # jobs
  <2> DEFINE d == handler[h].job
  <2>1. EnqueueWebhookJob(h) /\ jobs' = WithJob(d)
    BY <1>4 DEF HandlerStep, RecordDelivery, EnqueueWebhookJob, RefuseDelivery,
                SignalWorker
  <2>2. d \in Deliveries
    BY <2>1 DEF QueueInv, TypeOK, EnqueueWebhookJob
  <2>3. /\ jobs[d].status = "none"
        /\ jobs'[d].status = "queued"
        /\ jobs'[d].attempts = jobs[d].attempts
        /\ \A c \in Deliveries : c # d => jobs'[c] = jobs[c]
    BY <1>4, <2>1, <2>2 DEF WithJob, QueueInv, TypeOK, NoRowNoAttempt
  <2>4. \A q \in Runners : ~Holds(q, d)
    BY <2>2, <2>3 DEF QueueInv, NoRowNoAttempt, TokensIssued
  <2>5. TokensIssued' /\ TokensDiffer'
    BY <1>1, <1>2, <2>2, <2>3 DEF QueueInv, TokensIssued, TokensDiffer
  <2>6. LeaseInForce'
    BY <1>1, <1>2, <2>2, <2>3, <2>4 DEF QueueInv, LeaseInForce, Unsettled
  <2>7. NoRowNoAttempt' /\ FailedMeansExhausted'
    BY <2>2, <2>3 DEF QueueInv, NoRowNoAttempt, FailedMeansExhausted
  <2>8. QED
    BY <2>5, <2>6, <2>7 DEF QueueInv
<1>5. QED
  BY <1>3, <1>4

\* A worker goroutine keeps the invariant of the leases.
LEMMA RunnerStepQueueInv ==
  ASSUME QueueInv, TypeOK', NEW r \in Runners, RunnerStep(r)
  PROVE  QueueInv'
<1>0. TypeOK
  BY DEF QueueInv
<1>1. CASE ReceiveSignal(r)
  <2>1. \A q \in Runners, d \in Deliveries :
          /\ Holds(q, d)' => Holds(q, d) /\ runner'[q].token = runner[q].token
          /\ Unsettled(q, d)' => Unsettled(q, d)
    BY <1>0, <1>1 DEF ReceiveSignal, Holds, Unsettled, HoldingPcs, TypeOK
  <2>2. QED
    BY <1>1, <2>1, NoNewHolder DEF ReceiveSignal
<1>2. CASE ClaimSignalled(r)
  <2>1. runner[r].job \in Deliveries /\ runner[r].pc \notin HoldingPcs
    BY <1>0, <1>2 DEF TypeOK, ClaimSignalled, HoldingPcs
  <2>2. CASE Claimable(runner[r].job) /\ Claim(r, runner[r].job)
    BY <1>2, <2>1, <2>2, ClaimQueueInv DEF ClaimSignalled
  <2>3. CASE runner' = [runner EXCEPT ![r] = Free] /\ UNCHANGED jobs
    BY <1>0, <1>2, <2>3, FreeHolds, NoNewHolder DEF ClaimSignalled
  <2>4. QED
    BY <1>2, <2>2, <2>3 DEF ClaimSignalled
<1>3. CASE ClaimNext(r)
  <2>1. PICK d \in Deliveries : Claim(r, d) /\ Claimable(d)
    BY <1>3 DEF ClaimNext, NextInLine, Claimable
  <2>2. runner[r].pc \notin HoldingPcs
    BY <1>3 DEF ClaimNext, HoldingPcs
  <2>3. QED
    BY <1>3, <2>1, <2>2, ClaimQueueInv DEF ClaimNext
<1>4. CASE MarkProcessing(r) \/ ProcessEvent(r) \/ MarkOutcome(r)
  <2>1. runner[r].pc \in HoldingPcs \ {"alerting"} /\ UNCHANGED <<jobs, overruns>>
    BY <1>4 DEF MarkProcessing, ProcessEvent, MarkOutcome, HoldingPcs
  <2>2. PICK p \in HoldingPcs : runner' = [runner EXCEPT ![r].pc = p]
    BY <1>4 DEF MarkProcessing, ProcessEvent, MarkOutcome, HoldingPcs
  <2>3. QED
    BY <1>0, <2>1, <2>2, MoveHolds, NoNewHolder
<1>5. CASE CompleteWebhookJob(r) \/ RetryWebhookJob(r) \/ FailWebhookJob(r)
  <2>1. runner[r].job \in Deliveries /\ Unsettled(r, runner[r].job)
    BY <1>0, <1>5 DEF CompleteWebhookJob, RetryWebhookJob, FailWebhookJob,
                      TypeOK, Unsettled, Holds, HoldingPcs
  <2>2. PICK s \in {"processed", "retrying", "failed"}, b \in BOOLEAN :
          Settle(runner[r].job, s, b) /\ (s = "failed" => ~MayRetry(r))
    BY <1>0, <1>5, <2>1, SettleCases
  <2>3. /\ UNCHANGED overruns
        /\ \/ runner' = [runner EXCEPT ![r] = Free]
           \/ runner' = [runner EXCEPT ![r].pc = "alerting"]
    BY <1>5 DEF CompleteWebhookJob, RetryWebhookJob, FailWebhookJob
  <2>4. QED
    BY <2>1, <2>2, <2>3, SettleQueueInv
<1>6. CASE SendAlert(r)
  BY <1>0, <1>6, FreeHolds, NoNewHolder DEF SendAlert
<1>7. QED
  BY <1>1, <1>2, <1>3, <1>4, <1>5, <1>6 DEF RunnerStep

\* The passing of time keeps the invariant of the leases.
LEMMA TimeQueueInv ==
  ASSUME QueueInv, TypeOK', NEW d \in Deliveries, BecomeDue(d) \/ LeaseExpires(d)
  PROVE  QueueInv'
<1>1. TypeOK /\ UNCHANGED runner
  BY DEF QueueInv, BecomeDue, LeaseExpires
<1>2. /\ \A c \in Deliveries : /\ jobs'[c].status = jobs[c].status
                               /\ jobs'[c].attempts = jobs[c].attempts
      /\ \A c \in Deliveries : c # d => jobs'[c] = jobs[c]
  <2> DEFINE dueRow   == [jobs[d] EXCEPT !.due = TRUE]
             staleRow == [jobs[d] EXCEPT !.stale = TRUE]
  <2>1. /\ dueRow.status = jobs[d].status /\ dueRow.attempts = jobs[d].attempts
        /\ staleRow.status = jobs[d].status /\ staleRow.attempts = jobs[d].attempts
    BY <1>1 DEF TypeOK, JobRow
  <2>2. jobs' = [jobs EXCEPT ![d] = dueRow] \/ jobs' = [jobs EXCEPT ![d] = staleRow]
    BY DEF BecomeDue, LeaseExpires
  <2> HIDE DEF dueRow, staleRow
  <2>3. QED
    BY <1>1, <2>1, <2>2 DEF TypeOK
<1>3. \A q \in Runners, c \in Deliveries :
        /\ Holds(q, c)' <=> Holds(q, c)
        /\ Unsettled(q, c)' <=> Unsettled(q, c)
  BY <1>1 DEF Holds, Unsettled
<1>4. TokensIssued' /\ TokensDiffer' /\ NoRowNoAttempt' /\ FailedMeansExhausted'
  BY <1>1, <1>2, <1>3 DEF QueueInv, TokensIssued, TokensDiffer, NoRowNoAttempt,
                          FailedMeansExhausted
<1>5. LeaseInForce'
  <2> SUFFICES ASSUME overruns' = 0, NEW q \in Runners, NEW c \in Deliveries,
                      Unsettled(q, c)
               PROVE  /\ runner[q].token = jobs'[c].attempts
                      /\ jobs'[c].status = "processing"
                      /\ ~jobs'[c].stale
    BY <1>1, <1>3 DEF LeaseInForce
  <2>1. overruns = 0
    BY <1>1 DEF BecomeDue, LeaseExpires, TypeOK
  <2>2. /\ runner[q].token = jobs[c].attempts
        /\ jobs[c].status = "processing"
        /\ ~jobs[c].stale
    BY <2>1 DEF QueueInv, LeaseInForce
  <2>3. CASE c # d
    BY <1>2, <2>2, <2>3
  <2>4. CASE c = d
    <3>1. LeaseInUse(d)
      BY <2>2, <2>4 DEF LeaseInUse
    <3>2. FALSE
      BY <1>1, <2>1, <2>2, <2>4, <3>1 DEF BecomeDue, LeaseExpires
    <3>3. QED
      BY <3>2
  <2>5. QED
    BY <2>3, <2>4
<1>6. QED
  BY <1>4, <1>5 DEF QueueInv

\* A crash keeps the invariant of the leases.
LEMMA CrashQueueInv == QueueInv /\ TypeOK' /\ Crash => QueueInv'
<1> SUFFICES ASSUME QueueInv, TypeOK', Crash PROVE QueueInv'
  OBVIOUS
<1>1. \A q \in Runners, d \in Deliveries : ~Holds(q, d)' /\ ~Unsettled(q, d)'
  BY DEF Crash, Holds, Unsettled, Free, HoldingPcs
<1>2. QED
  BY <1>1, NoNewHolder DEF Crash

\* The invariant of the leases holds in every reachable state.
THEOREM QueueInvariant == Spec => []QueueInv
<1>1. QueueInv /\ TypeOK' /\ [Next]_vars => QueueInv'
  <2> SUFFICES ASSUME QueueInv, TypeOK', [Next]_vars PROVE QueueInv'
    OBVIOUS
  <2>1. CASE UNCHANGED vars
    BY <2>1, NoNewHolder DEF vars, Holds, Unsettled
  <2>2. CASE Next
    BY <2>2, HandlerStepQueueInv, RunnerStepQueueInv, TimeQueueInv,
       CrashQueueInv DEF Next
  <2>3. QED
    BY <2>1, <2>2
<1>2. QED
  BY <1>1, InitQueueInv, TypeCorrect, PTL DEF Spec

\* processJob never gives a job up before its last attempt.
THEOREM GivenUpAfterAllAttempts == Spec => []FailedMeansExhausted
<1>1. QueueInv => FailedMeansExhausted
  BY DEF QueueInv
<1>2. QED
  BY <1>1, QueueInvariant, PTL

-----------------------------------------------------------------------------
(* Refinement of JobLifecycle, and settled jobs.                           *)

SameRow(d) == /\ jobs'[d].status = jobs[d].status
              /\ jobs'[d].attempts = jobs[d].attempts

\* The ways a step of the queue changes the job of d, while no lease was
\* overrun.
Opens(d) == /\ jobs[d].status = "none" /\ jobs'[d].status = "queued"
            /\ jobs'[d].attempts = jobs[d].attempts
TriesAgain(d) == /\ jobs[d].status \in {"queued", "retrying", "processing"}
             /\ jobs'[d].status = "processing"
             /\ jobs'[d].attempts = jobs[d].attempts + 1
Settles(d) == /\ jobs[d].status = "processing" /\ jobs[d].attempts > 0
              /\ jobs'[d].status \in {"processed", "retrying", "failed"}
              /\ jobs'[d].status = "failed" => jobs[d].attempts >= MaxAttempts
              /\ jobs'[d].attempts = jobs[d].attempts

\* A claim tries one job once more, or leaves the table alone.
LEMMA ClaimIsTry ==
  ASSUME TypeOK, NEW r \in Runners, NEW d \in Deliveries, Claimable(d), Claim(r, d)
  PROVE  /\ SameRow(d) \/ TriesAgain(d)
         /\ \A c \in Deliveries \ {d} : SameRow(c)
<1>1. jobs' = jobs \/ jobs' = Claimed(d)
  BY DEF Claim
<1>2. CASE jobs' = jobs
  BY <1>2 DEF SameRow
<1>3. CASE jobs' = Claimed(d)
  <2>1. /\ jobs'[d].status = "processing"
        /\ jobs'[d].attempts = jobs[d].attempts + 1
        /\ \A c \in Deliveries \ {d} : jobs'[c] = jobs[c]
    BY <1>3 DEF Claimed, TypeOK
  <2>2. jobs[d].status \in {"queued", "retrying", "processing"}
    BY DEF Claimable, Abandoned
  <2>3. QED
    BY <2>1, <2>2 DEF SameRow, TriesAgain
<1>4. QED
  BY <1>1, <1>2, <1>3

\* A statement of the runner at work settles its job, or fails.
LEMMA SettleIsSettle ==
  ASSUME QueueInv, overruns = 0, NEW r \in Runners, NEW d \in Deliveries,
         Unsettled(r, d), NEW s \in {"processed", "retrying", "failed"},
         s = "failed" => ~MayRetry(r),
         NEW b \in BOOLEAN, Settle(d, s, b)
  PROVE  /\ SameRow(d) \/ Settles(d)
         /\ \A c \in Deliveries \ {d} : SameRow(c)
<1>1. CASE jobs' = jobs
  BY <1>1 DEF SameRow
<1>2. CASE jobs' # jobs
  <2>1. /\ jobs'[d].status = s
        /\ jobs'[d].attempts = jobs[d].attempts
        /\ \A c \in Deliveries \ {d} : jobs'[c] = jobs[c]
    BY <1>2 DEF Settle, TypeOK, QueueInv
  <2>2. jobs[d].status = "processing" /\ runner[r].token = jobs[d].attempts
    BY DEF QueueInv, LeaseInForce
  <2>3. Holds(r, d)
    BY DEF Unsettled
  <2>4. jobs[d].attempts \in Nat /\ jobs[d].attempts > 0
    BY <2>2, <2>3 DEF QueueInv, TypeOK, JobRow, TokensIssued
  <2>5. s = "failed" => jobs[d].attempts >= MaxAttempts
    BY <2>2, <2>4 DEF MayRetry
  <2>6. QED
    BY <2>1, <2>2, <2>4, <2>5 DEF SameRow, Settles
<1>3. QED
  BY <1>1, <1>2

\* Each step changes at most one job, and that in one of the three ways.
LEMMA StepKinds ==
  ASSUME QueueInv, overruns = 0, [Next]_vars
  PROVE  \/ \A c \in Deliveries : SameRow(c)
         \/ \E d \in Deliveries : /\ Opens(d) \/ TriesAgain(d) \/ Settles(d)
                                 /\ \A c \in Deliveries \ {d} : SameRow(c)
<1>0. TypeOK
  BY DEF QueueInv
<1>1. CASE UNCHANGED jobs
  BY <1>1 DEF SameRow
<1>2. ASSUME NEW h \in Handlers, HandlerStep(h), jobs' # jobs
      PROVE  \E d \in Deliveries : /\ Opens(d)
                                   /\ \A c \in Deliveries \ {d} : SameRow(c)
  <2> DEFINE d == handler[h].job
  <2>1. EnqueueWebhookJob(h) /\ jobs' = WithJob(d)
    BY <1>2 DEF HandlerStep, RecordDelivery, EnqueueWebhookJob, RefuseDelivery,
                SignalWorker
  <2>2. d \in Deliveries
    BY <1>0, <2>1 DEF TypeOK, EnqueueWebhookJob
  <2>3. /\ jobs[d].status = "none"
        /\ jobs'[d].status = "queued"
        /\ jobs'[d].attempts = jobs[d].attempts
        /\ \A c \in Deliveries \ {d} : jobs'[c] = jobs[c]
    BY <1>0, <1>2, <2>1, <2>2 DEF WithJob, TypeOK, QueueInv, NoRowNoAttempt
  <2>4. QED
    BY <2>2, <2>3 DEF Opens, SameRow
<1>3. ASSUME NEW r \in Runners, RunnerStep(r), jobs' # jobs
      PROVE  \E d \in Deliveries : /\ SameRow(d) \/ TriesAgain(d) \/ Settles(d)
                                   /\ \A c \in Deliveries \ {d} : SameRow(c)
  <2>1. CASE ClaimSignalled(r)
    <3>1. runner[r].job \in Deliveries
      BY <1>0, <2>1 DEF TypeOK, ClaimSignalled
    <3>2. Claimable(runner[r].job) /\ Claim(r, runner[r].job)
      BY <1>3, <2>1 DEF ClaimSignalled
    <3>3. QED
      BY <1>0, <3>1, <3>2, ClaimIsTry
  <2>2. CASE ClaimNext(r)
    <3>1. PICK d \in Deliveries : Claim(r, d) /\ Claimable(d)
      BY <2>2 DEF ClaimNext, NextInLine, Claimable
    <3>2. QED
      BY <1>0, <3>1, ClaimIsTry
  <2>3. CASE CompleteWebhookJob(r) \/ RetryWebhookJob(r) \/ FailWebhookJob(r)
    <3>1. runner[r].job \in Deliveries /\ Unsettled(r, runner[r].job)
      BY <1>0, <2>3 DEF CompleteWebhookJob, RetryWebhookJob, FailWebhookJob,
                        TypeOK, Unsettled, Holds, HoldingPcs
    <3>2. PICK s \in {"processed", "retrying", "failed"}, b \in BOOLEAN :
            Settle(runner[r].job, s, b) /\ (s = "failed" => ~MayRetry(r))
      BY <1>0, <2>3, <3>1, SettleCases
    <3>3. QED
      BY <3>1, <3>2, SettleIsSettle
  <2>4. QED
    BY <1>3, <2>1, <2>2, <2>3
       DEF RunnerStep, ReceiveSignal, MarkProcessing, ProcessEvent, MarkOutcome,
           SendAlert
<1>4. ASSUME NEW d \in Deliveries, BecomeDue(d) \/ LeaseExpires(d)
      PROVE  \A c \in Deliveries : SameRow(c)
  <2> DEFINE dueRow   == [jobs[d] EXCEPT !.due = TRUE]
             staleRow == [jobs[d] EXCEPT !.stale = TRUE]
  <2>1. /\ dueRow.status = jobs[d].status /\ dueRow.attempts = jobs[d].attempts
        /\ staleRow.status = jobs[d].status /\ staleRow.attempts = jobs[d].attempts
    BY <1>0 DEF TypeOK, JobRow
  <2>2. jobs' = [jobs EXCEPT ![d] = dueRow] \/ jobs' = [jobs EXCEPT ![d] = staleRow]
    BY <1>4 DEF BecomeDue, LeaseExpires
  <2> HIDE DEF dueRow, staleRow
  <2>3. QED
    BY <1>0, <2>1, <2>2 DEF TypeOK, SameRow
<1>5. QED
  BY <1>1, <1>2, <1>3, <1>4 DEF Next, Crash, vars

\* Of the steps of a runner only one that settles its job changes the status of
\* a settled row.
LEMMA SettledRow ==
  ASSUME QueueInv, NEW r \in Runners, RunnerStep(r), NEW d \in Deliveries,
         jobs[d].status \in Terminal, jobs'[d].status # jobs[d].status
  PROVE  Unsettled(r, d) /\ ~Unsettled(r, d)'
<1>0. TypeOK
  BY DEF QueueInv
<1>1. CASE ClaimSignalled(r) \/ ClaimNext(r)
  <2>1. jobs' = jobs \/ \E c \in Deliveries : Claimable(c) /\ jobs' = Claimed(c)
    BY <1>0, <1>1 DEF ClaimSignalled, ClaimNext, NextInLine, Claim, Claimable, TypeOK
  <2>2. ASSUME NEW c \in Deliveries, Claimable(c), jobs' = Claimed(c)  PROVE FALSE
    <3>1. c # d
      BY <2>2 DEF Claimable, Abandoned, Terminal
    <3>2. QED
      BY <1>0, <2>2, <3>1 DEF Claimed, TypeOK
  <2>3. QED
    BY <2>1, <2>2
<1>2. CASE CompleteWebhookJob(r) \/ RetryWebhookJob(r) \/ FailWebhookJob(r)
  <2>1. runner[r].job \in Deliveries /\ Unsettled(r, runner[r].job)
    BY <1>0, <1>2 DEF CompleteWebhookJob, RetryWebhookJob, FailWebhookJob,
                      TypeOK, Unsettled, Holds, HoldingPcs
  <2>2. PICK s \in {"processed", "retrying", "failed"}, b \in BOOLEAN :
          Settle(runner[r].job, s, b)
    BY <1>0, <1>2, <2>1, SettleCases
  <2>3. runner[r].job = d
    BY <1>0, <2>1, <2>2 DEF Settle, TypeOK
  <2>4. runner'[r].pc \in {"idle", "alerting"}
    BY <1>0, <1>2 DEF CompleteWebhookJob, RetryWebhookJob, FailWebhookJob,
                      TypeOK, RunnerState, Free
  <2>5. QED
    BY <2>1, <2>3, <2>4 DEF Unsettled, Holds, HoldingPcs
<1>3. QED
  BY <1>1, <1>2 DEF RunnerStep, ReceiveSignal, MarkProcessing, ProcessEvent, MarkOutcome,
                    SendAlert

\* A settled row changes its status only by what a runner had still to write
\* whose lease was over, through any crashes, store errors and overruns.
THEOREM SettledForGood == Spec => TerminalStays
<1>1. QueueInv /\ [Next]_vars =>
        [\A d \in Deliveries :
           jobs[d].status \in Terminal /\ jobs'[d].status # jobs[d].status =>
             /\ overruns > 0
             /\ \E r \in Strays(d) : ~Unsettled(r, d)']_vars
  <2> SUFFICES ASSUME QueueInv, [Next]_vars, NEW d \in Deliveries,
                      jobs[d].status \in Terminal, jobs'[d].status # jobs[d].status
               PROVE  overruns > 0 /\ \E r \in Strays(d) : ~Unsettled(r, d)'
    OBVIOUS
  <2>0. TypeOK
    BY DEF QueueInv
  <2>1. ASSUME NEW r \in Runners, RunnerStep(r)
        PROVE  overruns > 0 /\ \E q \in Strays(d) : ~Unsettled(q, d)'
    <3>1. Unsettled(r, d) /\ ~Unsettled(r, d)'
      BY <2>1, SettledRow
    <3>2. jobs[d].status # "processing"
      BY DEF Terminal
    <3>3. r \in Strays(d)
      BY <3>1, <3>2 DEF Strays, InForce
    <3>4. overruns > 0
      BY <2>0, <3>1, <3>2 DEF QueueInv, LeaseInForce, TypeOK
    <3>5. QED
      BY <3>1, <3>3, <3>4
  <2>2. ASSUME NEW h \in Handlers, HandlerStep(h)  PROVE FALSE
    <3>1. jobs' = jobs \/ jobs' = WithJob(handler[h].job)
      BY <2>2 DEF HandlerStep, RecordDelivery, EnqueueWebhookJob, RefuseDelivery, SignalWorker
    <3>2. jobs[d].status # "none"
      BY DEF Terminal
    <3>3. QED
      BY <2>0, <3>1, <3>2 DEF WithJob, TypeOK
  <2>3. ASSUME NEW c \in Deliveries, BecomeDue(c) \/ LeaseExpires(c)  PROVE FALSE
    <3> DEFINE dueRow   == [jobs[c] EXCEPT !.due = TRUE]
               staleRow == [jobs[c] EXCEPT !.stale = TRUE]
    <3>1. dueRow.status = jobs[c].status /\ staleRow.status = jobs[c].status
      BY <2>0 DEF TypeOK, JobRow
    <3>2. jobs' = [jobs EXCEPT ![c] = dueRow] \/ jobs' = [jobs EXCEPT ![c] = staleRow]
      BY <2>3 DEF BecomeDue, LeaseExpires
    <3> HIDE DEF dueRow, staleRow
    <3>3. QED
      BY <2>0, <3>1, <3>2 DEF TypeOK
  <2>4. CASE UNCHANGED jobs
    BY <2>4
  <2>5. QED
    BY <2>1, <2>2, <2>3, <2>4 DEF Next, Crash, vars
<1>2. QED
  BY <1>1, QueueInvariant, PTL DEF Spec, TerminalStays

\* With a bound of 0 no lease is ever overrun.
LEMMA NoOverruns ==
  ASSUME MaxOverruns = 0
  PROVE  Spec => [](overruns = 0)
<1>1. Init => overruns = 0
  BY DEF Init
<1>2. TypeOK /\ overruns = 0 /\ [Next]_vars => (overruns = 0)'
  BY DEF Next, vars, HandlerStep, RecordDelivery, EnqueueWebhookJob,
         RefuseDelivery, SignalWorker, RunnerStep, ReceiveSignal,
         ClaimSignalled, ClaimNext, MarkProcessing, ProcessEvent, MarkOutcome,
         CompleteWebhookJob, RetryWebhookJob, FailWebhookJob, SendAlert,
         BecomeDue, LeaseExpires, Crash
<1>3. QED
  BY <1>1, <1>2, TypeCorrect, PTL DEF Spec

\* Without overrun leases the queue implements JobLifecycle: every behaviour
\* of the tables, goroutines and crashes, seen through the job rows, is a
\* behaviour of the abstract jobs.
THEOREM Refinement ==
  ASSUME MaxOverruns = 0
  PROVE  Spec => Lifecycle!Spec
<1>1. Init => Lifecycle!Init
  BY DEF Init, Lifecycle!Init, Phase, Tries, PhaseOf, NoJob
<1>2. QueueInv /\ overruns = 0 /\ [Next]_vars => [Lifecycle!Next]_(Lifecycle!vars)
  <2> SUFFICES ASSUME QueueInv, overruns = 0, [Next]_vars
               PROVE  [Lifecycle!Next]_(Lifecycle!vars)
    OBVIOUS
  <2>1. CASE \A c \in Deliveries : SameRow(c)
    BY <2>1 DEF SameRow, Lifecycle!vars, Phase, Tries
  <2>2. ASSUME NEW d \in Deliveries, Opens(d) \/ TriesAgain(d) \/ Settles(d),
               \A c \in Deliveries \ {d} : SameRow(c)
        PROVE  [Lifecycle!Next]_(Lifecycle!vars)
    <3>1. /\ Phase' = [Phase EXCEPT ![d] = PhaseOf(jobs'[d].status)]
          /\ Tries' = [Tries EXCEPT ![d] = jobs'[d].attempts]
      BY <2>2 DEF SameRow, Phase, Tries
    <3>2. Phase[d] = PhaseOf(jobs[d].status) /\ Tries[d] = jobs[d].attempts
      BY DEF Phase, Tries
    <3>3. CASE Opens(d)
      <4>1. Phase[d] = "absent" /\ Phase' = [Phase EXCEPT ![d] = "open"]
        BY <3>1, <3>2, <3>3 DEF Opens, PhaseOf
      <4>2. Tries' = Tries
        BY <3>1, <3>3 DEF Opens, Tries
      <4>3. QED
        BY <4>1, <4>2 DEF Lifecycle!Next, Lifecycle!Open
    <3>4. CASE TriesAgain(d)
      <4>1. Phase[d] = "open" /\ PhaseOf(jobs'[d].status) = "open"
        BY <3>2, <3>4 DEF TriesAgain, PhaseOf
      <4>2. Phase' = Phase /\ Tries' = [Tries EXCEPT ![d] = Tries[d] + 1]
        BY <3>1, <3>2, <3>4, <4>1 DEF TriesAgain, Phase
      <4>3. QED
        BY <4>1, <4>2 DEF Lifecycle!Next, Lifecycle!Try
    <3>5. CASE Settles(d)
      <4>1. Phase[d] = "open" /\ Tries[d] > 0 /\ Tries' = Tries
        BY <3>1, <3>2, <3>5 DEF Settles, PhaseOf, Tries
      <4>2. CASE jobs'[d].status = "retrying"
        <5>1. Phase' = Phase
          BY <3>1, <4>1, <4>2 DEF PhaseOf, Phase
        <5>2. QED
          BY <4>1, <5>1 DEF Lifecycle!vars
      <4>3. CASE jobs'[d].status = "processed"
        <5>1. Phase' = [Phase EXCEPT ![d] = "done"]
          BY <3>1, <4>3 DEF PhaseOf
        <5>2. QED
          BY <4>1, <5>1 DEF Lifecycle!Next, Lifecycle!Finish
      <4>4. CASE jobs'[d].status = "failed"
        <5>1. Phase' = [Phase EXCEPT ![d] = "dead"] /\ Tries[d] >= MaxAttempts
          BY <3>1, <3>2, <3>5, <4>4 DEF PhaseOf, Settles
        <5>2. QED
          BY <4>1, <5>1 DEF Lifecycle!Next, Lifecycle!GiveUp
      <4>5. QED
        BY <3>5, <4>2, <4>3, <4>4 DEF Settles
    <3>6. QED
      BY <2>2, <3>3, <3>4, <3>5
  <2>3. QED
    BY <2>1, <2>2, StepKinds
<1>3. QED
  BY <1>1, <1>2, QueueInvariant, NoOverruns, PTL DEF Spec, Lifecycle!Spec

-----------------------------------------------------------------------------
(***************************************************************************)
(* What the sender of a webhook and the operator are told,                 *)
(* acknowledgements, delivery rows and alerts against the job rows, and    *)
(* how often a job is attempted, on top of the invariant of the leases.    *)
(***************************************************************************)

HIDE NoDeliveryAssumption
HIDE BoundsAssumption
HIDE ChanCapAssumption
HIDE MaxAttemptsAssumption

\* A row of webhook_jobs is never deleted.
LEMMA RowsStay ==
  ASSUME QueueInv, [Next]_vars, NEW d \in Deliveries, jobs[d].status # "none"
  PROVE  jobs'[d].status # "none"
<1>0. TypeOK
  BY DEF QueueInv
<1>1. ASSUME NEW h \in Handlers, HandlerStep(h)
      PROVE  jobs'[d].status # "none"
  <2>1. jobs' = jobs \/ jobs' = WithJob(handler[h].job)
    BY <1>1 DEF HandlerStep, RecordDelivery, EnqueueWebhookJob, RefuseDelivery, SignalWorker
  <2>2. QED
    BY <1>0, <2>1 DEF WithJob, TypeOK
<1>2. ASSUME NEW r \in Runners, RunnerStep(r)
      PROVE  jobs'[d].status # "none"
  <2>1. CASE ClaimSignalled(r) \/ ClaimNext(r)
    <3>1. jobs' = jobs \/ \E c \in Deliveries : jobs' = Claimed(c)
      BY <1>0, <2>1 DEF ClaimSignalled, ClaimNext, NextInLine, Claim, TypeOK
    <3>2. QED
      BY <1>0, <3>1 DEF Claimed, TypeOK
  <2>2. CASE CompleteWebhookJob(r) \/ RetryWebhookJob(r) \/ FailWebhookJob(r)
    <3>1. runner[r].job \in Deliveries
      BY <1>0, <2>2 DEF CompleteWebhookJob, RetryWebhookJob, FailWebhookJob, TypeOK
    <3>2. PICK s \in {"processed", "retrying", "failed"}, b \in BOOLEAN :
            Settle(runner[r].job, s, b)
      BY <1>0, <2>2, <3>1, SettleCases
    <3>3. QED
      BY <1>0, <3>1, <3>2 DEF Settle, TypeOK
  <2>3. CASE UNCHANGED jobs
    BY <2>3
  <2>4. QED
    BY <1>2, <2>1, <2>2, <2>3
       DEF RunnerStep, ReceiveSignal, MarkProcessing, ProcessEvent, MarkOutcome, SendAlert
<1>3. ASSUME NEW c \in Deliveries, BecomeDue(c) \/ LeaseExpires(c)
      PROVE  jobs'[d].status # "none"
  BY <1>0, <1>3 DEF BecomeDue, LeaseExpires, TypeOK, JobRow
<1>4. CASE UNCHANGED jobs
  BY <1>4
<1>5. QED
  BY <1>1, <1>2, <1>3, <1>4 DEF Next, Crash, vars

\* A runner only has jobs in hand that have a row.
LEMMA HeldHasRow ==
  ASSUME QueueInv, NEW r \in Runners, NEW d \in Deliveries, Holds(r, d)
  PROVE  jobs[d].status # "none"
  BY DEF QueueInv, TokensIssued, NoRowNoAttempt

-----------------------------------------------------------------------------
(* Acknowledgements.                                                       *)

HasJob(d) == \/ jobs[d].status # "none"
             \/ \E h \in Handlers : handler[h] = [pc |-> "recorded", job |-> d]

\* Without crashes and errors, what was recorded or acknowledged has a job or
\* gets one from the request that recorded it.
AckInv ==
  crashes = 0 /\ errors = 0 =>
    /\ \A d \in Deliveries : deliveries[d] # "none" \/ d \in acked => HasJob(d)
    /\ \A h \in Handlers : handler[h].pc = "enqueued" =>
                             jobs[handler[h].job].status # "none"
    /\ \A h \in Handlers : handler[h].pc # "refusing"

\* Steps of the handlers keep AckInv.
LEMMA HandlerAckInv ==
  ASSUME QueueInv, TypeOK', AckInv, NEW h \in Handlers, HandlerStep(h)
  PROVE  AckInv'
<1> SUFFICES ASSUME crashes' = 0, errors' = 0
             PROVE  /\ \A d \in Deliveries : deliveries'[d] # "none" \/ d \in acked' => HasJob(d)'
                    /\ \A g \in Handlers : handler'[g].pc = "enqueued" =>
                                             jobs'[handler'[g].job].status # "none"
                    /\ \A g \in Handlers : handler'[g].pc # "refusing"
  BY DEF AckInv
<1>0. TypeOK /\ crashes = 0 /\ errors = 0
  BY DEF QueueInv, TypeOK, HandlerStep, RecordDelivery, EnqueueWebhookJob, RefuseDelivery,
         SignalWorker, StoreOk, StoreError
<1>1. /\ \A d \in Deliveries : deliveries[d] # "none" \/ d \in acked => HasJob(d)
      /\ \A g \in Handlers : handler[g].pc = "enqueued" => jobs[handler[g].job].status # "none"
      /\ \A g \in Handlers : handler[g].pc # "refusing"
  BY <1>0 DEF AckInv
<1>2. ~StoreError
  BY <1>0 DEF StoreError
<1>3. ASSUME NEW d \in Deliveries, RecordDelivery(h, d)
      PROVE  /\ \A c \in Deliveries : deliveries'[c] # "none" \/ c \in acked' => HasJob(c)'
             /\ \A g \in Handlers : handler'[g].pc = "enqueued" =>
                                      jobs'[handler'[g].job].status # "none"
             /\ \A g \in Handlers : handler'[g].pc # "refusing"
  <2>1. handler[h].pc = "idle" /\ UNCHANGED jobs
    BY <1>3 DEF RecordDelivery
  <2>2. CASE deliveries[d] = "none"
    <3>1. /\ deliveries' = [deliveries EXCEPT ![d] = "queued"]
          /\ handler' = [handler EXCEPT ![h] = [pc |-> "recorded", job |-> d]]
          /\ UNCHANGED acked
      BY <1>2, <1>3, <2>2 DEF RecordDelivery
    <3>2. handler'[h] = [pc |-> "recorded", job |-> d]
            /\ \A g \in Handlers : g # h => handler'[g] = handler[g]
      BY <1>0, <3>1 DEF TypeOK
    <3>3. \A c \in Deliveries : HasJob(c) => HasJob(c)'
      BY <2>1, <3>2 DEF HasJob
    <3>4. HasJob(d)'
      BY <3>2 DEF HasJob
    <3>5. QED
      BY <1>0, <1>1, <2>1, <3>1, <3>2, <3>3, <3>4 DEF TypeOK
  <2>3. CASE deliveries[d] # "none"
    <3>1. acked' = acked \cup {d} /\ UNCHANGED <<deliveries, handler>>
      BY <1>2, <1>3, <2>3 DEF RecordDelivery
    <3>2. QED
      BY <1>1, <2>1, <2>3, <3>1 DEF HasJob
  <2>4. QED
    BY <2>2, <2>3
<1>4. CASE EnqueueWebhookJob(h)
  <2> DEFINE d == handler[h].job
  <2>1. /\ handler[h].pc = "recorded"
        /\ jobs' = WithJob(d)
        /\ handler' = [handler EXCEPT ![h].pc = "enqueued"]
        /\ UNCHANGED <<deliveries, acked>>
    BY <1>2, <1>4 DEF EnqueueWebhookJob
  <2>2. d \in Deliveries
    BY <1>0, <2>1 DEF TypeOK
  <2>3. /\ jobs'[d].status # "none"
        /\ \A c \in Deliveries : jobs[c].status # "none" => jobs'[c].status # "none"
    BY <1>0, <2>1, <2>2 DEF WithJob, TypeOK
  <2>4. /\ handler'[h].pc = "enqueued" /\ handler'[h].job = d
        /\ \A g \in Handlers : g # h => handler'[g] = handler[g]
    BY <1>0, <2>1 DEF TypeOK, HandlerState
  <2>5. \A c \in Deliveries : HasJob(c) => HasJob(c)'
    <3> SUFFICES ASSUME NEW c \in Deliveries, NEW g \in Handlers,
                        handler[g] = [pc |-> "recorded", job |-> c]
                 PROVE  HasJob(c)'
      BY <2>3 DEF HasJob
    <3>1. CASE g = h
      BY <2>3, <3>1 DEF HasJob
    <3>2. CASE g # h
      BY <2>4, <3>2 DEF HasJob
    <3>3. QED
      BY <3>1, <3>2
  <2>6. QED
    BY <1>0, <1>1, <2>1, <2>3, <2>4, <2>5 DEF TypeOK
<1>5. CASE RefuseDelivery(h)
  BY <1>1, <1>5 DEF RefuseDelivery
<1>6. CASE SignalWorker(h)
  <2>1. /\ handler[h].pc = "enqueued"
        /\ acked' = acked \cup {handler[h].job}
        /\ handler' = [handler EXCEPT ![h] = Idle]
        /\ UNCHANGED <<deliveries, jobs>>
    BY <1>6 DEF SignalWorker
  <2>2. handler'[h].pc = "idle" /\ \A g \in Handlers : g # h => handler'[g] = handler[g]
    BY <1>0, <2>1 DEF TypeOK, Idle
  <2>3. \A c \in Deliveries : HasJob(c) => HasJob(c)'
    BY <2>1, <2>2 DEF HasJob
  <2>4. \A c \in Deliveries : c = handler[h].job => HasJob(c)'
    BY <1>1, <2>1 DEF HasJob
  <2>5. QED
    BY <1>0, <1>1, <2>1, <2>2, <2>3, <2>4 DEF TypeOK
<1>7. QED
  BY <1>3, <1>4, <1>5, <1>6 DEF HandlerStep

\* A step that is no handler's leaves the requests alone and reports on
\* deliveries that have a job.
LEMMA RunnerReports ==
  ASSUME QueueInv, NEW r \in Runners, RunnerStep(r)
  PROVE  /\ UNCHANGED <<handler, acked, crashes>>
         /\ \A d \in Deliveries : deliveries'[d] # deliveries[d] => Holds(r, d)
<1>0. TypeOK
  BY DEF QueueInv
<1>1. CASE UNCHANGED deliveries
  BY <1>1 DEF RunnerStep, ReceiveSignal, ClaimSignalled, ClaimNext, MarkProcessing,
              ProcessEvent, MarkOutcome, CompleteWebhookJob, RetryWebhookJob,
              FailWebhookJob, SendAlert
<1>2. CASE MarkProcessing(r) \/ MarkOutcome(r)
  <2>1. runner[r].pc \in HoldingPcs /\ runner[r].job \in Deliveries
    BY <1>0, <1>2 DEF MarkProcessing, MarkOutcome, HoldingPcs, TypeOK
  <2>2. \/ UNCHANGED deliveries
        \/ \E s \in JobStatus : deliveries' = [deliveries EXCEPT ![runner[r].job] = s]
    BY <1>2 DEF MarkProcessing, MarkOutcome, MarkDeliveryStatus, JobStatus
  <2>3. QED
    BY <1>0, <1>2, <2>1, <2>2 DEF MarkProcessing, MarkOutcome, Holds, TypeOK
<1>3. QED
  BY <1>1, <1>2 DEF RunnerStep, ReceiveSignal, ClaimSignalled, ClaimNext, ProcessEvent,
                    CompleteWebhookJob, RetryWebhookJob, FailWebhookJob, SendAlert

\* Errors and crashes are only counted up.
LEMMA CountersGrow ==
  ASSUME TypeOK, [Next]_vars
  PROVE  /\ crashes' = 0 => crashes = 0
         /\ errors' = 0 => errors = 0
         /\ overruns' = 0 => overruns = 0
<1> DEFINE Grown == /\ crashes' = crashes \/ crashes' = crashes + 1
                    /\ errors' = errors \/ errors' = errors + 1
                    /\ overruns' = overruns \/ overruns' = overruns + 1
<1>1. ASSUME NEW h \in Handlers, HandlerStep(h)  PROVE Grown
  BY <1>1 DEF HandlerStep, RecordDelivery, EnqueueWebhookJob, RefuseDelivery, SignalWorker,
              StoreOk, StoreError
<1>2. ASSUME NEW r \in Runners, RunnerStep(r)  PROVE Grown
  <2>1. CASE ReceiveSignal(r) \/ ProcessEvent(r) \/ SendAlert(r)
    BY <2>1 DEF ReceiveSignal, ProcessEvent, SendAlert
  <2>2. CASE ClaimSignalled(r) \/ ClaimNext(r)
    BY <2>2 DEF ClaimSignalled, ClaimNext, Claim, StoreOk, StoreError
  <2>3. CASE MarkProcessing(r) \/ MarkOutcome(r)
    BY <2>3 DEF MarkProcessing, MarkOutcome, MarkDeliveryStatus, StoreOk, StoreError
  <2>4. CASE CompleteWebhookJob(r) \/ RetryWebhookJob(r) \/ FailWebhookJob(r)
    BY <2>4 DEF CompleteWebhookJob, RetryWebhookJob, FailWebhookJob, Settle, StoreOk, StoreError
  <2>5. QED
    BY <1>2, <2>1, <2>2, <2>3, <2>4 DEF RunnerStep
<1>3. ASSUME NEW d \in Deliveries, BecomeDue(d) \/ LeaseExpires(d)  PROVE Grown
  BY <1>3 DEF BecomeDue, LeaseExpires
<1>4. ASSUME Crash \/ UNCHANGED vars  PROVE Grown
  BY <1>4 DEF Crash, vars
<1>5. Grown
  BY <1>1, <1>2, <1>3, <1>4 DEF Next
<1>6. QED
  BY <1>5 DEF TypeOK

\* A delivery that was answered with 202 has a job, or a request is about to
\* enqueue it, unless a crash or a store error came in between.
THEOREM AcknowledgedHasJob == Spec => []AckedHasJob
<1>1. Init => AckInv
  BY DEF Init, AckInv, Idle
<1>2. QueueInv /\ TypeOK' /\ AckInv /\ [Next]_vars => AckInv'
  <2> SUFFICES ASSUME QueueInv, TypeOK', AckInv, [Next]_vars
               PROVE  AckInv'
    OBVIOUS
  <2>1. ASSUME NEW h \in Handlers, HandlerStep(h)  PROVE AckInv'
    BY <2>1, HandlerAckInv
  <2>2. ASSUME UNCHANGED <<handler, acked, crashes>>,
               \A d \in Deliveries : deliveries'[d] # deliveries[d] => jobs[d].status # "none"
        PROVE  AckInv'
    <3> SUFFICES ASSUME crashes' = 0, errors' = 0
                 PROVE  /\ \A d \in Deliveries :
                             deliveries'[d] # "none" \/ d \in acked' => HasJob(d)'
                        /\ \A h \in Handlers :
                             handler'[h].pc = "enqueued" =>
                               jobs'[handler'[h].job].status # "none"
                        /\ \A h \in Handlers : handler'[h].pc # "refusing"
      BY DEF AckInv
    <3>1. TypeOK /\ crashes = 0 /\ errors = 0
      BY CountersGrow DEF QueueInv
    <3>2. \A d \in Deliveries : jobs[d].status # "none" => jobs'[d].status # "none"
      BY RowsStay
    <3>3. \A d \in Deliveries : HasJob(d) => HasJob(d)'
      BY <2>2, <3>2 DEF HasJob
    <3>4. \A d \in Deliveries : deliveries[d] # "none" \/ d \in acked => HasJob(d)
      BY <3>1 DEF AckInv
    <3>5. \A d \in Deliveries : jobs[d].status # "none" => HasJob(d)'
      BY <3>2 DEF HasJob
    <3>6. QED
      BY <2>2, <3>1, <3>2, <3>3, <3>4, <3>5 DEF AckInv, TypeOK
  <2>3. ASSUME NEW r \in Runners, RunnerStep(r)  PROVE AckInv'
    BY <2>2, <2>3, RunnerReports, HeldHasRow
  <2>4. ASSUME NEW d \in Deliveries, BecomeDue(d) \/ LeaseExpires(d)  PROVE AckInv'
    BY <2>2, <2>4 DEF BecomeDue, LeaseExpires
  <2>5. CASE Crash
    BY <2>5 DEF Crash, AckInv, QueueInv, TypeOK
  <2>6. CASE UNCHANGED vars
    BY <2>2, <2>6 DEF vars
  <2>7. QED
    BY <2>1, <2>3, <2>4, <2>5, <2>6 DEF Next
<1>3. QueueInv /\ AckInv => AckedHasJob
  BY DEF AckInv, AckedHasJob, HasJob, QueueInv, TypeOK
<1>4. QED
  BY <1>1, <1>2, <1>3, TypeCorrect, QueueInvariant, PTL DEF Spec

-----------------------------------------------------------------------------
(* Alerts.                                                                 *)

\* Every job that failed was alerted or is about to be, and every alert is of
\* a failed job, also while the worker is about to send it.
AlertInv ==
  /\ FailedIsAlerted
  /\ errors = 0 /\ overruns = 0 =>
       \A d \in Deliveries :
         (d \in alerted \/ \E r \in Runners : Holds(r, d) /\ runner[r].pc = "alerting")
           => jobs[d].status = "failed"

\* A failed job stays failed, and no runner is at work on it.
LEMMA FailedStays ==
  ASSUME QueueInv, overruns = 0, [Next]_vars, NEW d \in Deliveries,
         jobs[d].status = "failed"
  PROVE  jobs'[d].status = "failed" /\ \A r \in Runners : ~Unsettled(r, d)
<1>1. ~Opens(d) /\ ~TriesAgain(d) /\ ~Settles(d)
  BY DEF Opens, TriesAgain, Settles
<1>2. SameRow(d)
  BY <1>1, StepKinds
<1>3. QED
  BY <1>2 DEF SameRow, QueueInv, LeaseInForce

\* FailWebhookJob and sendAlert keep AlertInv.
LEMMA GiveUpAlertInv ==
  ASSUME QueueInv, TypeOK', AlertInv, [Next]_vars, NEW r \in Runners,
         FailWebhookJob(r) \/ SendAlert(r)
  PROVE  AlertInv'
<1> DEFINE d == runner[r].job
<1>0. TypeOK
  BY DEF QueueInv
<1>1. CASE FailWebhookJob(r)
  <2>1. d \in Deliveries /\ Holds(r, d) /\ Unsettled(r, d)
    BY <1>0, <1>1 DEF FailWebhookJob, TypeOK, Holds, Unsettled, HoldingPcs
  <2>2. /\ runner' = [runner EXCEPT ![r].pc = "alerting"]
        /\ Settle(d, "failed", jobs[d].due)
        /\ UNCHANGED <<alerted, crashes, overruns>>
    BY <1>1 DEF FailWebhookJob
  <2>3. /\ runner'[r].pc = "alerting" /\ runner'[r].job = d
        /\ \A q \in Runners : q # r => runner'[q] = runner[q]
    BY <1>0, <2>2 DEF TypeOK, RunnerState
  <2>4. \A c \in Deliveries : c # d => jobs'[c] = jobs[c]
    BY <1>0, <2>1, <2>2 DEF Settle, TypeOK
  <2>5. FailedIsAlerted'
    <3> SUFFICES ASSUME crashes = 0, NEW c \in Deliveries,
                        jobs'[c].status = "failed", c \notin alerted
                 PROVE  \E q \in Runners : Holds(q, c)' /\ runner'[q].pc = "alerting"
      BY <2>2 DEF FailedIsAlerted
    <3>1. CASE c = d
      BY <2>3, <3>1 DEF Holds, HoldingPcs
    <3>2. CASE c # d
      <4>1. PICK q \in Runners : Holds(q, c) /\ runner[q].pc = "alerting"
        BY <2>4, <3>2 DEF AlertInv, FailedIsAlerted
      <4>2. q # r
        BY <1>1, <4>1 DEF FailWebhookJob
      <4>3. QED
        BY <2>3, <4>1, <4>2 DEF Holds
    <3>3. QED
      BY <3>1, <3>2
  <2>6. ASSUME errors' = 0, overruns' = 0, NEW c \in Deliveries,
               c \in alerted' \/ \E q \in Runners : Holds(q, c)' /\ runner'[q].pc = "alerting"
        PROVE  jobs'[c].status = "failed"
    <3>1. errors = 0 /\ overruns = 0
      BY <2>6, <1>0, CountersGrow
    <3>2. CASE c = d
      <4>1. jobs' = [jobs EXCEPT ![d] = [status |-> "failed", attempts |-> @.attempts,
                                         due |-> jobs[d].due, stale |-> FALSE]]
        BY <1>0, <2>2, <2>6, <3>1 DEF Settle, StoreError, TypeOK
      <4>2. QED
        BY <1>0, <2>1, <3>2, <4>1 DEF TypeOK
    <3>3. CASE c # d
      <4>1. c \in alerted \/ \E q \in Runners : Holds(q, c) /\ runner[q].pc = "alerting"
        BY <2>2, <2>3, <2>6, <3>3 DEF Holds
      <4>2. QED
        BY <2>4, <3>1, <3>3, <4>1 DEF AlertInv
    <3>4. QED
      BY <3>2, <3>3
  <2>7. QED
    BY <2>5, <2>6 DEF AlertInv
<1>2. CASE SendAlert(r)
  <2>1. d \in Deliveries /\ Holds(r, d) /\ runner[r].pc = "alerting"
    BY <1>0, <1>2 DEF SendAlert, TypeOK, Holds, HoldingPcs
  <2>2. /\ alerted' = alerted \cup {d}
        /\ runner' = [runner EXCEPT ![r] = Free]
        /\ UNCHANGED <<jobs, errors, crashes, overruns>>
    BY <1>2 DEF SendAlert
  <2>3. /\ runner'[r].pc = "idle"
        /\ \A q \in Runners : q # r => runner'[q] = runner[q]
    BY <1>0, <2>2 DEF TypeOK, Free
  <2>4. QED
    BY <2>1, <2>2, <2>3 DEF AlertInv, FailedIsAlerted, Holds
<1>3. QED
  BY <1>1, <1>2

\* What is due to the operator in every reachable state.
LEMMA AlertInvariant == Spec => [](QueueInv /\ AlertInv)
<1>1. Init => AlertInv
  BY DEF Init, AlertInv, FailedIsAlerted, NoJob, Holds, Free, HoldingPcs
<1>2. QueueInv /\ TypeOK' /\ AlertInv /\ [Next]_vars => AlertInv'
  <2> SUFFICES ASSUME QueueInv, TypeOK', AlertInv, [Next]_vars
               PROVE  AlertInv'
    OBVIOUS
  <2>0. TypeOK
    BY DEF QueueInv
  <2>1. ASSUME UNCHANGED alerted, crashes' = 0 => crashes = 0,
               crashes = crashes' =>
                 \A q \in Runners, c \in Deliveries :
                   Holds(q, c) /\ runner[q].pc = "alerting" =>
                     Holds(q, c)' /\ runner'[q].pc = "alerting",
               \A q \in Runners, c \in Deliveries :
                 Holds(q, c)' /\ runner'[q].pc = "alerting" =>
                   Holds(q, c) /\ runner[q].pc = "alerting",
               \A c \in Deliveries : jobs'[c].status = "failed" => jobs[c].status = "failed"
        PROVE  AlertInv'
    <3>1. FailedIsAlerted'
      BY <2>0, <2>1, CountersGrow DEF AlertInv, FailedIsAlerted
    <3>2. ASSUME errors' = 0, overruns' = 0, NEW c \in Deliveries,
                 c \in alerted' \/ \E q \in Runners : Holds(q, c)' /\ runner'[q].pc = "alerting"
          PROVE  jobs'[c].status = "failed"
      <4>1. errors = 0 /\ overruns = 0
        BY <2>0, <3>2, CountersGrow
      <4>2. jobs[c].status = "failed"
        BY <2>1, <3>2, <4>1 DEF AlertInv
      <4>3. QED
        BY <4>1, <4>2, FailedStays
    <3>3. QED
      BY <3>1, <3>2 DEF AlertInv
  <2>2. ASSUME NEW r \in Runners, FailWebhookJob(r) \/ SendAlert(r)  PROVE AlertInv'
    BY <2>2, GiveUpAlertInv
  <2>3. CASE Crash
    BY <2>0, <2>3, <2>1 DEF Crash, Holds, Free, HoldingPcs, TypeOK
  <2>4. ASSUME NEW h \in Handlers, HandlerStep(h)  PROVE AlertInv'
    <3>1. jobs' = jobs \/ jobs' = WithJob(handler[h].job)
      BY <2>4 DEF HandlerStep, RecordDelivery, EnqueueWebhookJob, RefuseDelivery, SignalWorker
    <3>2. \A c \in Deliveries : jobs'[c].status = "failed" => jobs[c].status = "failed"
      BY <2>0, <3>1 DEF WithJob, TypeOK
    <3>3. UNCHANGED <<runner, alerted, crashes>>
      BY <2>4 DEF HandlerStep, RecordDelivery, EnqueueWebhookJob, RefuseDelivery, SignalWorker
    <3>4. QED
      BY <2>1, <3>2, <3>3 DEF Holds
  <2>5. ASSUME NEW d \in Deliveries, BecomeDue(d) \/ LeaseExpires(d)  PROVE AlertInv'
    <3>1. \A c \in Deliveries : jobs'[c].status = jobs[c].status
      <4> DEFINE dueRow   == [jobs[d] EXCEPT !.due = TRUE]
                 staleRow == [jobs[d] EXCEPT !.stale = TRUE]
      <4>1. dueRow.status = jobs[d].status /\ staleRow.status = jobs[d].status
        BY <2>0 DEF TypeOK, JobRow
      <4>2. jobs' = [jobs EXCEPT ![d] = dueRow] \/ jobs' = [jobs EXCEPT ![d] = staleRow]
        BY <2>5 DEF BecomeDue, LeaseExpires
      <4> HIDE DEF dueRow, staleRow
      <4>3. QED
        BY <2>0, <4>1, <4>2 DEF TypeOK
    <3>2. UNCHANGED <<runner, alerted, crashes>>
      BY <2>5 DEF BecomeDue, LeaseExpires
    <3>3. QED
      BY <2>1, <3>1, <3>2 DEF Holds
  <2>6. CASE UNCHANGED vars
    BY <2>1, <2>6 DEF vars, Holds
  <2>7. ASSUME NEW r \in Runners, RunnerStep(r), ~FailWebhookJob(r), ~SendAlert(r)
        PROVE  AlertInv'
    <3>1. UNCHANGED <<alerted, crashes>>
      BY <2>7 DEF RunnerStep, ReceiveSignal, ClaimSignalled, ClaimNext, MarkProcessing,
                  ProcessEvent, MarkOutcome, CompleteWebhookJob, RetryWebhookJob
    <3>2. runner[r].pc # "alerting" /\ runner'[r].pc # "alerting"
      BY <2>0, <2>7 DEF RunnerStep, ReceiveSignal, ClaimSignalled, ClaimNext, Claim,
                  MarkProcessing, ProcessEvent, MarkOutcome, CompleteWebhookJob,
                  RetryWebhookJob, Free, TypeOK, RunnerState
    <3>3. \A q \in Runners : q # r => runner'[q] = runner[q]
      BY <2>0, <2>7 DEF RunnerStep, ReceiveSignal, ClaimSignalled, ClaimNext, Claim,
                  MarkProcessing, ProcessEvent, MarkOutcome, CompleteWebhookJob,
                  RetryWebhookJob, TypeOK
    <3>4. \A c \in Deliveries : jobs'[c].status = "failed" => jobs[c].status = "failed"
      <4>1. CASE UNCHANGED jobs
        BY <4>1
      <4>2. CASE ClaimSignalled(r) \/ ClaimNext(r)
        <5>1. jobs' = jobs \/ \E c \in Deliveries : jobs' = Claimed(c)
          BY <2>0, <4>2 DEF ClaimSignalled, ClaimNext, NextInLine, Claim, TypeOK
        <5>2. ASSUME NEW e \in Deliveries, jobs' = Claimed(e), NEW c \in Deliveries
              PROVE  jobs'[c].status \in {jobs[c].status, "processing"}
          BY <2>0, <5>2 DEF Claimed, TypeOK
        <5>3. QED
          BY <5>1, <5>2
      <4>3. CASE CompleteWebhookJob(r) \/ RetryWebhookJob(r)
        <5>1. PICK s \in {"processed", "retrying"}, b \in BOOLEAN :
                Settle(runner[r].job, s, b)
          <6>1. runner[r].job \in Deliveries
            BY <2>0, <4>3 DEF CompleteWebhookJob, RetryWebhookJob, TypeOK
          <6>2. jobs[runner[r].job].due \in BOOLEAN
            BY <2>0, <6>1 DEF TypeOK, JobRow
          <6>3. CASE CompleteWebhookJob(r)
            BY <6>2, <6>3 DEF CompleteWebhookJob
          <6>4. CASE RetryWebhookJob(r)
            <7>1. (~(RetryDelay(runner[r].token) > 0)) \in BOOLEAN
              OBVIOUS
            <7>2. QED
              BY <6>4, <7>1 DEF RetryWebhookJob
          <6>5. QED
            BY <4>3, <6>3, <6>4
        <5>2. \A c \in Deliveries : jobs'[c] = jobs[c] \/ jobs'[c].status = s
          BY <2>0, <5>1 DEF Settle, TypeOK
        <5>3. s # "failed"
          OBVIOUS
        <5>4. QED
          BY <5>2, <5>3
      <4>4. QED
        BY <2>7, <4>1, <4>2, <4>3 DEF RunnerStep, ReceiveSignal, MarkProcessing,
                  ProcessEvent, MarkOutcome
    <3>5. QED
      BY <2>1, <3>1, <3>2, <3>3, <3>4 DEF Holds
  <2>8. QED
    BY <2>2, <2>3, <2>4, <2>5, <2>6, <2>7 DEF Next
<1>3. QED
  BY <1>1, <1>2, TypeCorrect, QueueInvariant, PTL DEF Spec

\* An operator is told of every job that was given up, unless a crash came in
\* between, through any store errors and overrun leases.
THEOREM AlertsTellFailures == Spec => []FailedIsAlerted
<1>1. AlertInv => FailedIsAlerted
  BY DEF AlertInv
<1>2. QED
  BY <1>1, AlertInvariant, PTL

\* An operator is told of no other job: the row of a job that was alerted says
\* failed for good, while no store call failed and no lease was overrun.
THEOREM AlertsOnlyFailures == Spec => []AlertedIsFailed
<1>1. QueueInv /\ AlertInv => AlertedIsFailed
  BY DEF AlertInv, AlertedIsFailed, QueueInv, TypeOK
<1>2. QED
  BY <1>1, AlertInvariant, PTL

-----------------------------------------------------------------------------
(* The delay before another attempt.                                       *)

\* A set that holds 0, and with each number the next one, holds all of them.
LEMMA Upwards ==
  ASSUME NEW S, 0 \in S, \A i \in Nat : i \in S => i + 1 \in S
  PROVE  Nat \subseteq S
<1> DEFINE T == Nat \ S
           Less == OpToRel(<, Nat)
<1>1. SUFFICES ASSUME T # {} PROVE FALSE
  OBVIOUS
<1>2. IsWellFoundedOn(Less, Nat)
  BY NatLessThanWellFounded
<1>3. \A k, m \in T : k < m => <<k, m>> \in Less
  BY DEF OpToRel
<1> HIDE DEF Less
<1>4. PICK m \in T : \A k \in T : <<k, m>> \notin Less
  BY <1>1, <1>2, WFMin
<1>5. \A k \in T : ~(k < m)
  BY <1>3, <1>4, Zenon
<1>6. m \in Nat /\ m # 0 /\ m - 1 \in Nat
  BY <1>4
<1>7. m - 1 \in S
  BY <1>5, <1>6
<1> QED
  BY <1>4, <1>6, <1>7

\* A function that starts from a and goes on by W exists.
LEMMA Iteration ==
  ASSUME NEW A, NEW a \in A, NEW W \in [A -> A]
  PROVE  \E f \in [Nat -> A] : \A k \in Nat : f[k] = IF k <= 1 THEN a ELSE W[f[k - 1]]
<1> DEFINE Goes(g, n) == \A k \in 0 .. n : g[k] = IF k <= 1 THEN a ELSE W[g[k - 1]]
           Parts(n) == {g \in [0 .. n -> A] : Goes(g, n)}
           S == {n \in Nat : Parts(n) # {}}
<1>1. 0 \in S
  <2>1. [k \in 0 .. 0 |-> a] \in Parts(0)
    OBVIOUS
  <2> QED
    BY <2>1
<1>2. ASSUME NEW n \in Nat, n \in S  PROVE n + 1 \in S
  <2>1. PICK g \in [0 .. n -> A] : Goes(g, n)
    BY <1>2
  <2> DEFINE v == IF n + 1 <= 1 THEN a ELSE W[g[n]]
             h == [k \in 0 .. n + 1 |-> IF k = n + 1 THEN v ELSE g[k]]
  <2>2. v \in A /\ \A k \in 0 .. n : g[k] \in A
    BY <2>1
  <2>3. h \in [0 .. n + 1 -> A]
    <3> HIDE DEF v
    <3> QED BY <2>2
  <2>4. ASSUME NEW k \in 0 .. n + 1
        PROVE  h[k] = IF k <= 1 THEN a ELSE W[h[k - 1]]
    <3>1. CASE k = n + 1
      <4>1. k > 1 => h[k - 1] = g[n]
        BY <3>1
      <4> QED
        BY <3>1, <4>1
    <3>2. CASE k # n + 1
      <4>1. k \in 0 .. n /\ h[k] = g[k]
        BY <3>2
      <4>2. k > 1 => h[k - 1] = g[k - 1]
        BY <3>2
      <4> QED
        BY <2>1, <4>1, <4>2
    <3> QED
      BY <3>1, <3>2
  <2> HIDE DEF h
  <2>5. h \in Parts(n + 1)
    BY <2>3, <2>4
  <2> QED
    BY <2>5
<1>3. \A n \in Nat : Parts(n) # {}
  <2> HIDE DEF S
  <2>1. Nat \subseteq S
    BY <1>1, <1>2, Upwards
  <2> QED
    BY <2>1 DEF S
<1> DEFINE part == [n \in Nat |-> CHOOSE g : g \in Parts(n)]
           f == [n \in Nat |-> part[n][n]]
<1>4. ASSUME NEW n \in Nat
      PROVE  part[n] \in [0 .. n -> A] /\ Goes(part[n], n)
  <2>1. part[n] \in Parts(n)
    BY <1>3
  <2> HIDE DEF part
  <2> QED
    BY <2>1
<1> HIDE DEF part
<1>5. ASSUME NEW n \in Nat  PROVE part[n + 1][n] = part[n][n]
  <2> DEFINE E == {k \in Nat : k <= n => part[n + 1][k] = part[n][k]}
  <2>1. 0 \in E
    BY <1>4
  <2>2. ASSUME NEW k \in Nat, k \in E  PROVE k + 1 \in E
    <3>1. SUFFICES ASSUME k + 1 <= n PROVE part[n + 1][k + 1] = part[n][k + 1]
      OBVIOUS
    <3>2. part[n + 1][k] = part[n][k]
      BY <2>2, <3>1
    <3>3. k + 1 \in 0 .. n /\ k + 1 \in 0 .. n + 1 /\ (k + 1) - 1 = k
      BY <3>1
    <3>4. part[n][k + 1] = IF k + 1 <= 1 THEN a ELSE W[part[n][k]]
      BY <1>4, <3>3
    <3>5. part[n + 1][k + 1] = IF k + 1 <= 1 THEN a ELSE W[part[n + 1][k]]
      BY <1>4, <3>3
    <3> QED
      BY <3>2, <3>4, <3>5
  <2> HIDE DEF E
  <2>3. n \in E
    BY <2>1, <2>2, Upwards
  <2> QED
    BY <2>3 DEF E
<1>6. f \in [Nat -> A]
  BY <1>4
<1>7. ASSUME NEW k \in Nat  PROVE f[k] = IF k <= 1 THEN a ELSE W[f[k - 1]]
  <2>1. part[k][k] = IF k <= 1 THEN a ELSE W[part[k][k - 1]]
    BY <1>4
  <2>2. k > 1 => part[k][k - 1] = part[k - 1][k - 1]
    <3>1. SUFFICES ASSUME k > 1 PROVE part[k][k - 1] = part[k - 1][k - 1]
      OBVIOUS
    <3>2. k - 1 \in Nat /\ (k - 1) + 1 = k
      BY <3>1
    <3> QED
      BY <1>5, <3>2
  <2> QED
    BY <2>1, <2>2
<1> QED
  BY <1>6, <1>7

\* Backoff and Doubled have the values their definitions give.
LEMMA BackoffRecursion ==
  ASSUME \A x \in Int : Wrap(2 * x) \in Int
  PROVE  \A k \in Nat : Backoff[k] = IF k <= 1 THEN RetryBase ELSE Wrap(2 * Backoff[k - 1])
<1> DEFINE A == Int
           W == [x \in Int |-> Wrap(2 * x)]
<1>1. W \in [A -> A] /\ RetryBase \in A
  BY DelayAssumption
<1>2. PICK f \in [Nat -> A] : \A k \in Nat : f[k] = IF k <= 1 THEN RetryBase ELSE W[f[k - 1]]
  <2> HIDE DEF W, A
  <2> QED
    BY <1>1, Iteration
<1>3. ASSUME NEW k \in Nat  PROVE f[k] = IF k <= 1 THEN RetryBase ELSE Wrap(2 * f[k - 1])
  <2>1. f[k] = IF k <= 1 THEN RetryBase ELSE W[f[k - 1]]
    BY <1>2, Zenon
  <2>2. k > 1 => f[k - 1] \in Int
    BY <1>2
  <2>3. k > 1 => W[f[k - 1]] = Wrap(2 * f[k - 1])
    BY <2>2
  <2> HIDE DEF W
  <2> QED
    BY <2>1, <2>3
<1>4. f = [attempt \in Nat |-> IF attempt <= 1 THEN RetryBase ELSE Wrap(2 * f[attempt - 1])]
  BY <1>3
<1>5. Backoff = [attempt \in Nat |-> IF attempt <= 1 THEN RetryBase
                                     ELSE Wrap(2 * Backoff[attempt - 1])]
  BY <1>4, Zenon DEF Backoff
<1> QED
  BY <1>5, Zenon

LEMMA BackoffIs ==
  ASSUME 2 ^ (DurationBits - 1) > 0
  PROVE  \A k \in Nat : Backoff[k] = IF k <= 1 THEN RetryBase ELSE Wrap(2 * Backoff[k - 1])
<1> DEFINE half == 2 ^ (DurationBits - 1)
<1>1. half \in Int /\ half > 0
  BY DelayAssumption
<1>2. \A x \in Int : Wrap(2 * x) \in Int
  <2> HIDE DEF half
  <2>1. ASSUME NEW x \in Int  PROVE ((2 * x + half) % (2 * half)) - half \in Int
    BY <1>1
  <2> QED
    BY <2>1 DEF Wrap, half
<1> QED
  BY <1>2, BackoffRecursion, Zenon

LEMMA DoubledIs ==
  /\ Doubled \in [Nat -> Nat \ {0}]
  /\ \A k \in Nat : Doubled[k] = IF k <= 1 THEN RetryBase ELSE 2 * Doubled[k - 1]
<1> DEFINE W == [x \in Nat \ {0} |-> 2 * x]
<1>1. RetryBase \in Nat \ {0} /\ W \in [Nat \ {0} -> Nat \ {0}]
  BY DelayAssumption
<1>2. PICK f \in [Nat -> Nat \ {0}] :
        \A k \in Nat : f[k] = IF k <= 1 THEN RetryBase ELSE W[f[k - 1]]
  <2> DEFINE A == Nat \ {0}
  <2>1. W \in [A -> A] /\ RetryBase \in A
    BY <1>1
  <2> HIDE DEF W, A
  <2>2. \E f \in [Nat -> A] : \A k \in Nat : f[k] = IF k <= 1 THEN RetryBase ELSE W[f[k - 1]]
    BY <2>1, Iteration
  <2> QED
    BY <2>2 DEF A
<1>3. ASSUME NEW k \in Nat  PROVE f[k] = IF k <= 1 THEN RetryBase ELSE 2 * f[k - 1]
  <2>1. f[k] = IF k <= 1 THEN RetryBase ELSE W[f[k - 1]]
    BY <1>2, Zenon
  <2>2. k > 1 => f[k - 1] \in Nat \ {0}
    BY <1>2
  <2>3. k > 1 => W[f[k - 1]] = 2 * f[k - 1]
    BY <2>2
  <2> HIDE DEF W
  <2> QED
    BY <2>1, <2>3
<1>4. f = [attempt \in Nat |-> IF attempt <= 1 THEN RetryBase ELSE 2 * f[attempt - 1]]
  BY <1>3
<1>5. Doubled = [attempt \in Nat |-> IF attempt <= 1 THEN RetryBase
                                     ELSE 2 * Doubled[attempt - 1]]
  BY <1>4, Zenon DEF Doubled
<1>6. \A k \in Nat : Doubled[k] = IF k <= 1 THEN RetryBase ELSE 2 * Doubled[k - 1]
  BY <1>5, Zenon
<1> DEFINE S == {k \in Nat : Doubled[k] \in Nat \ {0}}
<1>7. 0 \in S /\ \A k \in Nat : k \in S => k + 1 \in S
  BY <1>1, <1>6
<1> HIDE DEF S
<1>8. \A k \in Nat : Doubled[k] \in Nat \ {0}
  <2>1. Nat \subseteq S
    BY <1>7, Upwards
  <2> QED
    BY <2>1 DEF S
<1> QED
  BY <1>5, <1>6, <1>8

\* While the product fits in a Duration, no delay is lost: it is the product,
\* up to the limit.
LEMMA DelayFits ==
  ASSUME NEW n \in Nat, Doubled[n] < 2 ^ (DurationBits - 1), NEW k \in 1 .. n
  PROVE  RetryDelay(k) = (IF Doubled[k] > Minute THEN Minute ELSE Doubled[k])
<1> DEFINE half == 2 ^ (DurationBits - 1)
<1>1. half \in Int /\ half > 0 /\ Doubled[n] < half
  BY DelayAssumption, DoubledIs
<1> HIDE DEF half
<1>2. ASSUME NEW i \in Nat  PROVE Doubled[i] <= Doubled[i + 1]
  BY DoubledIs
<1>3. ASSUME NEW i \in Nat, NEW j \in Nat  PROVE Doubled[i] <= Doubled[i + j]
  <2> DEFINE S == {m \in Nat : Doubled[i] <= Doubled[i + m]}
  <2>1. 0 \in S
    BY DoubledIs
  <2>2. ASSUME NEW m \in Nat, m \in S  PROVE m + 1 \in S
    <3>1. Doubled[i + m] <= Doubled[(i + m) + 1] /\ (i + m) + 1 = i + (m + 1)
      BY <1>2
    <3>2. Doubled[i] \in Nat /\ Doubled[i + m] \in Nat /\ Doubled[i + (m + 1)] \in Nat
      BY DoubledIs
    <3> QED
      BY <2>2, <3>1, <3>2
  <2> HIDE DEF S
  <2>3. j \in S
    BY <2>1, <2>2, Upwards
  <2> QED
    BY <2>3 DEF S
<1>4. ASSUME NEW i \in 0 .. n  PROVE Doubled[i] \in Nat /\ Doubled[i] < half
  <2>1. Doubled[i] <= Doubled[i + (n - i)] /\ i + (n - i) = n
    BY <1>3
  <2> QED
    BY <1>1, <2>1, DoubledIs
<1>5. \A x \in Nat : x < half => Wrap(x) = x
  <2>1. ASSUME NEW x \in Nat, x < half  PROVE ((x + half) % (2 * half)) - half = x
    BY <1>1, <2>1
  <2> QED
    BY <2>1 DEF Wrap, half
<1> DEFINE E == {i \in Nat : i <= n => Backoff[i] = Doubled[i]}
<1>6. 0 \in E
  BY <1>1, BackoffIs, DoubledIs DEF half
<1>7. ASSUME NEW i \in Nat, i \in E  PROVE i + 1 \in E
  <2>1. SUFFICES ASSUME i + 1 <= n PROVE Backoff[i + 1] = Doubled[i + 1]
    OBVIOUS
  <2>2. Backoff[i] = Doubled[i] /\ i + 1 \in 0 .. n /\ (i + 1) - 1 = i
    BY <1>7, <2>1
  <2>3. Backoff[i + 1] = IF i + 1 <= 1 THEN RetryBase ELSE Wrap(2 * Doubled[i])
    BY <1>1, <2>2, BackoffIs DEF half
  <2>4. Doubled[i + 1] = IF i + 1 <= 1 THEN RetryBase ELSE 2 * Doubled[i]
    BY <2>2, DoubledIs
  <2>5. Doubled[i + 1] \in Nat /\ Doubled[i + 1] < half
    BY <1>4, <2>2
  <2> QED
    BY <1>5, <2>3, <2>4, <2>5
<1> HIDE DEF E
<1>8. k \in E
  BY <1>6, <1>7, Upwards
<1>9. Backoff[k] = Doubled[k]
  BY <1>8 DEF E
<1> QED
  BY <1>9 DEF RetryDelay

\* A job that is put back waits, whatever the base, the limit, the width and the
\* number of attempts, unless the product of its attempts has left the range of
\* a Duration: the wrap-around is the only way to lose the delay.
THEOREM RetriesWait == Spec => RetryWaits
<1>1. QueueInv /\ [Next]_vars =>
        [\A d \in Deliveries :
           jobs[d].status # "retrying" /\ jobs'[d].status = "retrying" /\ jobs'[d].due =>
             Doubled[jobs[d].attempts] >= 2 ^ (DurationBits - 1)]_vars
  <2> SUFFICES ASSUME QueueInv, [Next]_vars, NEW d \in Deliveries,
                      jobs[d].status # "retrying", jobs'[d].status = "retrying",
                      jobs'[d].due
               PROVE  Doubled[jobs[d].attempts] >= 2 ^ (DurationBits - 1)
    OBVIOUS
  <2>0. TypeOK
    BY DEF QueueInv
  <2>1. ASSUME NEW h \in Handlers, HandlerStep(h)  PROVE FALSE
    <3>1. jobs' = jobs \/ jobs' = WithJob(handler[h].job)
      BY <2>1 DEF HandlerStep, RecordDelivery, EnqueueWebhookJob, RefuseDelivery, SignalWorker
    <3>2. QED
      BY <2>0, <3>1 DEF WithJob, TypeOK
  <2>2. ASSUME NEW r \in Runners, RunnerStep(r)
        PROVE  Doubled[jobs[d].attempts] >= 2 ^ (DurationBits - 1)
    <3>1. CASE ClaimSignalled(r) \/ ClaimNext(r)
      <4>1. jobs' = jobs \/ \E c \in Deliveries : jobs' = Claimed(c)
        BY <2>0, <3>1 DEF ClaimSignalled, ClaimNext, NextInLine, Claim, TypeOK
      <4>2. QED
        BY <2>0, <4>1 DEF Claimed, TypeOK
    <3>2. CASE CompleteWebhookJob(r) \/ RetryWebhookJob(r) \/ FailWebhookJob(r)
      <4>1. runner[r].job \in Deliveries /\ Holds(r, runner[r].job)
        BY <2>0, <3>2 DEF CompleteWebhookJob, RetryWebhookJob, FailWebhookJob, TypeOK,
                          Holds, HoldingPcs
      <4>2. PICK s \in {"processed", "retrying", "failed"}, b \in BOOLEAN :
              /\ Settle(runner[r].job, s, b)
              /\ s = "retrying" => MayRetry(r) /\ b = ~(RetryDelay(runner[r].token) > 0)
        BY <2>0, <3>2, <4>1, SettleCases
      <4>3. d = runner[r].job /\ s = "retrying" /\ jobs'[d].due = b
        <5>1. jobs' = [jobs EXCEPT ![runner[r].job] =
                         [status |-> s, attempts |-> jobs[runner[r].job].attempts,
                          due |-> b, stale |-> FALSE]]
          BY <4>2 DEF Settle
        <5>2. jobs \in [Deliveries -> JobRow]
          BY <2>0 DEF TypeOK
        <5>3. d = runner[r].job
          BY <4>1, <5>1, <5>2
        <5>4. QED
          BY <5>1, <5>2, <5>3
      <4>4. ~(RetryDelay(runner[r].token) > 0)
        BY <4>2, <4>3
      <4>5. jobs[d].attempts \in Nat /\ runner[r].token \in 1 .. jobs[d].attempts
        BY <2>0, <4>1, <4>3 DEF QueueInv, TokensIssued, TypeOK, JobRow
      <4>6. ASSUME Doubled[jobs[d].attempts] < 2 ^ (DurationBits - 1)
            PROVE  FALSE
        <5>1. RetryDelay(runner[r].token) =
                (IF Doubled[runner[r].token] > Minute THEN Minute
                 ELSE Doubled[runner[r].token])
          BY <4>5, <4>6, DelayFits
        <5>2. Doubled[runner[r].token] > 0 /\ Minute > 0
          BY <4>5, DoubledIs, DelayAssumption
        <5>3. QED
          BY <4>4, <5>1, <5>2
      <4>7. Doubled[jobs[d].attempts] \in Nat /\ 2 ^ (DurationBits - 1) \in Int
        BY <4>5, DoubledIs, DelayAssumption
      <4>8. QED
        BY <4>6, <4>7
    <3>3. CASE UNCHANGED jobs
      BY <3>3
    <3>4. QED
      BY <2>2, <3>1, <3>2, <3>3
         DEF RunnerStep, ReceiveSignal, MarkProcessing, ProcessEvent, MarkOutcome, SendAlert
  <2>3. ASSUME NEW c \in Deliveries, BecomeDue(c) \/ LeaseExpires(c)  PROVE FALSE
    <3> DEFINE dueRow   == [jobs[c] EXCEPT !.due = TRUE]
               staleRow == [jobs[c] EXCEPT !.stale = TRUE]
    <3>1. dueRow.status = jobs[c].status /\ staleRow.status = jobs[c].status
      BY <2>0 DEF TypeOK, JobRow
    <3>2. jobs' = [jobs EXCEPT ![c] = dueRow] \/ jobs' = [jobs EXCEPT ![c] = staleRow]
      BY <2>3 DEF BecomeDue, LeaseExpires
    <3> HIDE DEF dueRow, staleRow
    <3>3. QED
      BY <2>0, <3>1, <3>2 DEF TypeOK
  <2>4. CASE UNCHANGED jobs
    BY <2>4
  <2>5. QED
    BY <2>1, <2>2, <2>3, <2>4 DEF Next, Crash, vars
<1>2. QED
  BY <1>1, QueueInvariant, PTL DEF Spec, RetryWaits

-----------------------------------------------------------------------------
(* Delivery rows.                                                          *)

\* A delivery row against its job row, against a worker that has just reported
\* an outcome, and against a request at work.
MirrorRow(d) ==
  /\ jobs[d].status = "none" => deliveries[d] \in {"none", "queued"}
  /\ deliveries[d] = "none" => jobs[d].status = "none"
  /\ jobs[d].status \in {"queued", "retrying", "processed", "failed"} =>
       deliveries[d] = jobs[d].status
MirrorRunner(r) ==
  /\ runner[r].pc = "okMarked" => deliveries[runner[r].job] = "processed"
  /\ runner[r].pc = "errMarked" =>
       deliveries[runner[r].job] = IF MayRetry(r) THEN "retrying" ELSE "failed"
MirrorHandler(h) ==
  /\ handler[h].pc # "refusing"
  /\ handler[h].pc = "recorded" => deliveries[handler[h].job] # "none"

Mirrors == /\ \A d \in Deliveries : MirrorRow(d)
           /\ \A r \in Runners : MirrorRunner(r)
           /\ \A h \in Handlers : MirrorHandler(h)
MirrorInv == errors = 0 /\ overruns = 0 => Mirrors

\* The steps of a webhook request keep Mirrors.
LEMMA HandlerMirrors ==
  ASSUME TypeOK, TypeOK', Mirrors, errors = 0, errors' = 0,
         NEW h \in Handlers, HandlerStep(h)
  PROVE  Mirrors'
<1>0. ~StoreError
  BY DEF StoreError
<1>1. UNCHANGED runner /\ \A g \in Handlers : g # h => handler'[g] = handler[g]
  BY DEF HandlerStep, RecordDelivery, EnqueueWebhookJob, RefuseDelivery, SignalWorker, TypeOK
<1>2. ASSUME NEW d \in Deliveries, RecordDelivery(h, d)  PROVE Mirrors'
  <2>1. CASE deliveries[d] # "none"
    <3>1. UNCHANGED <<deliveries, handler, jobs>>
      BY <1>2, <1>0, <2>1 DEF RecordDelivery
    <3>2. QED
      BY <1>1, <3>1 DEF Mirrors, MirrorRow, MirrorRunner, MirrorHandler, MayRetry
  <2>2. CASE deliveries[d] = "none"
    <3>1. /\ deliveries' = [deliveries EXCEPT ![d] = "queued"]
          /\ handler' = [handler EXCEPT ![h] = [pc |-> "recorded", job |-> d]]
          /\ UNCHANGED jobs
      BY <1>2, <1>0, <2>2 DEF RecordDelivery
    <3>2. deliveries'[d] = "queued" /\ \A c \in Deliveries : c # d => deliveries'[c] = deliveries[c]
      BY <3>1 DEF TypeOK
    <3>3. handler'[h].pc = "recorded" /\ handler'[h].job = d
      BY <3>1 DEF TypeOK
    <3>4. \A c \in Deliveries : MirrorRow(c)'
      BY <2>2, <3>1, <3>2 DEF Mirrors, MirrorRow
    <3>5. \A r \in Runners : MirrorRunner(r)'
      BY <1>1, <2>2, <3>2 DEF Mirrors, MirrorRunner, MayRetry, TypeOK
    <3>6. \A g \in Handlers : MirrorHandler(g)'
      BY <1>1, <3>2, <3>3 DEF Mirrors, MirrorHandler, TypeOK
    <3>7. QED
      BY <3>4, <3>5, <3>6 DEF Mirrors
  <2>3. QED
    BY <2>1, <2>2
<1>3. CASE EnqueueWebhookJob(h)
  <2> DEFINE d == handler[h].job
  <2>1. /\ handler[h].pc = "recorded" /\ jobs' = WithJob(d) /\ UNCHANGED deliveries
        /\ handler' = [handler EXCEPT ![h].pc = "enqueued"]
    BY <1>0, <1>3 DEF EnqueueWebhookJob
  <2>2. d \in Deliveries /\ deliveries[d] # "none"
    BY <2>1 DEF TypeOK, Mirrors, MirrorHandler
  <2>3. \A c \in Deliveries : MirrorRow(c)'
    BY <2>1, <2>2 DEF Mirrors, MirrorRow, WithJob, TypeOK
  <2>4. handler'[h].pc = "enqueued"
    BY <2>1 DEF TypeOK, HandlerState
  <2>5. QED
    BY <1>1, <2>1, <2>3, <2>4 DEF Mirrors, MirrorRunner, MirrorHandler, MayRetry
<1>4. CASE RefuseDelivery(h)
  BY <1>4 DEF RefuseDelivery, Mirrors, MirrorHandler
<1>5. CASE SignalWorker(h)
  <2>1. handler'[h].pc = "idle" /\ UNCHANGED <<deliveries, jobs>>
    BY <1>5 DEF SignalWorker, TypeOK, Idle
  <2>2. QED
    BY <1>1, <2>1 DEF Mirrors, MirrorRow, MirrorRunner, MirrorHandler, MayRetry
<1>6. QED
  BY <1>2, <1>3, <1>4, <1>5 DEF HandlerStep

\* A runner that reports or settles is the only one at work on its job.
LEMMA SoleRunner ==
  ASSUME QueueInv, overruns = 0, NEW r \in Runners, NEW d \in Deliveries, Unsettled(r, d)
  PROVE  /\ jobs[d].status = "processing"
         /\ \A q \in Runners : q # r => ~Unsettled(q, d)
  BY DEF QueueInv, LeaseInForce, TokensDiffer, Unsettled

\* The steps of a worker goroutine keep Mirrors.
LEMMA RunnerMirrors ==
  ASSUME QueueInv, TypeOK', Mirrors, errors = 0, errors' = 0, overruns = 0,
         NEW r \in Runners, RunnerStep(r)
  PROVE  Mirrors'
<1> DEFINE d == runner[r].job
<1>0. TypeOK /\ ~StoreError
  BY DEF QueueInv, StoreError
<1>1. UNCHANGED handler /\ \A q \in Runners : q # r => runner'[q] = runner[q]
  BY <1>0 DEF RunnerStep, ReceiveSignal, ClaimSignalled, ClaimNext, Claim, MarkProcessing,
              ProcessEvent, MarkOutcome, CompleteWebhookJob, RetryWebhookJob,
              FailWebhookJob, SendAlert, TypeOK
<1>2. CASE ReceiveSignal(r) \/ ProcessEvent(r) \/ SendAlert(r)
  <2>1. runner'[r].pc \notin {"okMarked", "errMarked"} /\ UNCHANGED <<deliveries, jobs>>
    BY <1>0, <1>2 DEF ReceiveSignal, ProcessEvent, SendAlert, TypeOK, Free, RunnerState
  <2>2. QED
    BY <1>1, <2>1 DEF Mirrors, MirrorRow, MirrorRunner, MirrorHandler, MayRetry
<1>3. CASE ClaimSignalled(r) \/ ClaimNext(r)
  <2>1. runner'[r].pc \notin {"okMarked", "errMarked"} /\ UNCHANGED deliveries
    BY <1>0, <1>3 DEF ClaimSignalled, ClaimNext, Claim, TypeOK, Free
  <2>2. jobs' = jobs \/ \E c \in Deliveries : Claimable(c) /\ jobs' = Claimed(c)
    BY <1>0, <1>3 DEF ClaimSignalled, ClaimNext, NextInLine, Claim, Claimable, TypeOK
  <2>3. ASSUME NEW c \in Deliveries, Claimable(c), jobs' = Claimed(c)
        PROVE  \A e \in Deliveries : MirrorRow(e)'
    <3>1. jobs'[c].status = "processing" /\ \A e \in Deliveries : e # c => jobs'[e] = jobs[e]
      BY <1>0, <2>3 DEF Claimed, TypeOK
    <3>2. deliveries[c] # "none"
      BY <2>3 DEF Mirrors, MirrorRow, Claimable, Abandoned
    <3>3. QED
      BY <2>1, <3>1, <3>2 DEF Mirrors, MirrorRow
  <2>4. \A e \in Deliveries : MirrorRow(e)'
    BY <2>1, <2>2, <2>3 DEF Mirrors, MirrorRow
  <2>5. QED
    BY <1>1, <2>1, <2>4 DEF Mirrors, MirrorRunner, MirrorHandler, MayRetry
<1>4. CASE MarkProcessing(r) \/ MarkOutcome(r)
  <2>1. d \in Deliveries /\ Unsettled(r, d)
    BY <1>0, <1>4 DEF MarkProcessing, MarkOutcome, TypeOK, Unsettled, Holds, HoldingPcs
  <2>2. jobs[d].status = "processing" /\ \A q \in Runners : q # r => ~Unsettled(q, d)
    <3> HIDE DEF d
    <3>1. QED BY <2>1, SoleRunner
  <2>3. PICK s \in JobStatus \ {"none"} : deliveries' = [deliveries EXCEPT ![d] = s]
    BY <1>0, <1>4 DEF MarkProcessing, MarkOutcome, MarkDeliveryStatus, JobStatus
  <2>4. deliveries'[d] = s /\ \A c \in Deliveries : c # d => deliveries'[c] = deliveries[c]
    BY <1>0, <2>1, <2>3 DEF TypeOK
  <2>5. UNCHANGED jobs
    BY <1>4 DEF MarkProcessing, MarkOutcome
  <2>6. \A c \in Deliveries : MirrorRow(c)'
    BY <2>2, <2>4, <2>5 DEF Mirrors, MirrorRow
  <2>7. \A h \in Handlers : MirrorHandler(h)'
    BY <1>0, <1>1, <2>4 DEF Mirrors, MirrorHandler, TypeOK
  <2>8. \A q \in Runners : q # r => MirrorRunner(q)'
    <3> SUFFICES ASSUME NEW q \in Runners, q # r, runner[q].pc \in {"okMarked", "errMarked"}
                 PROVE  MirrorRunner(q)'
      BY <1>1 DEF MirrorRunner
    <3>1. runner[q].job \in Deliveries /\ Unsettled(q, runner[q].job)
      BY <1>0 DEF TypeOK, Unsettled, Holds, HoldingPcs
    <3>2. runner[q].job # d
      BY <2>2, <3>1
    <3>3. QED
      BY <1>1, <2>4, <3>1, <3>2 DEF Mirrors, MirrorRunner, MayRetry
  <2>9. MirrorRunner(r)'
    <3>1. CASE MarkProcessing(r)
      <4>1. runner'[r].pc = "working"
        BY <1>0, <3>1 DEF MarkProcessing, TypeOK, RunnerState
      <4>2. QED
        BY <4>1 DEF MirrorRunner
    <3>2. CASE MarkOutcome(r)
      <4>1. /\ runner'[r].job = d /\ runner'[r].token = runner[r].token
            /\ runner'[r].pc = "okMarked" => runner[r].pc = "ok"
            /\ runner'[r].pc = "errMarked" => runner[r].pc = "err"
        BY <1>0, <3>2 DEF MarkOutcome, TypeOK, RunnerState
      <4>2. /\ runner[r].pc = "ok" => deliveries' = [deliveries EXCEPT ![d] = "processed"]
            /\ runner[r].pc = "err" =>
                 deliveries' = [deliveries EXCEPT ![d] = IF MayRetry(r) THEN "retrying" ELSE "failed"]
        BY <1>0, <3>2 DEF MarkOutcome, MarkDeliveryStatus
      <4>3. QED
        BY <1>0, <2>1, <4>1, <4>2 DEF MirrorRunner, MayRetry, TypeOK
    <3>3. QED
      BY <1>4, <3>1, <3>2
  <2>10. QED
    BY <2>6, <2>7, <2>8, <2>9 DEF Mirrors
<1>5. CASE CompleteWebhookJob(r) \/ RetryWebhookJob(r) \/ FailWebhookJob(r)
  <2>1. d \in Deliveries
    BY <1>0, <1>5 DEF CompleteWebhookJob, RetryWebhookJob, FailWebhookJob, TypeOK
  <2>2. PICK s \in {"processed", "retrying", "failed"}, b \in BOOLEAN :
          /\ jobs' = [jobs EXCEPT ![d] = [status |-> s, attempts |-> jobs[d].attempts,
                                          due |-> b, stale |-> FALSE]]
          /\ deliveries[d] = s
    <3>1. jobs[d].due \in BOOLEAN
      BY <1>0, <2>1 DEF TypeOK, JobRow
    <3>2. (~(RetryDelay(runner[r].token) > 0)) \in BOOLEAN
      OBVIOUS
    <3>3. CASE CompleteWebhookJob(r)
      BY <1>0, <3>1, <3>3 DEF CompleteWebhookJob, Settle, Mirrors, MirrorRunner
    <3>4. CASE RetryWebhookJob(r)
      BY <1>0, <3>2, <3>4 DEF RetryWebhookJob, Settle, Mirrors, MirrorRunner
    <3>5. CASE FailWebhookJob(r)
      BY <1>0, <3>1, <3>5 DEF FailWebhookJob, Settle, Mirrors, MirrorRunner
    <3>6. QED
      BY <1>5, <3>3, <3>4, <3>5
  <2>3. jobs'[d].status = s /\ \A c \in Deliveries : c # d => jobs'[c] = jobs[c]
    BY <1>0, <2>1, <2>2 DEF TypeOK
  <2>4. runner'[r].pc \notin {"okMarked", "errMarked"} /\ UNCHANGED deliveries
    BY <1>0, <1>5 DEF CompleteWebhookJob, RetryWebhookJob, FailWebhookJob, TypeOK, Free,
                      RunnerState
  <2>5. \A c \in Deliveries : MirrorRow(c)'
    BY <2>2, <2>3, <2>4 DEF Mirrors, MirrorRow
  <2>6. QED
    BY <1>1, <2>4, <2>5 DEF Mirrors, MirrorRunner, MirrorHandler, MayRetry
<1>6. QED
  BY <1>2, <1>3, <1>4, <1>5 DEF RunnerStep

\* The delivery row says what the job row says whenever the job is waiting or
\* settled, through crashes at any point.
THEOREM DeliveriesMirrorJobs == Spec => []DeliveryMirrorsJob
<1>1. Init => MirrorInv
  BY DEF Init, MirrorInv, Mirrors, MirrorRow, MirrorRunner, MirrorHandler, NoJob, Idle, Free
<1>2. QueueInv /\ TypeOK' /\ MirrorInv /\ [Next]_vars => MirrorInv'
  <2> SUFFICES ASSUME QueueInv, TypeOK', MirrorInv, [Next]_vars, errors' = 0, overruns' = 0
               PROVE  Mirrors'
    BY DEF MirrorInv
  <2>0. TypeOK /\ errors = 0 /\ overruns = 0 /\ Mirrors
    BY CountersGrow DEF QueueInv, MirrorInv
  <2>1. ASSUME NEW h \in Handlers, HandlerStep(h)  PROVE Mirrors'
    BY <2>0, <2>1, HandlerMirrors
  <2>2. ASSUME NEW r \in Runners, RunnerStep(r)  PROVE Mirrors'
    BY <2>0, <2>2, RunnerMirrors
  <2>3. ASSUME NEW d \in Deliveries, BecomeDue(d) \/ LeaseExpires(d)  PROVE Mirrors'
    <3> DEFINE dueRow   == [jobs[d] EXCEPT !.due = TRUE]
               staleRow == [jobs[d] EXCEPT !.stale = TRUE]
    <3>1. dueRow.status = jobs[d].status /\ staleRow.status = jobs[d].status
      BY <2>0 DEF TypeOK, JobRow
    <3>2. jobs' = [jobs EXCEPT ![d] = dueRow] \/ jobs' = [jobs EXCEPT ![d] = staleRow]
      BY <2>3 DEF BecomeDue, LeaseExpires
    <3> HIDE DEF dueRow, staleRow
    <3>3. \A c \in Deliveries : jobs'[c].status = jobs[c].status
      BY <2>0, <3>1, <3>2 DEF TypeOK
    <3>4. UNCHANGED <<deliveries, runner, handler>>
      BY <2>3 DEF BecomeDue, LeaseExpires
    <3>5. QED
      BY <2>0, <3>3, <3>4 DEF Mirrors, MirrorRow, MirrorRunner, MirrorHandler, MayRetry
  <2>4. CASE Crash
    BY <2>0, <2>4 DEF Crash, Mirrors, MirrorRow, MirrorRunner, MirrorHandler, Idle, Free
  <2>5. CASE UNCHANGED vars
    BY <2>0, <2>5 DEF vars, Mirrors, MirrorRow, MirrorRunner, MirrorHandler, MayRetry
  <2>6. QED
    BY <2>1, <2>2, <2>3, <2>4, <2>5 DEF Next
<1>3. QueueInv /\ MirrorInv => DeliveryMirrorsJob
  BY DEF MirrorInv, Mirrors, MirrorRow, DeliveryMirrorsJob
<1>4. QED
  BY <1>1, <1>2, <1>3, TypeCorrect, QueueInvariant, PTL DEF Spec

-----------------------------------------------------------------------------
(* Runners whose lease is over.  A lease that expires while it is used     *)
(* makes one; a stray that settles the job may take the lease from the     *)
(* runner that has it, and is one no longer.                               *)

StrayInv ==
  \A d \in Deliveries : IsFiniteSet(Strays(d)) /\ Cardinality(Strays(d)) <= overruns

\* How a step may change the strays of job d.
StraysKept(d) ==
  /\ overruns' \in {overruns, overruns + 1}
  /\ \/ Strays(d)' \subseteq Strays(d)
     \/ overruns' = overruns + 1 /\ \E q : Strays(d)' \subseteq Strays(d) \cup {q}
     \/ \E r \in Strays(d) : \E q : Strays(d)' \subseteq (Strays(d) \ {r}) \cup {q}

\* A runner at work has a token that was issued, and that no other has.
LEMMA TokensIn ==
  ASSUME QueueInv, NEW r \in Runners, NEW d \in Deliveries, Unsettled(r, d)
  PROVE  /\ runner[r].token \in 1 .. jobs[d].attempts
         /\ jobs[d].attempts \in Nat /\ runner[r].token \in Nat
         /\ \A q \in Runners : Unsettled(q, d) /\ runner[q].token = runner[r].token => q = r
BY DEF QueueInv, TypeOK, JobRow, RunnerState, TokensIssued, TokensDiffer, Unsettled

\* A runner that does not settle its job stays at work on it.
LEMMA UnsettledStays ==
  ASSUME TypeOK, NEW r \in Runners, NEW p \in HoldingPcs \ {"alerting"},
         runner[r].pc \in HoldingPcs \ {"alerting"}, runner' = [runner EXCEPT ![r].pc = p],
         NEW q \in Runners, NEW d \in Deliveries
  PROVE  /\ Unsettled(q, d)' <=> Unsettled(q, d)
         /\ runner'[q].token = runner[q].token
BY DEF TypeOK, RunnerState, Unsettled, Holds

\* A step that leaves the row alone, and brings nobody to work on it.
LEMMA StraysUntouched ==
  ASSUME TypeOK, NEW d \in Deliveries, overruns' = overruns,
         jobs'[d].status = jobs[d].status, jobs'[d].attempts = jobs[d].attempts,
         jobs'[d].stale = jobs[d].stale,
         \A q \in Runners : Unsettled(q, d)' =>
           Unsettled(q, d) /\ runner'[q].token = runner[q].token
  PROVE  StraysKept(d)
<1>1. InForce(d)' = InForce(d)
  BY DEF InForce
<1>2. Strays(d)' \subseteq Strays(d)
  BY <1>1 DEF Strays
<1> QED
  BY <1>2 DEF StraysKept

\* A claim takes a lease that is over: the others at work were astray before.
LEMMA ClaimStrays ==
  ASSUME QueueInv, NEW r \in Runners, NEW d \in Deliveries, Claimable(d), Claim(r, d),
         UNCHANGED overruns, runner[r].pc \notin HoldingPcs
  PROVE  \A c \in Deliveries : StraysKept(c)
<1> DEFINE n == jobs[d].attempts
<1>1. TypeOK /\ n \in Nat
  BY DEF QueueInv, TypeOK, JobRow
<1>2. /\ \A q \in Runners : q # r => runner'[q] = runner[q]
      /\ runner'[r] \in {[pc |-> "claimed", job |-> d, token |-> n + 1], Free}
  BY <1>1 DEF Claim, TypeOK
<1>3. \A q \in Runners, c \in Deliveries :
        q # r => /\ Unsettled(q, c)' <=> Unsettled(q, c)
                 /\ runner'[q].token = runner[q].token
  BY <1>2 DEF Unsettled, Holds
<1>4. \A c \in Deliveries : Unsettled(r, c)' =>
        c = d /\ runner'[r] = [pc |-> "claimed", job |-> d, token |-> n + 1]
  BY <1>2 DEF Unsettled, Holds, Free, HoldingPcs
<1>5. \A c \in Deliveries : c # d => jobs'[c] = jobs[c]
  BY <1>1 DEF Claim, Claimed, TypeOK
<1>6. ASSUME NEW c \in Deliveries, c # d  PROVE StraysKept(c)
  BY <1>1, <1>3, <1>4, <1>5, <1>6, StraysUntouched
<1>7. StraysKept(d)
  <2>1. ~InForce(d)
    BY DEF Claimable, Abandoned, InForce
  <2>2. ASSUME Unsettled(r, d)'
        PROVE  InForce(d)' /\ runner'[r].token = jobs'[d].attempts
    <3>1. runner' # [runner EXCEPT ![r] = Free]
      <4>1. Free.pc # "claimed"
        BY DEF Free
      <4> QED
        BY <1>1, <1>4, <2>2, <4>1 DEF TypeOK
    <3>2. jobs' = Claimed(d)
      BY <3>1 DEF Claim
    <3> QED
      BY <1>1, <1>4, <2>2, <3>2 DEF Claimed, TypeOK, InForce
  <2>3. Strays(d)' \subseteq Strays(d)
    BY <1>3, <2>1, <2>2 DEF Strays
  <2> QED
    BY <2>3 DEF StraysKept
<1> QED
  BY <1>6, <1>7

\* Settling a job ends the lease in force, the runner's own or another's.
LEMMA SettleStrays ==
  ASSUME QueueInv, NEW r \in Runners, NEW d \in Deliveries, Unsettled(r, d),
         NEW s \in {"processed", "retrying", "failed"}, NEW b \in BOOLEAN,
         Settle(d, s, b), UNCHANGED overruns,
         \/ runner' = [runner EXCEPT ![r] = Free]
         \/ runner' = [runner EXCEPT ![r].pc = "alerting"]
  PROVE  \A c \in Deliveries : StraysKept(c)
<1> DEFINE n == jobs[d].attempts
<1>1. TypeOK
  BY DEF QueueInv
<1>2. /\ \A q \in Runners : q # r => runner'[q] = runner[q]
      /\ runner'[r].pc \in {"idle", "alerting"}
  BY <1>1 DEF TypeOK, RunnerState, Free
<1>3. \A q \in Runners, c \in Deliveries :
        Unsettled(q, c)' => /\ q # r /\ Unsettled(q, c)
                            /\ runner'[q].token = runner[q].token
  BY <1>2 DEF Unsettled, Holds, HoldingPcs
<1>4. \A c \in Deliveries : c # d => jobs'[c] = jobs[c]
  BY <1>1 DEF Settle, TypeOK
<1>5. ASSUME NEW c \in Deliveries, jobs'[c] = jobs[c]  PROVE StraysKept(c)
  BY <1>1, <1>3, <1>5, StraysUntouched
<1>6. CASE jobs' # jobs
  <2>0. overruns' \in {overruns, overruns + 1}
    OBVIOUS
  <2>1. \A q \in Strays(d)' : q # r /\ q \in Runners /\ Unsettled(q, d)
    BY <1>3 DEF Strays
  <2>2. ASSUME r \in Strays(d) PROVE StraysKept(d)
    <3>1. CASE \E u \in Runners : Unsettled(u, d) /\ InForce(d) /\ runner[u].token = n
      <4>1. PICK u \in Runners : Unsettled(u, d) /\ InForce(d) /\ runner[u].token = n
        BY <3>1
      <4>2. \A q \in Runners : Unsettled(q, d) /\ runner[q].token = n => q = u
        BY <4>1, TokensIn
      <4>3. Strays(d)' \subseteq (Strays(d) \ {r}) \cup {u}
        BY <2>1, <4>2 DEF Strays
      <4> QED
        BY <2>0, <2>2, <4>3, Zenon DEF StraysKept
    <3>2. CASE ~\E u \in Runners : Unsettled(u, d) /\ InForce(d) /\ runner[u].token = n
      <4>1. Strays(d)' \subseteq Strays(d)
        BY <2>1, <3>2 DEF Strays
      <4> QED
        BY <2>0, <4>1, Zenon DEF StraysKept
    <3> QED
      BY <3>1, <3>2
  <2>3. ASSUME r \notin Strays(d) PROVE StraysKept(d)
    <3>1. runner[r].token = n
      BY <2>3 DEF Strays
    <3>2. \A q \in Runners : q # r /\ Unsettled(q, d) => runner[q].token # n
      BY <3>1, TokensIn
    <3>3. Strays(d)' \subseteq Strays(d)
      BY <2>1, <3>2 DEF Strays
    <3> QED
      BY <2>0, <3>3, Zenon DEF StraysKept
  <2>4. StraysKept(d)
    BY <2>2, <2>3
  <2> QED
    BY <1>4, <1>5, <2>4
<1> QED
  BY <1>5, <1>6

\* A webhook request puts nobody to work.
LEMMA HandlerStrays ==
  ASSUME QueueInv, NEW h \in Handlers, HandlerStep(h)
  PROVE  \A d \in Deliveries : StraysKept(d)
<1> SUFFICES ASSUME NEW d \in Deliveries PROVE StraysKept(d)
  OBVIOUS
<1>1. TypeOK /\ UNCHANGED <<runner, overruns>>
  BY DEF QueueInv, HandlerStep, RecordDelivery, EnqueueWebhookJob, RefuseDelivery, SignalWorker
<1>2. \A q \in Runners : /\ Unsettled(q, d)' <=> Unsettled(q, d)
                         /\ runner'[q].token = runner[q].token
  BY <1>1 DEF Unsettled, Holds
<1>3. CASE jobs'[d] = jobs[d]
  BY <1>1, <1>2, <1>3, StraysUntouched
<1>4. CASE jobs'[d] # jobs[d]
  <2>1. jobs' = WithJob(handler[h].job)
    BY <1>4 DEF HandlerStep, RecordDelivery, EnqueueWebhookJob, RefuseDelivery, SignalWorker
  <2>2. jobs[d].status = "none"
    BY <1>1, <1>4, <2>1 DEF WithJob, TypeOK
  <2>3. \A q \in Runners : ~Unsettled(q, d)
    BY <2>2, HeldHasRow DEF Unsettled
  <2>4. Strays(d)' \subseteq Strays(d)
    BY <1>2, <2>3 DEF Strays
  <2> QED
    BY <1>1, <2>4 DEF StraysKept
<1> QED
  BY <1>3, <1>4

\* No step of a runner makes another stray.
LEMMA RunnerStrays ==
  ASSUME QueueInv, NEW r \in Runners, RunnerStep(r)
  PROVE  \A d \in Deliveries : StraysKept(d)
<1>0. TypeOK
  BY DEF QueueInv
<1>1. CASE \/ ReceiveSignal(r) \/ SendAlert(r)
           \/ ClaimSignalled(r) /\ runner' = [runner EXCEPT ![r] = Free] /\ UNCHANGED jobs
  <2>1. UNCHANGED <<jobs, overruns>>
    BY <1>1 DEF ReceiveSignal, SendAlert, ClaimSignalled
  <2>2. PICK row : /\ runner' = [runner EXCEPT ![r] = row]
                   /\ row.pc \in {"idle", "signalled"}
    <3> DEFINE got == [pc |-> "signalled", job |-> Head(signals), token |-> 0]
    <3>1. got.pc = "signalled" /\ Free.pc = "idle"
      BY DEF Free
    <3>2. runner' = [runner EXCEPT ![r] = got] \/ runner' = [runner EXCEPT ![r] = Free]
      BY <1>1 DEF ReceiveSignal, SendAlert
    <3> HIDE DEF got
    <3> QED
      BY <3>1, <3>2
  <2>3. /\ \A q \in Runners : q # r => runner'[q] = runner[q]
        /\ runner'[r].pc \in {"idle", "signalled"}
    BY <1>0, <2>2 DEF TypeOK
  <2>4. \A q \in Runners, d \in Deliveries : Unsettled(q, d)' =>
          Unsettled(q, d) /\ runner'[q].token = runner[q].token
    BY <2>3 DEF Unsettled, Holds, HoldingPcs
  <2> QED
    BY <1>0, <2>1, <2>4, StraysUntouched
<1>2. CASE ClaimSignalled(r) \/ ClaimNext(r)
  <2>1. CASE runner' = [runner EXCEPT ![r] = Free] /\ UNCHANGED jobs /\ ClaimSignalled(r)
    BY <1>1, <2>1
  <2>2. CASE \E d \in Deliveries : Claim(r, d) /\ Claimable(d)
    <3>1. runner[r].pc \notin HoldingPcs /\ UNCHANGED overruns
      BY <1>2 DEF ClaimSignalled, ClaimNext, HoldingPcs
    <3> QED
      BY <2>2, <3>1, ClaimStrays
  <2> QED
    BY <1>0, <1>2, <2>1, <2>2 DEF ClaimSignalled, ClaimNext, NextInLine, Claimable, TypeOK
<1>3. CASE MarkProcessing(r) \/ ProcessEvent(r) \/ MarkOutcome(r)
  <2>1. runner[r].pc \in HoldingPcs \ {"alerting"} /\ UNCHANGED <<jobs, overruns>>
    BY <1>3 DEF MarkProcessing, ProcessEvent, MarkOutcome, HoldingPcs
  <2>2. PICK p \in HoldingPcs \ {"alerting"} : runner' = [runner EXCEPT ![r].pc = p]
    BY <1>3 DEF MarkProcessing, ProcessEvent, MarkOutcome, HoldingPcs
  <2>3. \A q \in Runners, d \in Deliveries : /\ Unsettled(q, d)' <=> Unsettled(q, d)
                                             /\ runner'[q].token = runner[q].token
    BY <1>0, <2>1, <2>2, UnsettledStays
  <2> QED
    BY <1>0, <2>1, <2>3, StraysUntouched
<1>4. CASE CompleteWebhookJob(r) \/ RetryWebhookJob(r) \/ FailWebhookJob(r)
  <2>1. runner[r].job \in Deliveries /\ Unsettled(r, runner[r].job)
    BY <1>0, <1>4 DEF CompleteWebhookJob, RetryWebhookJob, FailWebhookJob,
                      TypeOK, Unsettled, Holds, HoldingPcs
  <2>2. PICK s \in {"processed", "retrying", "failed"}, b \in BOOLEAN :
          Settle(runner[r].job, s, b)
    BY <1>0, <1>4, <2>1, SettleCases
  <2>3. /\ UNCHANGED overruns
        /\ \/ runner' = [runner EXCEPT ![r] = Free]
           \/ runner' = [runner EXCEPT ![r].pc = "alerting"]
    BY <1>4 DEF CompleteWebhookJob, RetryWebhookJob, FailWebhookJob
  <2> QED
    BY <2>1, <2>2, <2>3, SettleStrays
<1> QED
  BY <1>1, <1>2, <1>3, <1>4 DEF RunnerStep

\* A lease that expires while it is used makes one stray, and is counted.
LEMMA TimeStrays ==
  ASSUME QueueInv, NEW c \in Deliveries, BecomeDue(c) \/ LeaseExpires(c)
  PROVE  \A d \in Deliveries : StraysKept(d)
<1> SUFFICES ASSUME NEW d \in Deliveries PROVE StraysKept(d)
  OBVIOUS
<1>1. TypeOK /\ UNCHANGED runner
  BY DEF QueueInv, BecomeDue, LeaseExpires
<1>2. \A q \in Runners : /\ Unsettled(q, d)' <=> Unsettled(q, d)
                         /\ runner'[q].token = runner[q].token
  BY <1>1 DEF Unsettled, Holds
<1>3. CASE LeaseExpires(c) /\ c = d /\ LeaseInUse(d)
  <2>1. PICK u \in Runners : Unsettled(u, d) /\ runner[u].token = jobs[d].attempts
    BY <1>3 DEF LeaseInUse
  <2>2. \A q \in Runners : Unsettled(q, d) /\ runner[q].token = jobs[d].attempts => q = u
    BY <2>1, TokensIn
  <2>3. Strays(d)' \subseteq Strays(d) \cup {u}
    BY <1>2, <2>2 DEF Strays
  <2>4. overruns' = overruns + 1
    BY <1>3 DEF LeaseExpires
  <2> QED
    BY <2>3, <2>4, Zenon DEF StraysKept
<1>4. CASE LeaseExpires(c) /\ c = d /\ ~LeaseInUse(d)
  <2>1. Strays(d)' \subseteq Strays(d)
    BY <1>2, <1>4 DEF Strays, LeaseInUse
  <2> QED
    BY <1>4, <2>1 DEF StraysKept, LeaseExpires
<1>5. CASE BecomeDue(c) \/ c # d
  <2>1. /\ jobs'[d].status = jobs[d].status /\ jobs'[d].attempts = jobs[d].attempts
        /\ jobs'[d].stale = jobs[d].stale
    <3> DEFINE dueRow == [jobs[c] EXCEPT !.due = TRUE]
    <3>1. /\ dueRow.status = jobs[c].status /\ dueRow.attempts = jobs[c].attempts
          /\ dueRow.stale = jobs[c].stale
      BY <1>1 DEF TypeOK, JobRow
    <3>2. jobs' = [jobs EXCEPT ![c] = dueRow] \/ (c # d /\ jobs'[d] = jobs[d])
      BY <1>1, <1>5 DEF BecomeDue, LeaseExpires, TypeOK
    <3> HIDE DEF dueRow
    <3> QED
      BY <1>1, <3>1, <3>2 DEF TypeOK
  <2>2. Strays(d)' \subseteq Strays(d)
    BY <1>2, <2>1 DEF Strays, InForce
  <2>3. overruns' \in {overruns, overruns + 1}
    BY DEF BecomeDue, LeaseExpires
  <2> QED
    BY <2>2, <2>3 DEF StraysKept
<1> QED
  BY <1>3, <1>4, <1>5

\* Two worker goroutines never run the same attempt of a job, and no more than
\* one for each lease that expired under its worker runs the job besides the one
\* that has the lease, through any crashes, store errors and overruns.
THEOREM LeasesExclude == Spec => []ExclusiveLease
<1>1. Init => StrayInv
  <2> SUFFICES ASSUME Init, NEW d \in Deliveries
               PROVE  IsFiniteSet(Strays(d)) /\ Cardinality(Strays(d)) <= overruns
    BY DEF StrayInv
  <2>1. Strays(d) = {} /\ overruns = 0
    BY DEF Init, Strays, Unsettled, Holds, Free, HoldingPcs
  <2> QED
    BY <2>1, FS_EmptySet
<1>2. QueueInv /\ StrayInv /\ [Next]_vars => StrayInv'
  <2> SUFFICES ASSUME QueueInv, StrayInv, [Next]_vars, NEW d \in Deliveries
               PROVE  IsFiniteSet(Strays(d)') /\ Cardinality(Strays(d)') <= overruns'
    BY DEF StrayInv
  <2>0. TypeOK
    BY DEF QueueInv
  <2>1. CASE UNCHANGED vars
    <3>1. UNCHANGED <<jobs, runner, overruns>>
      BY <2>1 DEF vars
    <3> QED
      BY <3>1 DEF StrayInv, Strays, InForce, Unsettled, Holds
  <2>2. CASE Next
    <3>1. ASSUME Crash PROVE StraysKept(d)
      <4>1. Strays(d)' \subseteq Strays(d) /\ overruns' \in {overruns, overruns + 1}
        BY <3>1 DEF Crash, Strays, Unsettled, Holds, Free, HoldingPcs
      <4> QED
        BY <4>1, Zenon DEF StraysKept
    <3>2. StraysKept(d)
      BY <2>2, <3>1, HandlerStrays, RunnerStrays, TimeStrays DEF Next
    <3> DEFINE M == Strays(d)  N == Strays(d)'
    <3>3. overruns \in Nat /\ IsFiniteSet(M) /\ 0 + Cardinality(M) <= overruns
      BY <2>0, FS_CardinalityType DEF StrayInv, TypeOK
    <3>4. /\ overruns' \in {overruns, overruns + 1}
          /\ \/ N \subseteq M
             \/ overruns' = overruns + 1 /\ \E q : N \subseteq M \cup {q}
             \/ \E r \in M : \E q : N \subseteq (M \ {r}) \cup {q}
      BY <3>2, Zenon DEF StraysKept
    <3> HIDE DEF M, N
    <3>5. IsFiniteSet(N) /\ 0 + Cardinality(N) <= overruns'
      <4>1. 0 \in Nat /\ 0 <= 0
        OBVIOUS
      <4>2. \/ 0 <= 0 /\ N \subseteq M
            \/ overruns' = overruns + 1 /\ 0 <= 0 /\ \E q : N \subseteq M \cup {q}
            \/ \E r \in M : 0 <= 0 /\ \E q : N \subseteq (M \ {r}) \cup {q}
        BY <3>4, <4>1, Zenon
      <4> QED
        BY <3>3, <3>4, <4>1, <4>2, Tally
    <3>6. Cardinality(N) \in Nat
      BY <3>5, FS_CardinalityType
    <3>7. IsFiniteSet(N) /\ Cardinality(N) <= overruns'
      BY <3>3, <3>4, <3>5, <3>6
    <3> QED
      BY <3>7 DEF N
  <2> QED
    BY <2>1, <2>2
<1>3. QueueInv /\ StrayInv => ExclusiveLease
  BY DEF QueueInv, TypeOK, TokensDiffer, StrayInv, ExclusiveLease, Unsettled
<1> QED
  BY <1>1, <1>2, <1>3, QueueInvariant, PTL DEF Spec

-----------------------------------------------------------------------------
(* Attempts beyond max_attempts.  A job whose attempts are used up is      *)
(* attempted again only after its last attempt was lost, or because a      *)
(* runner without the lease puts it back; such a runner still has attempts *)
(* to go by the token it was given, and lost the lease when it was overrun *)
(* or when another such runner put the job back.                           *)

\* Runners without the lease that may still put the job back.
Reopeners(d) ==
  {r \in Runners : /\ Unsettled(r, d) /\ runner[r].token < MaxAttempts
                   /\ ~(InForce(d) /\ runner[r].token = jobs[d].attempts)}

\* The job is waiting to be claimed, or will be when its lease has expired.
Waits(d) ==
  \/ jobs[d].status \in {"queued", "retrying"}
  \/ jobs[d].status = "processing" /\ (jobs[d].stale \/ ~LeaseInUse(d))

\* Attempts beyond max_attempts, with the one the job waits for.
Beyond(d) ==
  IF jobs[d].attempts < MaxAttempts THEN 0
  ELSE jobs[d].attempts - MaxAttempts + (IF Waits(d) THEN 1 ELSE 0)

Mishaps == crashes + errors + overruns

AccountInv ==
  \A d \in Deliveries : /\ IsFiniteSet(Reopeners(d))
                        /\ Beyond(d) + Cardinality(Reopeners(d)) <= Mishaps

LEMMA BeyondNat ==
  ASSUME TypeOK, NEW d \in Deliveries
  PROVE  Beyond(d) \in Nat /\ Mishaps \in Nat
<1>1. jobs[d].attempts \in Nat /\ MaxAttempts \in Nat
  BY MaxAttemptsAssumption DEF TypeOK, JobRow
<1> QED
  BY <1>1 DEF Beyond, Mishaps, TypeOK

LEMMA BeyondNextNat ==
  ASSUME TypeOK', NEW d \in Deliveries
  PROVE  Beyond(d)' \in Nat
<1>1. jobs'[d].attempts \in Nat /\ MaxAttempts \in Nat
  BY MaxAttemptsAssumption DEF TypeOK, JobRow
<1> QED
  BY <1>1 DEF Beyond

\* How a step may change the account of job d: it takes nothing up, it is one
\* mishap more, or a runner that might put the job back did so.
NoMore(d) == Beyond(d)' <= Beyond(d) /\ Reopeners(d)' \subseteq Reopeners(d)

OneMore(d) ==
  \/ Beyond(d)' <= Beyond(d) + 1 /\ Reopeners(d)' \subseteq Reopeners(d)
  \/ Beyond(d)' <= Beyond(d) /\ \E q : Reopeners(d)' \subseteq Reopeners(d) \cup {q}

Exchanged(d) ==
  \E r \in Reopeners(d) :
    \/ Beyond(d)' <= Beyond(d) + 1 /\ Reopeners(d)' \subseteq Reopeners(d) \ {r}
    \/ /\ Beyond(d)' <= Beyond(d)
       /\ \E q : Reopeners(d)' \subseteq (Reopeners(d) \ {r}) \cup {q}

Accounted(d) ==
  /\ Mishaps' \in {Mishaps, Mishaps + 1}
  /\ NoMore(d) \/ Exchanged(d) \/ (Mishaps' = Mishaps + 1 /\ OneMore(d))

LEMMA AccountKept ==
  ASSUME TypeOK, TypeOK', AccountInv, \A d \in Deliveries : Accounted(d)
  PROVE  AccountInv'
<1> SUFFICES ASSUME NEW d \in Deliveries
             PROVE  IsFiniteSet(Reopeners(d)') /\ Beyond(d)' + Cardinality(Reopeners(d)') <= Mishaps'
  BY DEF AccountInv
<1> DEFINE M == Reopeners(d)  N == Reopeners(d)'
           b == Beyond(d)     b2 == Beyond(d)'
<1>1. b \in Nat /\ Mishaps \in Nat /\ b2 \in Nat /\ Mishaps' \in {Mishaps, Mishaps + 1}
  BY BeyondNat, BeyondNextNat DEF Accounted
<1>2. IsFiniteSet(M) /\ b + Cardinality(M) <= Mishaps
  BY DEF AccountInv
<1>3. \/ b2 <= b /\ N \subseteq M
      \/ Mishaps' = Mishaps + 1 /\ b2 <= b + 1 /\ N \subseteq M
      \/ Mishaps' = Mishaps + 1 /\ b2 <= b /\ \E q : N \subseteq M \cup {q}
      \/ \E r \in M : b2 <= b + 1 /\ N \subseteq M \ {r}
      \/ \E r \in M : b2 <= b /\ \E q : N \subseteq (M \ {r}) \cup {q}
  <2>1. CASE NoMore(d)
    BY <2>1 DEF NoMore
  <2>2. CASE Exchanged(d)
    BY <2>2, Zenon DEF Exchanged
  <2>3. CASE Mishaps' = Mishaps + 1 /\ OneMore(d)
    BY <2>3, Zenon DEF OneMore
  <2> QED
    BY <2>1, <2>2, <2>3 DEF Accounted
<1> HIDE DEF M, N, b, b2
<1>4. IsFiniteSet(N) /\ b2 + Cardinality(N) <= Mishaps'
  BY <1>1, <1>2, <1>3, Tally
<1> QED
  BY <1>4 DEF N, b2

\* A step that leaves the row and the work on it alone.
LEMMA RowUntouched ==
  ASSUME TypeOK, NEW d \in Deliveries, Mishaps' \in {Mishaps, Mishaps + 1},
         jobs'[d].status = jobs[d].status, jobs'[d].attempts = jobs[d].attempts,
         jobs'[d].stale = jobs[d].stale,
         \A q \in Runners : /\ Unsettled(q, d)' <=> Unsettled(q, d)
                            /\ Unsettled(q, d) => runner'[q].token = runner[q].token
  PROVE  Accounted(d)
<1>1. InForce(d)' = InForce(d) /\ LeaseInUse(d)' = LeaseInUse(d)
  BY DEF InForce, LeaseInUse
<1>2. Waits(d)' = Waits(d)
  BY <1>1 DEF Waits
<1>3. Beyond(d)' = Beyond(d)
  BY <1>2 DEF Beyond
<1>4. Reopeners(d)' \subseteq Reopeners(d)
  BY <1>1 DEF Reopeners
<1>5. Beyond(d)' <= Beyond(d)
  BY <1>3, BeyondNat
<1> QED
  BY <1>4, <1>5 DEF Accounted, NoMore

LEMMA ClaimAccounted ==
  ASSUME QueueInv, NEW r \in Runners, NEW d \in Deliveries, Claimable(d), Claim(r, d),
         UNCHANGED <<crashes, overruns>>, runner[r].pc \notin HoldingPcs
  PROVE  \A c \in Deliveries : Accounted(c)
<1> DEFINE n == jobs[d].attempts
<1>1. TypeOK /\ n \in Nat /\ errors \in Nat /\ crashes \in Nat /\ overruns \in Nat
      /\ MaxAttempts \in Nat \ {0}
  BY MaxAttemptsAssumption DEF QueueInv, TypeOK, JobRow
<1>2. errors' = errors \/ errors' = errors + 1
  BY DEF Claim, StoreOk, StoreError
<1>3. Mishaps' \in {Mishaps, Mishaps + 1} /\ (errors' # errors => Mishaps' = Mishaps + 1)
  BY <1>1, <1>2 DEF Mishaps
<1>4. /\ \A q \in Runners : q # r => runner'[q] = runner[q]
      /\ runner'[r] \in {[pc |-> "claimed", job |-> d, token |-> n + 1], Free}
  BY <1>1 DEF Claim, TypeOK
<1>5. \A q \in Runners, c \in Deliveries :
        q # r => /\ Unsettled(q, c)' <=> Unsettled(q, c)
                 /\ runner'[q].token = runner[q].token
  BY <1>4 DEF Unsettled, Holds
<1>6. /\ \A c \in Deliveries : ~Unsettled(r, c)
      /\ \A c \in Deliveries : Unsettled(r, c)' => c = d /\ runner'[r].token = n + 1
  BY <1>4 DEF Unsettled, Holds, Free, HoldingPcs
<1>7. CASE jobs' = jobs
  <2>1. runner'[r] = Free
    <3>1. Claimed(d)[d].attempts = n + 1 /\ n + 1 # n
      BY <1>1 DEF Claimed, TypeOK
    <3>2. runner' = [runner EXCEPT ![r] = Free]
      BY <1>7, <3>1 DEF Claim
    <3> QED
      BY <1>1, <3>2 DEF TypeOK
  <2>2. \A c \in Deliveries : ~Unsettled(r, c)'
    BY <2>1 DEF Unsettled, Holds, Free, HoldingPcs
  <2> QED
    BY <1>1, <1>3, <1>5, <1>6, <1>7, <2>2, RowUntouched
<1>8. CASE jobs' = Claimed(d)
  <2>1. /\ jobs'[d].status = "processing" /\ jobs'[d].attempts = n + 1
        /\ jobs'[d].stale = FALSE
        /\ \A c \in Deliveries : c # d => jobs'[c] = jobs[c]
    BY <1>1, <1>8 DEF Claimed, TypeOK
  <2>2. ASSUME NEW c \in Deliveries, c # d  PROVE Accounted(c)
    BY <1>1, <1>3, <1>5, <1>6, <2>1, <2>2, RowUntouched
  <2>3. ~InForce(d) /\ Waits(d)
    BY DEF Claimable, Abandoned, InForce, Waits
  <2>4. InForce(d)'
    BY <2>1 DEF InForce
  <2>5. Reopeners(d)' \subseteq Reopeners(d)
    BY <1>5, <1>6, <2>1, <2>3, <2>4 DEF Reopeners
  <2>6. Beyond(d) = IF n < MaxAttempts THEN 0 ELSE n - MaxAttempts + 1
    BY <2>3 DEF Beyond
  <2>7. CASE StoreOk
    <3>1. runner'[r] = [pc |-> "claimed", job |-> d, token |-> n + 1]
      <4>1. ~StoreError
        BY <1>1, <2>7 DEF StoreOk, StoreError
      <4> QED
        BY <1>1, <4>1 DEF Claim, TypeOK
    <3>2. Unsettled(r, d)' /\ runner'[r].token = jobs'[d].attempts
      BY <2>1, <3>1 DEF Unsettled, Holds, HoldingPcs
    <3>3. LeaseInUse(d)'
      BY <3>2 DEF LeaseInUse
    <3>4. ~Waits(d)'
      BY <2>1, <3>3 DEF Waits
    <3>5. Beyond(d)' = IF n + 1 < MaxAttempts THEN 0 ELSE n + 1 - MaxAttempts
      BY <1>1, <2>1, <3>4 DEF Beyond
    <3>6. Beyond(d)' <= Beyond(d)
      BY <1>1, <2>6, <3>5
    <3> QED
      BY <1>3, <2>2, <2>5, <3>6 DEF Accounted, NoMore
  <2>8. CASE StoreError
    <3>1. Mishaps' = Mishaps + 1
      BY <1>1, <1>3, <2>8 DEF StoreError
    <3>2. Beyond(d)' <= IF n + 1 < MaxAttempts THEN 0 ELSE n + 1 - MaxAttempts + 1
      BY <1>1, <2>1 DEF Beyond
    <3>3. Beyond(d)' <= Beyond(d) + 1
      <4>1. Beyond(d)' \in Int
        BY <1>1, <2>1 DEF Beyond
      <4> QED
        BY <1>1, <2>6, <3>2, <4>1
    <3> QED
      BY <1>3, <2>2, <2>5, <3>1, <3>3 DEF Accounted, OneMore
  <2> QED
    BY <2>7, <2>8 DEF Claim
<1> QED
  BY <1>7, <1>8 DEF Claim

LEMMA SettleAccounted ==
  ASSUME QueueInv, NEW r \in Runners, NEW d \in Deliveries, Unsettled(r, d),
         NEW s \in {"processed", "retrying", "failed"}, s = "retrying" => MayRetry(r),
         NEW b \in BOOLEAN, Settle(d, s, b), UNCHANGED <<crashes, overruns>>,
         \/ runner' = [runner EXCEPT ![r] = Free]
         \/ runner' = [runner EXCEPT ![r].pc = "alerting"]
  PROVE  \A c \in Deliveries : Accounted(c)
<1> DEFINE n == jobs[d].attempts
           t == runner[r].token
<1>1. TypeOK /\ n \in Nat /\ errors \in Nat /\ crashes \in Nat /\ overruns \in Nat
      /\ MaxAttempts \in Nat \ {0} /\ t \in 1 .. n
  BY TokensIn, MaxAttemptsAssumption DEF QueueInv, TypeOK, JobRow
<1>2. errors' = errors \/ errors' = errors + 1
  BY DEF Settle, StoreOk, StoreError
<1>3. Mishaps' \in {Mishaps, Mishaps + 1} /\ (errors' # errors => Mishaps' = Mishaps + 1)
  BY <1>1, <1>2 DEF Mishaps
<1>4. /\ \A q \in Runners : q # r => runner'[q] = runner[q]
      /\ runner'[r].pc \in {"idle", "alerting"}
  BY <1>1 DEF TypeOK, RunnerState, Free
<1>5. \A q \in Runners, c \in Deliveries :
        q # r => /\ Unsettled(q, c)' <=> Unsettled(q, c)
                 /\ runner'[q].token = runner[q].token
  BY <1>4 DEF Unsettled, Holds
<1>6. \A c \in Deliveries : ~Unsettled(r, c)'
  BY <1>4 DEF Unsettled, Holds, HoldingPcs
<1>7. \A c \in Deliveries : c # d => ~Unsettled(r, c)
  BY DEF Unsettled, Holds
<1>8. \A c \in Deliveries : c # d => jobs'[c] = jobs[c]
  BY <1>1 DEF Settle, TypeOK
<1>9. ASSUME NEW c \in Deliveries, c # d  PROVE Accounted(c)
  BY <1>1, <1>3, <1>5, <1>6, <1>7, <1>8, <1>9, RowUntouched
<1>10. CASE StoreError /\ UNCHANGED jobs
  <2>1. Mishaps' = Mishaps + 1
    BY <1>1, <1>3, <1>10 DEF StoreError
  <2>2. Reopeners(d)' \subseteq Reopeners(d)
    BY <1>5, <1>6, <1>10 DEF Reopeners, InForce
  <2>3. Beyond(d)' <= Beyond(d) + 1
    BY <1>1, <1>10 DEF Beyond
  <2> QED
    BY <1>3, <1>9, <2>1, <2>2, <2>3 DEF Accounted, OneMore
<1>11. CASE /\ StoreOk
            /\ jobs' = [jobs EXCEPT ![d] = [status |-> s, attempts |-> @.attempts,
                                            due |-> b, stale |-> FALSE]]
  <2>1. /\ jobs'[d].status = s /\ jobs'[d].attempts = n
    BY <1>1, <1>11 DEF TypeOK
  <2>2. ~InForce(d)' /\ (Waits(d)' <=> s = "retrying")
    BY <2>1 DEF InForce, Waits
  <2>3. s = "retrying" => t < MaxAttempts
    BY DEF MayRetry
  <2>4. Beyond(d)' = IF n < MaxAttempts THEN 0
                     ELSE n - MaxAttempts + (IF s = "retrying" THEN 1 ELSE 0)
    BY <2>1, <2>2 DEF Beyond
  <2>5. \A q : q \in Reopeners(d)' <=> /\ q \in Runners /\ q # r /\ Unsettled(q, d)
                                       /\ runner[q].token < MaxAttempts
    BY <1>5, <1>6, <2>2 DEF Reopeners
  <2>6. \A q \in Runners : q # r /\ Unsettled(q, d) => runner[q].token # t
    BY TokensIn
  <2>7. CASE InForce(d) /\ t = n
    <3>1. Reopeners(d)' \subseteq Reopeners(d)
      BY <2>5, <2>6, <2>7 DEF Reopeners
    <3>2. Beyond(d)' <= Beyond(d)
      BY <1>1, <2>3, <2>4, <2>7 DEF Beyond
    <3> QED
      BY <1>3, <1>9, <3>1, <3>2 DEF Accounted, NoMore
  <2>8. CASE t >= MaxAttempts
    <3>1. Reopeners(d)' \subseteq Reopeners(d)
      BY <1>1, <2>5, <2>8 DEF Reopeners
    <3>2. Beyond(d)' <= Beyond(d)
      BY <1>1, <2>3, <2>4, <2>8 DEF Beyond
    <3> QED
      BY <1>3, <1>9, <3>1, <3>2 DEF Accounted, NoMore
  <2>9. CASE t < MaxAttempts /\ ~(InForce(d) /\ t = n)
    <3>1. r \in Reopeners(d) /\ r \notin Reopeners(d)'
      BY <2>5, <2>9 DEF Reopeners
    <3>2. \A q \in Reopeners(d)' : \/ q \in Reopeners(d) \ {r}
                                   \/ runner[q].token = n /\ n < MaxAttempts
      BY <2>5, <3>1 DEF Reopeners
    <3>3. CASE \E q \in Reopeners(d)' : runner[q].token = n /\ n < MaxAttempts
      <4>1. PICK q \in Reopeners(d)' : runner[q].token = n /\ n < MaxAttempts
        BY <3>3
      <4>2. \A p \in Reopeners(d)' : runner[p].token = n => p = q
        BY <2>5, <4>1, TokensIn
      <4>3. Reopeners(d)' \subseteq (Reopeners(d) \ {r}) \cup {q}
        BY <3>2, <4>2
      <4>4. Beyond(d)' = 0 /\ Beyond(d) = 0
        BY <2>4, <4>1 DEF Beyond
      <4>5. Beyond(d)' <= Beyond(d)
        BY <4>4
      <4>6. Exchanged(d)
        BY <3>1, <4>3, <4>5 DEF Exchanged
      <4> QED
        BY <1>3, <1>9, <4>6 DEF Accounted
    <3>4. CASE ~\E q \in Reopeners(d)' : runner[q].token = n /\ n < MaxAttempts
      <4>1. Reopeners(d)' \subseteq Reopeners(d) \ {r}
        BY <3>2, <3>4
      <4>2. Beyond(d)' <= Beyond(d) + 1
        BY <1>1, <2>4 DEF Beyond
      <4>3. Exchanged(d)
        BY <3>1, <4>1, <4>2 DEF Exchanged
      <4> QED
        BY <1>3, <1>9, <4>3 DEF Accounted
    <3> QED
      BY <3>3, <3>4
  <2> QED
    BY <1>1, <2>7, <2>8, <2>9
<1> QED
  BY <1>10, <1>11 DEF Settle

LEMMA HandlerAccounted ==
  ASSUME QueueInv, NEW h \in Handlers, HandlerStep(h)
  PROVE  \A d \in Deliveries : Accounted(d)
<1> SUFFICES ASSUME NEW d \in Deliveries PROVE Accounted(d)
  OBVIOUS
<1>1. TypeOK /\ UNCHANGED <<runner, crashes, overruns>>
  BY DEF QueueInv, HandlerStep, RecordDelivery, EnqueueWebhookJob, RefuseDelivery, SignalWorker
<1>2. errors' = errors \/ errors' = errors + 1
  BY DEF HandlerStep, RecordDelivery, EnqueueWebhookJob, RefuseDelivery, SignalWorker,
         StoreOk, StoreError
<1>3. Mishaps' \in {Mishaps, Mishaps + 1}
  BY <1>1, <1>2 DEF Mishaps, TypeOK
<1>4. \A q \in Runners : /\ Unsettled(q, d)' <=> Unsettled(q, d)
                         /\ runner'[q].token = runner[q].token
  BY <1>1 DEF Unsettled, Holds
<1>5. CASE jobs'[d] = jobs[d]
  BY <1>1, <1>3, <1>4, <1>5, RowUntouched
<1>6. CASE jobs'[d] # jobs[d]
  <2>1. EnqueueWebhookJob(h) /\ jobs' = WithJob(handler[h].job)
    BY <1>6 DEF HandlerStep, RecordDelivery, EnqueueWebhookJob, RefuseDelivery, SignalWorker
  <2>2. jobs[d].status = "none" /\ jobs'[d].attempts = 0
    BY <1>1, <1>6, <2>1 DEF WithJob, TypeOK
  <2>3. \A q \in Runners : ~Unsettled(q, d)
    BY <2>2, HeldHasRow DEF Unsettled
  <2>4. Reopeners(d)' \subseteq Reopeners(d)
    BY <1>4, <2>3 DEF Reopeners
  <2>5. jobs[d].attempts = 0
    BY <2>2 DEF QueueInv, NoRowNoAttempt
  <2>6. Beyond(d)' = 0 /\ Beyond(d) = 0
    BY <2>2, <2>5, MaxAttemptsAssumption DEF Beyond
  <2>7. Beyond(d)' <= Beyond(d)
    BY <2>6
  <2> QED
    BY <1>3, <2>4, <2>7 DEF Accounted, NoMore
<1> QED
  BY <1>5, <1>6

LEMMA RunnerAccounted ==
  ASSUME QueueInv, NEW r \in Runners, RunnerStep(r)
  PROVE  \A d \in Deliveries : Accounted(d)
<1>0. TypeOK /\ errors \in Nat /\ crashes \in Nat /\ overruns \in Nat
  BY DEF QueueInv, TypeOK
<1>1. CASE ReceiveSignal(r) \/ SendAlert(r)
  <2>1. UNCHANGED <<jobs, crashes, errors, overruns>>
    BY <1>1 DEF ReceiveSignal, SendAlert
  <2>2. Mishaps' = Mishaps
    BY <2>1 DEF Mishaps
  <2>3. \A q \in Runners, d \in Deliveries :
          /\ Unsettled(q, d)' <=> Unsettled(q, d)
          /\ Unsettled(q, d) => runner'[q].token = runner[q].token
    <3>1. PICK row : /\ runner' = [runner EXCEPT ![r] = row]
                     /\ row.pc \in {"idle", "signalled"}
      <4> DEFINE got == [pc |-> "signalled", job |-> Head(signals), token |-> 0]
      <4>1. got.pc = "signalled" /\ Free.pc = "idle"
        BY DEF Free
      <4>2. runner' = [runner EXCEPT ![r] = got] \/ runner' = [runner EXCEPT ![r] = Free]
        BY <1>1 DEF ReceiveSignal, SendAlert
      <4> HIDE DEF got
      <4> QED
        BY <4>1, <4>2
    <3>2. runner[r].pc \in {"idle", "alerting"}
      BY <1>1 DEF ReceiveSignal, SendAlert
    <3>3. /\ \A q \in Runners : q # r => runner'[q] = runner[q]
          /\ runner'[r].pc \in {"idle", "signalled"}
      BY <1>0, <3>1 DEF TypeOK
    <3>4. \A d \in Deliveries : ~Unsettled(r, d) /\ ~Unsettled(r, d)'
      BY <3>2, <3>3 DEF Unsettled, Holds, HoldingPcs
    <3> QED
      BY <3>3, <3>4 DEF Unsettled, Holds
  <2> QED
    BY <1>0, <2>1, <2>2, <2>3, RowUntouched
<1>2. CASE ClaimSignalled(r)
  <2>1. runner[r].job \in Deliveries /\ runner[r].pc \notin HoldingPcs
        /\ UNCHANGED <<crashes, overruns>>
    BY <1>0, <1>2 DEF TypeOK, ClaimSignalled, HoldingPcs
  <2>2. CASE Claimable(runner[r].job) /\ Claim(r, runner[r].job)
    BY <2>1, <2>2, ClaimAccounted
  <2>3. CASE runner' = [runner EXCEPT ![r] = Free] /\ UNCHANGED <<jobs, errors>>
    <3>1. Mishaps' = Mishaps
      BY <2>1, <2>3 DEF Mishaps
    <3>2. \A q \in Runners, d \in Deliveries :
            /\ Unsettled(q, d)' <=> Unsettled(q, d)
            /\ Unsettled(q, d) => runner'[q].token = runner[q].token
      BY <1>0, <2>1, <2>3 DEF Unsettled, Holds, Free, HoldingPcs, TypeOK
    <3> QED
      BY <1>0, <2>3, <3>1, <3>2, RowUntouched
  <2> QED
    BY <1>2, <2>2, <2>3 DEF ClaimSignalled
<1>3. CASE ClaimNext(r)
  <2>1. PICK d \in Deliveries : Claim(r, d) /\ Claimable(d)
    BY <1>3 DEF ClaimNext, NextInLine, Claimable
  <2>2. runner[r].pc \notin HoldingPcs /\ UNCHANGED <<crashes, overruns>>
    BY <1>3 DEF ClaimNext, HoldingPcs
  <2> QED
    BY <2>1, <2>2, ClaimAccounted
<1>4. CASE MarkProcessing(r) \/ ProcessEvent(r) \/ MarkOutcome(r)
  <2>1. runner[r].pc \in HoldingPcs \ {"alerting"} /\ UNCHANGED <<jobs, crashes, overruns>>
    BY <1>4 DEF MarkProcessing, ProcessEvent, MarkOutcome, HoldingPcs
  <2>2. PICK p \in HoldingPcs \ {"alerting"} : runner' = [runner EXCEPT ![r].pc = p]
    BY <1>4 DEF MarkProcessing, ProcessEvent, MarkOutcome, HoldingPcs
  <2>3. errors' = errors \/ errors' = errors + 1
    BY <1>4 DEF MarkProcessing, ProcessEvent, MarkOutcome, MarkDeliveryStatus, StoreOk, StoreError
  <2>4. Mishaps' \in {Mishaps, Mishaps + 1}
    BY <1>0, <2>1, <2>3 DEF Mishaps
  <2>5. \A q \in Runners, d \in Deliveries : /\ Unsettled(q, d)' <=> Unsettled(q, d)
                                             /\ runner'[q].token = runner[q].token
    BY <1>0, <2>1, <2>2, UnsettledStays
  <2> QED
    BY <1>0, <2>1, <2>4, <2>5, RowUntouched
<1>5. CASE CompleteWebhookJob(r) \/ RetryWebhookJob(r) \/ FailWebhookJob(r)
  <2>1. runner[r].job \in Deliveries /\ Unsettled(r, runner[r].job)
    BY <1>0, <1>5 DEF CompleteWebhookJob, RetryWebhookJob, FailWebhookJob,
                      TypeOK, Unsettled, Holds, HoldingPcs
  <2>2. PICK s \in {"processed", "retrying", "failed"}, b \in BOOLEAN :
          Settle(runner[r].job, s, b) /\ (s = "retrying" => MayRetry(r))
    BY <1>0, <1>5, <2>1, SettleCases
  <2>3. /\ UNCHANGED <<crashes, overruns>>
        /\ \/ runner' = [runner EXCEPT ![r] = Free]
           \/ runner' = [runner EXCEPT ![r].pc = "alerting"]
    BY <1>5 DEF CompleteWebhookJob, RetryWebhookJob, FailWebhookJob
  <2> QED
    BY <2>1, <2>2, <2>3, SettleAccounted
<1> QED
  BY <1>1, <1>2, <1>3, <1>4, <1>5 DEF RunnerStep

\* A lease that expires while it is used is a mishap.
LEMMA TimeAccounted ==
  ASSUME QueueInv, NEW c \in Deliveries, BecomeDue(c) \/ LeaseExpires(c)
  PROVE  \A d \in Deliveries : Accounted(d)
<1> SUFFICES ASSUME NEW d \in Deliveries PROVE Accounted(d)
  OBVIOUS
<1>1. TypeOK /\ UNCHANGED <<runner, crashes, errors>> /\ crashes \in Nat /\ errors \in Nat
      /\ overruns \in Nat /\ jobs[d].attempts \in Nat /\ MaxAttempts \in Nat \ {0}
  BY MaxAttemptsAssumption DEF QueueInv, BecomeDue, LeaseExpires, TypeOK, JobRow
<1>2. overruns' = overruns \/ overruns' = overruns + 1
  BY DEF BecomeDue, LeaseExpires
<1>3. Mishaps' \in {Mishaps, Mishaps + 1} /\ (overruns' # overruns => Mishaps' = Mishaps + 1)
  BY <1>1, <1>2 DEF Mishaps
<1>4. \A q \in Runners : /\ Unsettled(q, d)' <=> Unsettled(q, d)
                         /\ runner'[q].token = runner[q].token
  BY <1>1 DEF Unsettled, Holds
<1>5. /\ jobs'[d].status = jobs[d].status /\ jobs'[d].attempts = jobs[d].attempts
      /\ jobs'[d].stale # jobs[d].stale => d = c /\ LeaseExpires(c) /\ jobs'[d].stale = TRUE
  <2> DEFINE dueRow   == [jobs[c] EXCEPT !.due = TRUE]
             staleRow == [jobs[c] EXCEPT !.stale = TRUE]
  <2>1. /\ dueRow.status = jobs[c].status /\ dueRow.attempts = jobs[c].attempts
        /\ dueRow.stale = jobs[c].stale
        /\ staleRow.status = jobs[c].status /\ staleRow.attempts = jobs[c].attempts
        /\ staleRow.stale = TRUE
    BY <1>1 DEF TypeOK, JobRow
  <2>2. \/ jobs' = [jobs EXCEPT ![c] = dueRow]
        \/ LeaseExpires(c) /\ jobs' = [jobs EXCEPT ![c] = staleRow]
    BY DEF BecomeDue, LeaseExpires
  <2> HIDE DEF dueRow, staleRow
  <2> QED
    BY <1>1, <2>1, <2>2 DEF TypeOK
<1>6. CASE jobs'[d].stale = jobs[d].stale
  BY <1>1, <1>3, <1>4, <1>5, <1>6, RowUntouched
<1>7. CASE jobs'[d].stale # jobs[d].stale
  <2> DEFINE n == jobs[d].attempts
  <2>1. InForce(d) /\ (LeaseInUse(d) => overruns' = overruns + 1)
    BY <1>5, <1>7 DEF LeaseExpires, InForce
  <2>2. ~InForce(d)'
    BY <1>5, <1>7 DEF InForce
  <2>3. \A q : q \in Reopeners(d)' <=> /\ q \in Runners /\ Unsettled(q, d)
                                       /\ runner[q].token < MaxAttempts
    BY <1>4, <2>2 DEF Reopeners
  <2>4. \A q \in Reopeners(d)' : q \in Reopeners(d) \/ runner[q].token = n
    BY <2>3 DEF Reopeners
  <2>5. Beyond(d) \in Nat /\ Beyond(d)' <= Beyond(d) + 1
        /\ (n < MaxAttempts => Beyond(d)' <= Beyond(d))
    BY <1>1, <1>5 DEF Beyond
  <2>6. CASE ~LeaseInUse(d)
    <3>1. Reopeners(d)' \subseteq Reopeners(d)
      BY <2>3, <2>4, <2>6 DEF LeaseInUse
    <3>2. Waits(d)
      BY <2>1, <2>6 DEF Waits, InForce
    <3>3. Beyond(d)' <= Beyond(d)
      BY <1>1, <1>5, <3>2 DEF Beyond
    <3> QED
      BY <1>3, <3>1, <3>3 DEF Accounted, NoMore
  <2>7. CASE LeaseInUse(d) /\ n >= MaxAttempts
    <3>1. Reopeners(d)' \subseteq Reopeners(d)
      BY <1>1, <2>3, <2>4, <2>7, TokensIn
    <3>2. Mishaps' = Mishaps + 1
      BY <1>1, <1>3, <2>1, <2>7
    <3> QED
      BY <1>3, <2>5, <3>1, <3>2 DEF Accounted, OneMore
  <2>8. CASE LeaseInUse(d) /\ n < MaxAttempts
    <3>1. PICK u \in Runners : Unsettled(u, d) /\ runner[u].token = n
      BY <2>8 DEF LeaseInUse
    <3>2. \A q \in Reopeners(d)' : runner[q].token = n => q = u
      BY <2>3, <3>1, TokensIn
    <3>3. Reopeners(d)' \subseteq Reopeners(d) \cup {u}
      BY <2>4, <3>2
    <3>4. Mishaps' = Mishaps + 1
      BY <1>1, <1>3, <2>1, <2>8
    <3>5. OneMore(d)
      BY <2>5, <2>8, <3>3 DEF OneMore
    <3> QED
      BY <1>3, <3>4, <3>5 DEF Accounted
  <2> QED
    BY <1>1, <2>6, <2>7, <2>8
<1> QED
  BY <1>6, <1>7

LEMMA CrashAccounted ==
  ASSUME QueueInv, Crash
  PROVE  \A d \in Deliveries : Accounted(d)
<1> SUFFICES ASSUME NEW d \in Deliveries PROVE Accounted(d)
  OBVIOUS
<1>1. TypeOK /\ jobs[d].attempts \in Nat /\ crashes \in Nat /\ errors \in Nat /\ overruns \in Nat
  BY DEF QueueInv, TypeOK, JobRow
<1>0. MaxAttempts \in Nat
  BY MaxAttemptsAssumption
<1>2. Mishaps' = Mishaps + 1 /\ jobs' = jobs
  BY <1>1 DEF Crash, Mishaps
<1>3. \A q \in Runners : ~Unsettled(q, d)'
  BY DEF Crash, Unsettled, Holds, Free, HoldingPcs
<1>4. Reopeners(d)' \subseteq Reopeners(d)
  BY <1>3 DEF Reopeners
<1>5. Beyond(d)' <= Beyond(d) + 1
  BY <1>0, <1>1, <1>2 DEF Beyond
<1> QED
  BY <1>2, <1>4, <1>5 DEF Accounted, OneMore

\* ClaimWebhookJob does not look at max_attempts: still no job is attempted
\* more often than max_attempts and once for each crash, failed store call and
\* overrun lease.
THEOREM AttemptsBounded == Spec => []AttemptsAccounted
<1>1. Init => AccountInv
  <2> SUFFICES ASSUME Init, NEW d \in Deliveries
               PROVE  IsFiniteSet(Reopeners(d)) /\ Beyond(d) + Cardinality(Reopeners(d)) <= Mishaps
    BY DEF AccountInv
  <2>1. jobs[d].attempts = 0 /\ \A q \in Runners : ~Unsettled(q, d)
    BY DEF Init, NoJob, Unsettled, Holds, Free, HoldingPcs
  <2>2. Beyond(d) = 0 /\ Mishaps = 0
    BY <2>1, MaxAttemptsAssumption DEF Beyond, Init, Mishaps
  <2>3. Reopeners(d) = {}
    BY <2>1 DEF Reopeners
  <2> QED
    BY <2>2, <2>3, FS_EmptySet
<1>2. QueueInv /\ TypeOK' /\ AccountInv /\ [Next]_vars => AccountInv'
  <2> SUFFICES ASSUME QueueInv, TypeOK', AccountInv, [Next]_vars PROVE AccountInv'
    OBVIOUS
  <2>1. CASE UNCHANGED vars
    <3>1. UNCHANGED <<jobs, runner, crashes, errors, overruns>>
      BY <2>1 DEF vars
    <3> QED
      BY <3>1 DEF AccountInv, Reopeners, Beyond, Mishaps, Waits, InForce, LeaseInUse,
                  Unsettled, Holds
  <2>2. CASE Next
    <3>1. \A d \in Deliveries : Accounted(d)
      BY <2>2, HandlerAccounted, RunnerAccounted, TimeAccounted, CrashAccounted DEF Next
    <3>2. TypeOK
      BY DEF QueueInv
    <3> QED
      BY <3>1, <3>2, AccountKept
  <2> QED
    BY <2>1, <2>2
<1>3. QueueInv /\ AccountInv => AttemptsAccounted
  <2> SUFFICES ASSUME QueueInv, AccountInv, NEW d \in Deliveries
               PROVE  jobs[d].attempts <= MaxAttempts + crashes + errors + overruns
    BY DEF AttemptsAccounted
  <2>1. jobs[d].attempts \in Nat /\ crashes \in Nat /\ errors \in Nat /\ overruns \in Nat
        /\ MaxAttempts \in Nat
    BY MaxAttemptsAssumption DEF QueueInv, TypeOK, JobRow
  <2>2. Beyond(d) + Cardinality(Reopeners(d)) <= crashes + errors + overruns
        /\ Cardinality(Reopeners(d)) \in Nat
    BY FS_CardinalityType DEF AccountInv, Mishaps
  <2>3. Beyond(d) \in Nat /\ jobs[d].attempts - MaxAttempts <= Beyond(d)
    BY <2>1 DEF Beyond
  <2> QED
    BY <2>1, <2>2, <2>3
<1> QED
  BY <1>1, <1>2, <1>3, TypeCorrect, QueueInvariant, PTL DEF Spec
=============================================================================
