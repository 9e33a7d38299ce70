---------------------------- MODULE Installations ----------------------------
(***************************************************************************)
(* Which repositories are active: the events of one GitHub App             *)
(* installation (app/installations.go), and the webhook jobs of pull       *)
(* requests, which record their repository too (app/server.go and          *)
(* app/commands.go through UpsertRepository).  Events are jobs of the      *)
(* queue: workers run them concurrently and in any order, again after an   *)
(* error while attempts are left and again after a crash.                  *)
(***************************************************************************)
EXTENDS Naturals, Sequences, FiniteSets

CONSTANTS
  Repos,         \* repositories of the account
  MaxAttempts,   \* max_attempts of a job
  MaxEvents,     \* bound: events sent
  MaxFaults      \* bound: failed calls and crashes

ASSUME AttemptsAssumption == MaxAttempts \in Nat \ {0}

VARIABLES
  granted,       \* repositories GitHub lets the app see
  events,        \* jobs in the order of their events
  rows,          \* repositories.active by repository, "none": no row
  audits,        \* repositories with an installation_repository_removed entry
                 \* that is newer than their last record
  overtaken,     \* history: kinds of the jobs that a later job did not wait for
  faults         \* history: faults so far

vars == <<granted, events, rows, audits, overtaken, faults>>

Init ==
  /\ granted = {}
  /\ events = <<>>
  /\ rows = [r \in Repos |-> "none"]
  /\ audits = {}
  /\ overtaken = {}
  /\ faults = 0

Over(e) == events[e].pc \in {"done", "dead"}

Fault   == faults < MaxFaults /\ faults' = faults + 1
NoFault == UNCHANGED faults

-----------------------------------------------------------------------------
(* GitHub.  "created" and "added" list repositories alike.                 *)

Send(kind, repos) ==
  /\ Len(events) < MaxEvents
  /\ events' = Append(events, [kind |-> kind, repos |-> repos, pc |-> "queued",
                               attempt |-> 0, todo |-> {}])
  /\ UNCHANGED <<rows, audits, overtaken, faults>>

Grant ==
  \E repos \in SUBSET (Repos \ granted) \ {{}} :
    Send("added", repos) /\ granted' = granted \cup repos

Revoke ==
  \E repos \in SUBSET granted \ {{}} :
    Send("removed", repos) /\ granted' = granted \ repos

Uninstall ==
  /\ granted # {}
  /\ Send("deleted", granted) /\ granted' = {}

TouchPullRequest ==
  \E r \in granted : Send("pull_request", {r}) /\ UNCHANGED granted

-----------------------------------------------------------------------------
(* handleInstallationEvent, and the first store calls of a review or a     *)
(* command.                                                                *)

Failed(e) == IF events[e].attempt < MaxAttempts THEN "queued" ELSE "dead"

\* A step of job e on repository r; with the last one the job is over.
Advance(e, todo) ==
  events' = [events EXCEPT ![e].todo = todo, ![e].pc = IF todo = {} THEN "done" ELSE @]
Fail(e) == Fault /\ events' = [events EXCEPT ![e].pc = Failed(e)]

\* Job e is begun: the jobs of earlier events that are not over are overtaken.
Overtakes(e) ==
  overtaken' = overtaken \cup {events[d].kind : d \in {c \in 1 .. e - 1 : ~Over(c)}}

\* Mutant of Begin: an uninstallation is handled as a list of repositories.
BeginAlike(e) ==
  /\ events[e].pc = "queued" /\ NoFault
  /\ events' = [events EXCEPT ![e] = [@ EXCEPT !.attempt = @ + 1, !.todo = events[e].repos,
                                                !.pc = "working"]]
  /\ Overtakes(e)
  /\ UNCHANGED <<granted, rows, audits>>

\* The worker claims the job; UpsertInstallation.
Begin(e) ==
  /\ events[e].pc = "queued"
  /\ LET begun == [events[e] EXCEPT !.attempt = @ + 1, !.todo = events[e].repos] IN
     \/ /\ NoFault
        /\ events' = [events EXCEPT ![e] =
                        [begun EXCEPT !.pc = IF begun.kind = "deleted" THEN "selecting"
                                             ELSE "working"]]
     \/ /\ Fault
        /\ events' = [events EXCEPT ![e] =
                        [begun EXCEPT !.pc = IF begun.attempt < MaxAttempts THEN "queued"
                                             ELSE "dead"]]
  /\ Overtakes(e)
  /\ UNCHANGED <<granted, rows, audits>>

\* Mutant of UpsertRepository: a row that exists is left as it is.
UpsertRepositoryOnce(r) ==
  /\ rows' = IF rows[r] = "none" THEN [rows EXCEPT ![r] = "active"] ELSE rows
  /\ audits' = audits \ {r}

UpsertRepository(r) ==
  /\ rows' = [rows EXCEPT ![r] = "active"]
  /\ audits' = audits \ {r}

RecordRepository(e) ==
  /\ events[e].pc = "working" /\ events[e].kind \in {"added", "pull_request"}
  /\ \E r \in events[e].todo :
       \/ NoFault /\ UpsertRepository(r) /\ Advance(e, events[e].todo \ {r})
       \/ (UpsertRepository(r) \/ UNCHANGED <<rows, audits>>) /\ Fail(e)
  /\ UNCHANGED <<granted, overtaken>>

\* Mutant of DeactivateRepository: only one repository of the list is handled.
DeactivateRepositoryOnce(e) ==
  /\ events[e].pc = "working" /\ events[e].kind = "removed"
  /\ \E r \in events[e].todo :
       /\ rows' = [rows EXCEPT ![r] = IF @ = "none" THEN @ ELSE "inactive"]
       /\ Advance(e, {})
       /\ audits' = audits \cup {r}
  /\ NoFault /\ UNCHANGED <<granted, overtaken>>

\* A repository without a row is skipped; the audit entry follows the update
\* and its error is discarded.
DeactivateRepository(e) ==
  /\ events[e].pc = "working" /\ events[e].kind = "removed"
  /\ \E r \in events[e].todo :
       LET off == IF rows[r] = "none" THEN rows ELSE [rows EXCEPT ![r] = "inactive"] IN
       \/ /\ rows' = off
          /\ Advance(e, events[e].todo \ {r})
          /\ \/ NoFault /\ audits' = IF rows[r] = "none" THEN audits ELSE audits \cup {r}
             \/ Fault /\ UNCHANGED audits
       \/ rows' \in {rows, off} /\ UNCHANGED audits /\ Fail(e)
  /\ UNCHANGED <<granted, overtaken>>

\* DeactivateRepositoriesByInstallation: the active rows are read and then
\* updated, in two statements without a transaction.
SelectActive(e) ==
  LET active == {r \in Repos : rows[r] = "active"} IN
  /\ events[e].pc = "selecting"
  /\ \/ /\ NoFault
        /\ events' = [events EXCEPT ![e].todo = active,
                                    ![e].pc = IF active = {} THEN "done" ELSE "updating"]
     \/ Fail(e)
  /\ UNCHANGED <<granted, rows, audits, overtaken>>

Deactivated == [r \in Repos |-> IF rows[r] = "active" THEN "inactive" ELSE rows[r]]
UpdateActive(e) ==
  /\ events[e].pc = "updating"
  /\ \/ NoFault /\ rows' = Deactivated /\ events' = [events EXCEPT ![e].pc = "auditing"]
     \/ rows' \in {rows, Deactivated} /\ Fail(e)
  /\ UNCHANGED <<granted, audits, overtaken>>

\* Mutant of AuditRemoved: one entry for the event.
AuditRemovedOnce(e) ==
  /\ events[e].pc = "auditing" /\ NoFault
  /\ \E r \in events[e].todo : Advance(e, {}) /\ audits' = audits \cup {r}
  /\ UNCHANGED <<granted, rows, overtaken>>

AuditRemoved(e) ==
  /\ events[e].pc = "auditing"
  /\ \E r \in events[e].todo :
       /\ Advance(e, events[e].todo \ {r})
       /\ \/ NoFault /\ audits' = audits \cup {r}
          \/ Fault /\ UNCHANGED audits
  /\ UNCHANGED <<granted, rows, overtaken>>

Crash ==
  /\ Fault
  /\ events' = [e \in DOMAIN events |->
                  IF Over(e) THEN events[e] ELSE [events[e] EXCEPT !.pc = "queued"]]
  /\ UNCHANGED <<granted, rows, audits, overtaken>>

JobStep(e) ==
  \/ Begin(e) \/ RecordRepository(e) \/ DeactivateRepository(e)
  \/ SelectActive(e) \/ UpdateActive(e) \/ AuditRemoved(e)

Next ==
  \/ Grant \/ Revoke \/ Uninstall \/ TouchPullRequest
  \/ \E e \in DOMAIN events : JobStep(e)
  \/ Crash

Spec == Init /\ [][Next]_vars

-----------------------------------------------------------------------------
(* Properties.                                                             *)

AllDone == \A e \in DOMAIN events : events[e].pc = "done"

\* No job was begun before all earlier ones were over.
ordered == overtaken = {}

\* The jobs, the rows and the audit log hold what the code puts there, and a
\* job is at a place that the handler of its event can be at.
TypeOK ==
  /\ granted \subseteq Repos
  /\ \A e \in DOMAIN events :
       /\ events[e].attempt \in 0 .. MaxAttempts + faults
       /\ events[e].todo \subseteq Repos
       /\ events[e].pc \in {"queued", "done", "dead"} \cup
                              IF events[e].kind = "deleted"
                              THEN {"selecting", "updating", "auditing"} ELSE {"working"}
  /\ rows \in [Repos -> {"none", "active", "inactive"}]
  /\ audits \subseteq Repos

\* Run in the order of their events, the jobs leave exactly the granted
\* repositories active, although each may fail or be lost in a crash halfway
\* through its list and is then run again from the start.
OrderedAgree ==
  ordered /\ AllDone => {r \in Repos : rows[r] = "active"} = granted

\* A repository that is inactive has an audit entry of its last removal, or the
\* job at work on it is about to write one.
Audited ==
  \A r \in Repos : rows[r] = "inactive" =>
    \/ r \in audits
    \/ \E e \in DOMAIN events : events[e].pc = "auditing" /\ r \in events[e].todo

Uninstalled == \E e \in DOMAIN events : events[e].kind = "deleted"

\* Every removal leaves its entry in the audit log, when nothing fails: those of
\* lists in any order and interleaving with other jobs, and those of an
\* uninstallation when no job was overtaken.
RemovalAudited == faults = 0 /\ (Uninstalled => ordered) => Audited

\* README: removed repositories are marked inactive.  They are, when no job of
\* the installation was overtaken, and those of pull requests leave it alone.
RemovedIsInactive ==
  AllDone /\ overtaken \subseteq {"pull_request"} =>
    \A r \in Repos \ granted : rows[r] # "active"
=============================================================================
