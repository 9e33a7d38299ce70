------------------------ MODULE InstallationsProofs ------------------------
(***************************************************************************)
(* Proofs about Installations for any repositories and any number of       *)
(* events, attempts and faults: jobs that are run in the order of their    *)
(* events leave exactly the granted repositories active.                   *)
(*                                                                         *)
(* The argument: GitHub grants a repository as long as the last event that *)
(* names it turns it on.  Jobs run in order have one job at the front; the *)
(* rows agree with the last events before it, but for the repositories     *)
(* that the job at the front is still to treat.                            *)
(***************************************************************************)
EXTENDS Installations, SequenceTheorems, TLAPS

-----------------------------------------------------------------------------
(* The inductive invariant.                                                *)

Kinds  == {"added", "removed", "deleted", "pull_request"}
Places == {"queued", "done", "dead", "selecting", "updating", "auditing", "working"}

Events == [kind : Kinds, repos : SUBSET Repos, pc : Places, attempt : Nat,
           todo : SUBSET Repos]

Typed ==
  /\ granted \subseteq Repos
  /\ events \in Seq(Events)
  /\ rows \in [Repos -> {"none", "active", "inactive"}]
  /\ audits \subseteq Repos
  /\ faults \in Nat

\* A job that is queued has an attempt left, and was begun if it is anywhere
\* else.
JobOK(e) ==
  /\ events[e].attempt <= MaxAttempts + faults
  /\ events[e].pc = "queued" => events[e].attempt < MaxAttempts + faults
  /\ events[e].attempt = 0 => events[e].pc = "queued"
  /\ events[e].pc \in {"selecting", "updating", "auditing"} => events[e].kind = "deleted"
  /\ events[e].pc = "working" =>
       events[e].kind # "deleted" /\ events[e].todo \subseteq events[e].repos

JobsOK == \A e \in DOMAIN events : JobOK(e)

\* Of the first n events, the last one that names r turns it on.
On(event) == event.kind \in {"added", "pull_request"}
LastOn(es, r, n) ==
  \E e \in 1 .. n : /\ r \in es[e].repos /\ On(es[e])
                    /\ \A d \in e + 1 .. n : r \notin es[d].repos

\* What is granted, and what an uninstallation takes back.
GrantedIsLast ==
  /\ \A r \in Repos : r \in granted <=> LastOn(events, r, Len(events))
  /\ \A e \in DOMAIN events : events[e].kind = "deleted" =>
       \A r \in Repos : r \in events[e].repos <=> LastOn(events, r, e - 1)

BegunInOrder ==
  ordered => \A e \in DOMAIN events : events[e].attempt > 0 =>
               \A d \in 1 .. e - 1 : Over(d)

\* All jobs before c are done, and c is not over.
Front(c) ==
  /\ c \in 1 .. Len(events) + 1
  /\ \A d \in 1 .. c - 1 : events[d].pc = "done"
  /\ c <= Len(events) => ~Over(c)

\* Job c was begun and treats r.
Treats(c, r) == c <= Len(events) /\ events[c].attempt > 0 /\ r \in events[c].repos

RowsFollow(c) ==
  \A r \in Repos :
    /\ ~Treats(c, r) => (rows[r] = "active" <=> LastOn(events, r, c - 1))
    /\ c <= Len(events) =>
         /\ events[c].pc = "working" /\ r \in events[c].repos \ events[c].todo =>
              (rows[r] = "active" <=> On(events[c]))
         /\ events[c].pc = "auditing" => rows[r] # "active"

FrontFollows == ordered => \A c \in 1 .. Len(events) + 1 : Front(c) => RowsFollow(c)

\* Without a fault an uninstallation audits what it deactivates.
SelectedIsActive ==
  ordered /\ faults = 0 =>
    \A e \in DOMAIN events : events[e].pc = "updating" =>
      events[e].todo = {r \in Repos : rows[r] = "active"}

Inv ==
  /\ Typed /\ JobsOK /\ GrantedIsLast /\ BegunInOrder /\ FrontFollows
  /\ SelectedIsActive /\ RemovalAudited

-----------------------------------------------------------------------------
(* The last event that names a repository.                                 *)

LEMMA LastOnNext ==
  ASSUME NEW es, NEW c \in Nat \ {0}, NEW r
  PROVE  LastOn(es, r, c) <=> IF r \in es[c].repos THEN On(es[c]) ELSE LastOn(es, r, c - 1)
<1>1. CASE r \in es[c].repos
  <2>1. ASSUME LastOn(es, r, c)  PROVE On(es[c])
    <3>1. PICK e \in 1 .. c : On(es[e]) /\ \A d \in e + 1 .. c : r \notin es[d].repos
      BY <2>1 DEF LastOn
    <3>2. e = c
      BY <1>1, <3>1
    <3>3. QED
      BY <3>1, <3>2
  <2>2. ASSUME On(es[c])  PROVE LastOn(es, r, c)
    <3>1. c + 1 .. c = {} /\ c \in 1 .. c
      OBVIOUS
    <3>2. QED
      BY <1>1, <2>2, <3>1 DEF LastOn
  <2>3. QED
    BY <1>1, <2>1, <2>2
<1>2. CASE r \notin es[c].repos
  <2>1. ASSUME LastOn(es, r, c)  PROVE LastOn(es, r, c - 1)
    <3>1. PICK e \in 1 .. c : r \in es[e].repos /\ On(es[e])
                              /\ \A d \in e + 1 .. c : r \notin es[d].repos
      BY <2>1 DEF LastOn
    <3>2. e \in 1 .. c - 1 /\ e + 1 .. c - 1 \subseteq e + 1 .. c
      BY <1>2, <3>1
    <3>3. QED
      BY <3>1, <3>2 DEF LastOn
  <2>2. ASSUME LastOn(es, r, c - 1)  PROVE LastOn(es, r, c)
    <3>1. PICK e \in 1 .. c - 1 : r \in es[e].repos /\ On(es[e])
                                  /\ \A d \in e + 1 .. c - 1 : r \notin es[d].repos
      BY <2>2 DEF LastOn
    <3>2. e \in 1 .. c /\ \A d \in e + 1 .. c : d \in e + 1 .. c - 1 \/ d = c
      BY <3>1
    <3>3. QED
      BY <1>2, <3>1, <3>2 DEF LastOn
  <2>3. QED
    BY <1>2, <2>1, <2>2
<1>3. QED
  BY <1>1, <1>2

\* What events say of repositories is all that matters.
LEMMA LastOnKept ==
  ASSUME NEW es, NEW fs, NEW r, NEW n \in Nat,
         \A e \in 1 .. n : es[e].kind = fs[e].kind /\ es[e].repos = fs[e].repos
  PROVE  LastOn(es, r, n) <=> LastOn(fs, r, n)
<1>1. \A e \in 1 .. n : On(es[e]) <=> On(fs[e])
  BY DEF On
<1>2. \A e \in 1 .. n : e + 1 .. n \subseteq 1 .. n
  OBVIOUS
<1>3. QED
  BY <1>1, <1>2 DEF LastOn

-----------------------------------------------------------------------------
(* What a step of a job does, field by field.                              *)

LEMMA EventIs ==
  ASSUME Typed, NEW e \in DOMAIN events
  PROVE  /\ events[e] \in Events /\ e \in 1 .. Len(events) /\ e \in Nat
         /\ Len(events) \in Nat /\ DOMAIN events = 1 .. Len(events)
         /\ events[e].kind \in Kinds /\ events[e].repos \in SUBSET Repos
         /\ events[e].pc \in Places /\ events[e].attempt \in Nat
         /\ events[e].todo \in SUBSET Repos
<1>1. /\ events[e] \in Events /\ e \in 1 .. Len(events) /\ e \in Nat
      /\ Len(events) \in Nat /\ DOMAIN events = 1 .. Len(events)
  BY DEF Typed
<1>2. \A x \in Events : /\ x.kind \in Kinds /\ x.repos \in SUBSET Repos
                         /\ x.pc \in Places /\ x.attempt \in Nat /\ x.todo \in SUBSET Repos
  BY DEF Events
<1> QED
  BY <1>1, <1>2

\* Only job e moves, and its event stays what it was.
Kept(e) ==
  /\ events' \in Seq(Events) /\ Len(events') = Len(events)
  /\ DOMAIN events' = DOMAIN events
  /\ \A d \in DOMAIN events : /\ d # e => events'[d] = events[d]
                              /\ events'[d].kind = events[d].kind
                              /\ events'[d].repos = events[d].repos

\* Job e is at pc, in the given attempt, with todo.
Is(e, pc, attempt, todo) ==
  events'[e].pc = pc /\ events'[e].attempt = attempt /\ events'[e].todo = todo

LEMMA Rewritten ==
  ASSUME Typed, NEW e \in DOMAIN events, NEW new \in Events,
         new.kind = events[e].kind, new.repos = events[e].repos,
         events' = [events EXCEPT ![e] = new]
  PROVE  Kept(e) /\ events'[e] = new
<1>1. events \in Seq(Events) /\ e \in 1 .. Len(events)
  BY EventIs DEF Typed
<1>2. /\ events' \in Seq(Events) /\ Len(events') = Len(events)
      /\ \A d \in 1 .. Len(events) : d # e => events'[d] = events[d]
      /\ events'[e] = new
  BY <1>1, ExceptSeq
<1>3. DOMAIN events' = DOMAIN events /\ DOMAIN events = 1 .. Len(events)
  BY <1>1, <1>2
<1> QED
  BY <1>2, <1>3 DEF Kept

LEMMA Edited ==
  ASSUME Typed, NEW e \in DOMAIN events, NEW pc \in Places, NEW todo \in SUBSET Repos,
         events' = [events EXCEPT ![e].todo = todo, ![e].pc = pc]
  PROVE  Kept(e) /\ Is(e, pc, events[e].attempt, todo)
<1> DEFINE new == [events[e] EXCEPT !.todo = todo, !.pc = pc]
<1>1. events[e] \in Events
  BY EventIs
<1>2. new \in Events
  BY <1>1 DEF Events
<1>3. /\ new.kind = events[e].kind /\ new.repos = events[e].repos /\ new.pc = pc
      /\ new.attempt = events[e].attempt /\ new.todo = todo
  BY <1>1 DEF Events
<1>4. events' = [events EXCEPT ![e] = new]
  OBVIOUS
<1> HIDE DEF new
<1> QED
  BY <1>2, <1>3, <1>4, Rewritten DEF Is

LEMMA Placed ==
  ASSUME Typed, NEW e \in DOMAIN events, NEW pc \in Places,
         events' = [events EXCEPT ![e].pc = pc]
  PROVE  Kept(e) /\ Is(e, pc, events[e].attempt, events[e].todo)
<1> DEFINE new == [events[e] EXCEPT !.pc = pc]
<1>1. events[e] \in Events
  BY EventIs
<1>2. new \in Events
  BY <1>1 DEF Events
<1>3. /\ new.kind = events[e].kind /\ new.repos = events[e].repos /\ new.pc = pc
      /\ new.attempt = events[e].attempt /\ new.todo = events[e].todo
  BY <1>1 DEF Events
<1>4. events' = [events EXCEPT ![e] = new]
  OBVIOUS
<1> HIDE DEF new
<1> QED
  BY <1>2, <1>3, <1>4, Rewritten DEF Is

\* With the last repository the job is done.
Went(e, r) ==
  Is(e, IF events[e].todo = {r} THEN "done" ELSE events[e].pc, events[e].attempt,
     events[e].todo \ {r})

LEMMA Advanced ==
  ASSUME Typed, NEW e \in DOMAIN events, NEW r \in events[e].todo,
         Advance(e, events[e].todo \ {r})
  PROVE  Kept(e) /\ Went(e, r)
<1> DEFINE to   == IF events[e].todo = {r} THEN "done" ELSE events[e].pc
           todo == events[e].todo \ {r}
<1>1. to \in Places /\ todo \in SUBSET Repos
  BY EventIs DEF Places
<1>2. todo = {} <=> events[e].todo = {r}
  OBVIOUS
<1>3. events' = [events EXCEPT ![e].todo = todo, ![e].pc = to]
  BY <1>2 DEF Advance
<1> HIDE DEF to, todo
<1>4. Kept(e) /\ Is(e, to, events[e].attempt, todo)
  BY <1>1, <1>3, Edited
<1> QED
  BY <1>4 DEF Went, to, todo

\* A call of the job failed.
FailedOnce(e) ==
  /\ faults' = faults + 1
  /\ \E pc \in {"queued", "dead"} : /\ Is(e, pc, events[e].attempt, events[e].todo)
                                    /\ pc = "queued" => events[e].attempt < MaxAttempts

LEMMA FailMoves ==
  ASSUME Typed, NEW e \in DOMAIN events, Fail(e)
  PROVE  Kept(e) /\ FailedOnce(e)
<1>1. /\ Failed(e) \in {"queued", "dead"} /\ Failed(e) \in Places
      /\ Failed(e) = "queued" => events[e].attempt < MaxAttempts
  BY DEF Failed, Places
<1>2. faults' = faults + 1 /\ events' = [events EXCEPT ![e].pc = Failed(e)]
  BY DEF Fail, Fault
<1>3. Kept(e) /\ Is(e, Failed(e), events[e].attempt, events[e].todo)
  BY <1>1, <1>2, Placed
<1> QED
  BY <1>1, <1>2, <1>3 DEF FailedOnce

\* The moves a job makes.
Begins(e) ==
  /\ events[e].pc = "queued" /\ Kept(e)
  /\ rows' = rows /\ audits' = audits
  /\ ordered' = (ordered /\ \A d \in 1 .. e - 1 : Over(d))
  /\ \E pc \in Places :
       /\ Is(e, pc, events[e].attempt + 1, events[e].repos)
       /\ \/ faults' = faults
             /\ pc = IF events[e].kind = "deleted" THEN "selecting" ELSE "working"
          \/ /\ faults' = faults + 1 /\ pc \in {"queued", "dead"}
             /\ pc = "queued" => events[e].attempt + 1 < MaxAttempts

\* What is written for repository r, and what may be written of it.
Writes(e, r) ==
  \/ /\ On(events[e]) /\ rows' = [rows EXCEPT ![r] = "active"]
     /\ audits' = audits \ {r} /\ faults' = faults
  \/ /\ ~On(events[e])
     /\ rows' = IF rows[r] = "none" THEN rows ELSE [rows EXCEPT ![r] = "inactive"]
     /\ \/ /\ faults' = faults
           /\ audits' = IF rows[r] = "none" THEN audits ELSE audits \cup {r}
        \/ faults' = faults + 1 /\ audits' = audits

MayWrite(e, r) ==
  \/ rows' = rows /\ audits' = audits
  \/ On(events[e]) /\ rows' = [rows EXCEPT ![r] = "active"] /\ audits' = audits \ {r}
  \/ ~On(events[e]) /\ rows' = [rows EXCEPT ![r] = "inactive"] /\ audits' = audits

Turns(e) ==
  /\ events[e].pc = "working" /\ Kept(e) /\ ordered' = ordered
  /\ \E r \in events[e].todo : \/ Went(e, r) /\ Writes(e, r)
                               \/ FailedOnce(e) /\ MayWrite(e, r)

ActiveRows == {r \in Repos : rows[r] = "active"}

Selects(e) ==
  /\ events[e].pc = "selecting" /\ Kept(e)
  /\ rows' = rows /\ audits' = audits /\ ordered' = ordered
  /\ \/ /\ faults' = faults
        /\ Is(e, IF ActiveRows = {} THEN "done" ELSE "updating", events[e].attempt, ActiveRows)
     \/ FailedOnce(e)

Updates(e) ==
  /\ events[e].pc = "updating" /\ Kept(e) /\ audits' = audits /\ ordered' = ordered
  /\ \/ /\ faults' = faults /\ rows' = Deactivated
        /\ Is(e, "auditing", events[e].attempt, events[e].todo)
     \/ FailedOnce(e) /\ rows' \in {rows, Deactivated}

Audits(e) ==
  /\ events[e].pc = "auditing" /\ Kept(e) /\ rows' = rows /\ ordered' = ordered
  /\ \E r \in events[e].todo :
       /\ Went(e, r)
       /\ \/ faults' = faults /\ audits' = audits \cup {r}
          \/ faults' = faults + 1 /\ audits' = audits

LEMMA BeginMoves ==
  ASSUME Typed, NEW e \in DOMAIN events, Begin(e)
  PROVE  Begins(e)
<1> DEFINE begun == [events[e] EXCEPT !.attempt = @ + 1, !.todo = events[e].repos]
           new(pc) == [begun EXCEPT !.pc = pc]
<1>1. events[e] \in Events /\ events[e].attempt + 1 \in Nat /\ events[e].repos \in SUBSET Repos
  BY EventIs
<1>2. begun \in Events
  BY <1>1 DEF Events
<1>3. /\ begun.kind = events[e].kind /\ begun.repos = events[e].repos
      /\ begun.attempt = events[e].attempt + 1 /\ begun.todo = events[e].repos
  BY <1>1 DEF Events
<1>4. PICK pc \in Places :
         /\ events' = [events EXCEPT ![e] = new(pc)]
         /\ \/ faults' = faults
               /\ pc = IF begun.kind = "deleted" THEN "selecting" ELSE "working"
            \/ /\ faults' = faults + 1 /\ pc \in {"queued", "dead"}
               /\ pc = "queued" => begun.attempt < MaxAttempts
  <2>1. \/ faults' = faults
           /\ events' = [events EXCEPT ![e] =
                           new(IF begun.kind = "deleted" THEN "selecting" ELSE "working")]
        \/ faults' = faults + 1
           /\ events' = [events EXCEPT ![e] =
                           new(IF begun.attempt < MaxAttempts THEN "queued" ELSE "dead")]
    BY Zenon DEF Begin, Fault, NoFault
  <2> HIDE DEF new, begun
  <2> QED
    BY <2>1 DEF Places
<1> HIDE DEF begun
<1>5. new(pc) \in Events
  BY <1>2 DEF Events
<1>6. /\ new(pc).kind = begun.kind /\ new(pc).repos = begun.repos /\ new(pc).pc = pc
      /\ new(pc).attempt = begun.attempt /\ new(pc).todo = begun.todo
  BY <1>2 DEF Events
<1> HIDE DEF new
<1>7. Kept(e) /\ events'[e] = new(pc)
  BY <1>3, <1>4, <1>5, <1>6, Rewritten
<1>8. Is(e, pc, events[e].attempt + 1, events[e].repos)
  BY <1>3, <1>6, <1>7 DEF Is
<1>9. events[e].pc = "queued" /\ UNCHANGED <<rows, audits>>
  BY Zenon DEF Begin
<1>10. ordered' = (ordered /\ \A d \in 1 .. e - 1 : Over(d))
  <2>1. overtaken' = overtaken \cup {events[d].kind : d \in {c \in 1 .. e - 1 : ~Over(c)}}
    BY Zenon DEF Begin, Overtakes
  <2> QED
    BY <2>1 DEF ordered
<1> QED
  BY <1>3, <1>4, <1>7, <1>8, <1>9, <1>10 DEF Begins

LEMMA JobMoves ==
  ASSUME Typed, NEW e \in DOMAIN events, JobStep(e)
  PROVE  /\ granted' = granted
         /\ Begins(e) \/ Turns(e) \/ Selects(e) \/ Updates(e) \/ Audits(e)
<1>1. CASE Begin(e)
  BY <1>1, BeginMoves, Zenon DEF Begin
<1>2. CASE RecordRepository(e)
  <2>1. PICK r \in events[e].todo :
          \/ NoFault /\ UpsertRepository(r) /\ Advance(e, events[e].todo \ {r})
          \/ (UpsertRepository(r) \/ UNCHANGED <<rows, audits>>) /\ Fail(e)
    BY <1>2, Zenon DEF RecordRepository
  <2>2. events[e].pc = "working" /\ On(events[e]) /\ UNCHANGED <<granted, ordered>>
    BY <1>2 DEF RecordRepository, On, ordered
  <2>3. CASE NoFault /\ UpsertRepository(r) /\ Advance(e, events[e].todo \ {r})
    <3>1. Kept(e) /\ Went(e, r)
      BY <2>3, Advanced
    <3> QED
      BY <2>2, <2>3, <3>1, Zenon DEF Turns, Writes, NoFault, UpsertRepository
  <2>4. CASE (UpsertRepository(r) \/ UNCHANGED <<rows, audits>>) /\ Fail(e)
    <3>1. Kept(e) /\ FailedOnce(e)
      BY <2>4, FailMoves
    <3> QED
      BY <2>2, <2>4, <3>1, Zenon DEF Turns, MayWrite, UpsertRepository
  <2> QED
    BY <2>1, <2>2, <2>3, <2>4
<1>3. CASE DeactivateRepository(e)
  <2> DEFINE off(r) == IF rows[r] = "none" THEN rows ELSE [rows EXCEPT ![r] = "inactive"]
  <2>1. PICK r \in events[e].todo :
          \/ /\ rows' = off(r) /\ Advance(e, events[e].todo \ {r})
             /\ \/ NoFault /\ audits' = IF rows[r] = "none" THEN audits ELSE audits \cup {r}
                \/ Fault /\ UNCHANGED audits
          \/ rows' \in {rows, off(r)} /\ UNCHANGED audits /\ Fail(e)
    BY <1>3, Zenon DEF DeactivateRepository
  <2>2. events[e].pc = "working" /\ ~On(events[e]) /\ UNCHANGED <<granted, ordered>>
    BY <1>3 DEF DeactivateRepository, On, ordered
  <2>3. CASE /\ rows' = off(r) /\ Advance(e, events[e].todo \ {r})
             /\ \/ NoFault /\ audits' = IF rows[r] = "none" THEN audits ELSE audits \cup {r}
                \/ Fault /\ UNCHANGED audits
    <3>1. Kept(e) /\ Went(e, r)
      BY <2>3, Advanced
    <3> QED
      BY <2>2, <2>3, <3>1, Zenon DEF Turns, Writes, NoFault, Fault
  <2>4. CASE rows' \in {rows, off(r)} /\ UNCHANGED audits /\ Fail(e)
    <3>1. Kept(e) /\ FailedOnce(e)
      BY <2>4, FailMoves
    <3> QED
      BY <2>2, <2>4, <3>1, Zenon DEF Turns, MayWrite
  <2> QED
    BY <2>1, <2>2, <2>3, <2>4
<1>4. CASE SelectActive(e)
  <2> DEFINE to == IF ActiveRows = {} THEN "done" ELSE "updating"
  <2>1. events[e].pc = "selecting" /\ UNCHANGED <<granted, rows, audits, ordered>>
    BY <1>4 DEF SelectActive, ordered
  <2>2. \/ NoFault /\ events' = [events EXCEPT ![e].todo = ActiveRows, ![e].pc = to]
        \/ Fail(e)
    BY <1>4, Zenon DEF SelectActive, ActiveRows
  <2>3. CASE NoFault /\ events' = [events EXCEPT ![e].todo = ActiveRows, ![e].pc = to]
    <3>1. ActiveRows \in SUBSET Repos /\ to \in Places
      BY DEF ActiveRows, Places
    <3> HIDE DEF to
    <3>2. Kept(e) /\ Is(e, to, events[e].attempt, ActiveRows)
      BY <2>3, <3>1, Edited
    <3> QED
      BY <2>1, <2>3, <3>2, Zenon DEF Selects, NoFault, to
  <2>4. CASE Fail(e)
    BY <2>1, <2>4, FailMoves DEF Selects
  <2> QED
    BY <2>1, <2>2, <2>3, <2>4
<1>5. CASE UpdateActive(e)
  <2>1. events[e].pc = "updating" /\ UNCHANGED <<granted, audits, ordered>>
    BY <1>5 DEF UpdateActive, ordered
  <2>2. CASE NoFault /\ rows' = Deactivated /\ events' = [events EXCEPT ![e].pc = "auditing"]
    <3>1. "auditing" \in Places
      BY DEF Places
    <3>2. Kept(e) /\ Is(e, "auditing", events[e].attempt, events[e].todo)
      BY <2>2, <3>1, Placed
    <3> QED
      BY <2>1, <2>2, <3>2, Zenon DEF Updates, NoFault
  <2>3. CASE rows' \in {rows, Deactivated} /\ Fail(e)
    <3>1. Kept(e) /\ FailedOnce(e)
      BY <2>3, FailMoves
    <3> QED
      BY <2>1, <2>3, <3>1, Zenon DEF Updates
  <2> QED
    BY <1>5, <2>1, <2>2, <2>3, Zenon DEF UpdateActive
<1>6. CASE AuditRemoved(e)
  <2>1. PICK r \in events[e].todo :
          /\ Advance(e, events[e].todo \ {r})
          /\ \/ NoFault /\ audits' = audits \cup {r}
             \/ Fault /\ UNCHANGED audits
    BY <1>6, Zenon DEF AuditRemoved
  <2>2. events[e].pc = "auditing" /\ UNCHANGED <<granted, rows, ordered>>
    BY <1>6 DEF AuditRemoved, ordered
  <2>3. Kept(e) /\ Went(e, r)
    BY <2>1, Advanced
  <2> QED
    BY <2>1, <2>2, <2>3, Zenon DEF Audits, NoFault, Fault
<1> QED
  BY <1>1, <1>2, <1>3, <1>4, <1>5, <1>6 DEF JobStep

-----------------------------------------------------------------------------
(* What an event of GitHub and a crash do.                                 *)

\* A job is added behind the others.
Sent(kind, repos) ==
  LET n == Len(events) + 1 IN
  /\ events' \in Seq(Events) /\ Len(events') = n /\ DOMAIN events' = 1 .. n
  /\ \A d \in 1 .. Len(events) : events'[d] = events[d]
  /\ events'[n].kind = kind /\ events'[n].repos = repos
  /\ events'[n].pc = "queued" /\ events'[n].attempt = 0 /\ events'[n].todo = {}
  /\ UNCHANGED <<rows, audits, ordered, faults>>

LEMMA SendSent ==
  ASSUME Typed, NEW kind \in Kinds, NEW repos \in SUBSET Repos, Send(kind, repos)
  PROVE  Sent(kind, repos)
<1> DEFINE new == [kind |-> kind, repos |-> repos, pc |-> "queued", attempt |-> 0, todo |-> {}]
<1>1. new \in Events
  BY DEF Events, Places
<1>2. /\ new.kind = kind /\ new.repos = repos
      /\ new.pc = "queued" /\ new.attempt = 0 /\ new.todo = {}
  OBVIOUS
<1>3. events \in Seq(Events) /\ events' = Append(events, new)
      /\ UNCHANGED <<rows, audits, ordered, faults>>
  BY DEF Typed, Send, ordered
<1> HIDE DEF new
<1>4. /\ events' \in Seq(Events) /\ Len(events') = Len(events) + 1
      /\ DOMAIN events' = 1 .. Len(events) + 1
      /\ \A d \in 1 .. Len(events) : events'[d] = events[d]
      /\ events'[Len(events) + 1] = new
  BY <1>1, <1>3
<1> QED
  BY <1>2, <1>3, <1>4 DEF Sent

\* Of the four events, a grant and a pull request name repositories that are
\* on, and what is taken back is no longer granted.
GitHubStep == Grant \/ Revoke \/ Uninstall \/ TouchPullRequest

LEMMA GitHubSends ==
  ASSUME Typed, GitHubStep
  PROVE  \E kind \in Kinds, repos \in SUBSET Repos :
           /\ Sent(kind, repos)
           /\ granted' = IF kind \in {"added", "pull_request"} THEN granted \cup repos
                         ELSE granted \ repos
           /\ kind = "deleted" => repos = granted
<1> granted \subseteq Repos
  BY DEF Typed
<1>1. CASE Grant
  <2>1. PICK repos \in SUBSET Repos : Send("added", repos) /\ granted' = granted \cup repos
    BY <1>1 DEF Grant
  <2>2. Sent("added", repos)
    BY <2>1, SendSent DEF Kinds
  <2> QED
    BY <2>1, <2>2 DEF Kinds
<1>2. CASE Revoke
  <2>1. PICK repos \in SUBSET Repos : Send("removed", repos) /\ granted' = granted \ repos
    BY <1>2 DEF Revoke
  <2>2. Sent("removed", repos)
    BY <2>1, SendSent DEF Kinds
  <2> QED
    BY <2>1, <2>2 DEF Kinds
<1>3. CASE Uninstall
  <2>1. Send("deleted", granted) /\ granted' = granted \ granted
    BY <1>3 DEF Uninstall
  <2>2. Sent("deleted", granted)
    BY <2>1, SendSent DEF Kinds
  <2> QED
    BY <2>1, <2>2 DEF Kinds
<1>4. CASE TouchPullRequest
  <2>1. PICK r \in granted : Send("pull_request", {r}) /\ granted' = granted \cup {r}
    BY <1>4 DEF TouchPullRequest
  <2>2. Sent("pull_request", {r})
    BY <2>1, SendSent DEF Kinds
  <2> QED
    BY <2>1, <2>2 DEF Kinds
<1> QED
  BY <1>1, <1>2, <1>3, <1>4 DEF GitHubStep

\* Jobs that are not over are queued again.
Crashed ==
  /\ faults' = faults + 1 /\ UNCHANGED <<granted, rows, audits, ordered>>
  /\ events' \in Seq(Events) /\ Len(events') = Len(events) /\ DOMAIN events' = DOMAIN events
  /\ \A d \in DOMAIN events :
       /\ events'[d].kind = events[d].kind /\ events'[d].repos = events[d].repos
       /\ events'[d].attempt = events[d].attempt /\ events'[d].todo = events[d].todo
       /\ events'[d].pc = IF Over(d) THEN events[d].pc ELSE "queued"

LEMMA CrashCrashes ==
  ASSUME Typed, Crash
  PROVE  Crashed
<1> DEFINE new(d) == IF Over(d) THEN events[d] ELSE [events[d] EXCEPT !.pc = "queued"]
<1>1. \A x \in Events : LET y == [x EXCEPT !.pc = "queued"] IN
        y \in Events /\ y.kind = x.kind /\ y.repos = x.repos /\ y.pc = "queued"
        /\ y.attempt = x.attempt /\ y.todo = x.todo
  BY DEF Events, Places
<1>2. \A d \in DOMAIN events : new(d) \in Events
  BY <1>1, EventIs
<1>3. \A d \in DOMAIN events :
        /\ new(d).kind = events[d].kind /\ new(d).repos = events[d].repos
        /\ new(d).attempt = events[d].attempt /\ new(d).todo = events[d].todo
        /\ new(d).pc = IF Over(d) THEN events[d].pc ELSE "queued"
  BY <1>1, EventIs
<1>4. /\ faults' = faults + 1 /\ UNCHANGED <<granted, rows, audits, ordered>>
      /\ events' = [d \in DOMAIN events |-> new(d)]
  BY Zenon DEF Crash, Fault, ordered
<1> HIDE DEF new
<1>5. DOMAIN events = 1 .. Len(events) /\ Len(events) \in Nat
  BY DEF Typed
<1>6. events' \in [1 .. Len(events) -> Events]
  BY <1>2, <1>4, <1>5
<1>7. /\ events' \in Seq(Events) /\ Len(events') = Len(events) /\ DOMAIN events' = DOMAIN events
      /\ \A d \in DOMAIN events : events'[d] = new(d)
  BY <1>4, <1>5, <1>6
<1> QED
  BY <1>3, <1>4, <1>7 DEF Crashed

-----------------------------------------------------------------------------
(* The types, and the attempts of a job.                                   *)

LEMMA InitInv == Init => Inv
<1> SUFFICES ASSUME Init PROVE Inv
  OBVIOUS
<1>1. Typed
  BY DEF Init, Typed
<1>2. events = <<>> /\ granted = {} /\ DOMAIN events = {} /\ Len(events) = 0
  BY DEF Init
<1>3. JobsOK /\ BegunInOrder /\ SelectedIsActive /\ RemovalAudited
  BY <1>2 DEF Init, JobsOK, BegunInOrder, SelectedIsActive, RemovalAudited,
                   Audited
<1>4. \A r : ~LastOn(events, r, 0)
  BY DEF LastOn
<1>5. GrantedIsLast
  BY <1>2, <1>4 DEF GrantedIsLast
<1>6. FrontFollows
  <2>1. \A c \in 1 .. Len(events) + 1 : c = 1 /\ c - 1 = 0 /\ ~(c <= Len(events))
    BY <1>2
  <2>2. \A r \in Repos : rows[r] # "active"
    BY DEF Init
  <2> QED
    BY <1>4, <2>1, <2>2 DEF FrontFollows, RowsFollow, Treats
<1> QED
  BY <1>1, <1>3, <1>5, <1>6 DEF Inv

LEMMA RowsWritten ==
  ASSUME Typed, NEW r \in Repos, NEW a \in {"active", "inactive"}
  PROVE  [rows EXCEPT ![r] = a] \in [Repos -> {"none", "active", "inactive"}]
BY DEF Typed

LEMMA TypedJob ==
  ASSUME Typed, NEW e \in DOMAIN events, JobStep(e)
  PROVE  Typed'
<1>1. /\ granted' = granted
      /\ Begins(e) \/ Turns(e) \/ Selects(e) \/ Updates(e) \/ Audits(e)
  BY JobMoves
<1>2. Deactivated \in [Repos -> {"none", "active", "inactive"}]
  BY DEF Typed, Deactivated
<1>3. events' \in Seq(Events)
  BY <1>1 DEF Begins, Turns, Selects, Updates, Audits, Kept
<1>4. faults' \in Nat
  <2>1. faults' = faults \/ faults' = faults + 1
    BY <1>1 DEF Begins, Turns, Selects, Updates, Audits, FailedOnce, Writes
  <2> QED
    BY <2>1 DEF Typed
<1>6. events[e].todo \subseteq Repos
  BY EventIs
<1>7. rows' \in [Repos -> {"none", "active", "inactive"}] /\ audits' \subseteq Repos
  <2>0. rows \in [Repos -> {"none", "active", "inactive"}] /\ audits \subseteq Repos
    BY DEF Typed
  <2>1. CASE Begins(e) \/ Selects(e) \/ Audits(e)
    <3>1. rows' = rows /\ (audits' = audits \/ \E r \in Repos : audits' = audits \cup {r})
      BY <1>6, <2>1 DEF Begins, Selects, Audits
    <3> QED
      BY <2>0, <3>1
  <2>2. CASE Turns(e)
    <3>1. PICK r \in events[e].todo : Writes(e, r) \/ MayWrite(e, r)
      BY <2>2 DEF Turns
    <3>2. /\ rows' \in {rows, [rows EXCEPT ![r] = "active"], [rows EXCEPT ![r] = "inactive"]}
          /\ audits' \in {audits, audits \cup {r}, audits \ {r}}
      BY <3>1, Zenon DEF Writes, MayWrite
    <3> QED
      BY <1>6, <2>0, <3>2, RowsWritten
  <2>3. CASE Updates(e)
    BY <1>2, <2>0, <2>3 DEF Updates
  <2> QED
    BY <1>1, <2>1, <2>2, <2>3
<1> QED
  BY <1>1, <1>3, <1>4, <1>7 DEF Typed

LEMMA JobsOKJob ==
  ASSUME Inv, NEW e \in DOMAIN events, JobStep(e)
  PROVE  JobsOK'
<1> Typed /\ JobsOK
  BY DEF Inv
<1>1. Begins(e) \/ Turns(e) \/ Selects(e) \/ Updates(e) \/ Audits(e)
  BY JobMoves
<1>2. Kept(e)
  BY <1>1 DEF Begins, Turns, Selects, Updates, Audits
<1>3. /\ faults \in Nat /\ MaxAttempts \in Nat /\ events[e].attempt \in Nat
      /\ faults' = faults \/ faults' = faults + 1
  BY <1>1, EventIs, AttemptsAssumption
     DEF Begins, Turns, Selects, Updates, Audits, FailedOnce, Writes, Typed
<1>4. JobOK(e)
  BY DEF JobsOK
<1>5. JobOK(e)'
  <2>1. CASE Begins(e)
    BY <1>2, <1>3, <1>4, <2>1 DEF Begins, Is, JobOK, Kept
  <2>2. CASE FailedOnce(e) /\ events[e].pc # "queued"
    BY <1>2, <1>3, <1>4, <2>2 DEF FailedOnce, Is, JobOK, Kept
  <2>3. CASE Turns(e) /\ \E r \in events[e].todo : Went(e, r)
    BY <1>2, <1>3, <1>4, <2>3 DEF Turns, Went, Is, JobOK, Kept
  <2>4. CASE Selects(e) /\ ~FailedOnce(e)
    BY <1>2, <1>3, <1>4, <2>4 DEF Selects, Is, JobOK, Kept
  <2>5. CASE Updates(e) /\ ~FailedOnce(e)
    BY <1>2, <1>3, <1>4, <2>5 DEF Updates, Is, JobOK, Kept
  <2>6. CASE Audits(e)
    BY <1>2, <1>3, <1>4, <2>6 DEF Audits, Went, Is, JobOK, Kept
  <2> QED
    BY <1>1, <2>1, <2>2, <2>3, <2>4, <2>5, <2>6 DEF Turns, Selects, Updates
<1>6. ASSUME NEW d \in DOMAIN events, d # e  PROVE JobOK(d)'
  <2>1. JobOK(d) /\ events'[d] = events[d] /\ events[d].attempt \in Nat
    BY <1>2, <1>6, EventIs DEF JobsOK, Kept
  <2> QED
    BY <1>3, <2>1 DEF JobOK
<1> QED
  BY <1>2, <1>5, <1>6 DEF JobsOK, Kept

-----------------------------------------------------------------------------
(* A step of a job, when jobs run in order.                                *)

\* What every step of job e keeps, and that it begins the job if it was not.
LEMMA JobKept ==
  ASSUME Typed, NEW e \in DOMAIN events, JobStep(e)
  PROVE  /\ Kept(e) /\ granted' = granted /\ ~Over(e)
         /\ ordered' => ordered
         /\ faults' = faults \/ faults' = faults + 1
         /\ \/ Begins(e) /\ events'[e].attempt = events[e].attempt + 1
            \/ /\ Turns(e) \/ Selects(e) \/ Updates(e) \/ Audits(e)
               /\ events[e].pc # "queued" /\ ordered' = ordered
               /\ events'[e].attempt = events[e].attempt
<1>1. /\ granted' = granted
      /\ Begins(e) \/ Turns(e) \/ Selects(e) \/ Updates(e) \/ Audits(e)
  BY JobMoves
<1>2. CASE Begins(e)
  BY <1>1, <1>2 DEF Begins, Is, Over
<1>3. CASE Turns(e)
  BY <1>1, <1>3 DEF Turns, Went, Is, FailedOnce, Writes, Over
<1>4. CASE Selects(e)
  BY <1>1, <1>4 DEF Selects, Is, FailedOnce, Over
<1>5. CASE Updates(e)
  BY <1>1, <1>5 DEF Updates, Is, FailedOnce, Over
<1>6. CASE Audits(e)
  BY <1>1, <1>6 DEF Audits, Went, Is, Over
<1> QED
  BY <1>1, <1>2, <1>3, <1>4, <1>5, <1>6

LEMMA GrantedIsLastJob ==
  ASSUME Inv, NEW e \in DOMAIN events, JobStep(e)
  PROVE  GrantedIsLast' /\ \A r, n : n \in 0 .. Len(events) =>
                             (LastOn(events', r, n) <=> LastOn(events, r, n))
<1>1. Kept(e) /\ granted' = granted /\ Typed /\ GrantedIsLast
  BY JobKept DEF Inv
<1>2. Len(events) \in Nat /\ DOMAIN events = 1 .. Len(events)
  BY EventIs, <1>1
<1>3. ASSUME NEW r, NEW n \in 0 .. Len(events)
      PROVE  LastOn(events', r, n) <=> LastOn(events, r, n)
  <2>1. \A d \in 1 .. n : events'[d].kind = events[d].kind /\ events'[d].repos = events[d].repos
    BY <1>1, <1>2 DEF Kept
  <2>2. n \in Nat
    BY <1>2
  <2> QED
    BY <2>1, <2>2, LastOnKept
<1>4. ASSUME NEW d \in DOMAIN events
      PROVE  d - 1 \in 0 .. Len(events)
  BY <1>2
<1>5. Len(events) \in 0 .. Len(events) /\ Len(events') = Len(events)
      /\ DOMAIN events' = DOMAIN events
  BY <1>1, <1>2 DEF Kept
<1>6. \A r \in Repos : r \in granted' <=> LastOn(events', r, Len(events'))
  BY <1>1, <1>3, <1>5 DEF GrantedIsLast
<1>7. ASSUME NEW d \in DOMAIN events', events'[d].kind = "deleted", NEW r \in Repos
      PROVE  r \in events'[d].repos <=> LastOn(events', r, d - 1)
  <2>1. events[d].kind = "deleted" /\ events'[d].repos = events[d].repos /\ d \in DOMAIN events
    BY <1>1, <1>5, <1>7 DEF Kept
  <2>2. r \in events[d].repos <=> LastOn(events, r, d - 1)
    BY <1>1, <2>1 DEF GrantedIsLast
  <2> QED
    BY <1>3, <1>4, <2>1, <2>2
<1> QED
  BY <1>3, <1>6, <1>7 DEF GrantedIsLast

LEMMA BegunInOrderJob ==
  ASSUME Inv, NEW e \in DOMAIN events, JobStep(e)
  PROVE  BegunInOrder'
<1> SUFFICES ASSUME ordered', NEW k \in DOMAIN events', events'[k].attempt > 0,
                    NEW d \in 1 .. k - 1
             PROVE  Over(d)'
  BY DEF BegunInOrder
<1>1. Typed /\ BegunInOrder /\ Kept(e) /\ ~Over(e) /\ ordered
  BY JobKept DEF Inv
<1>2. k \in DOMAIN events /\ d \in DOMAIN events /\ d # k
  BY <1>1, EventIs DEF Kept
<1>3. Over(d)
  <2>1. CASE events[k].attempt > 0
    BY <1>1, <1>2, <2>1 DEF BegunInOrder
  <2>2. CASE ~(events[k].attempt > 0)
    <3>1. k = e
      BY <1>1, <1>2, <2>2 DEF Kept
    <3>2. events'[e].attempt # events[e].attempt
      BY <2>2, <3>1
    <3>3. Begins(e)
      BY <1>1, <3>2, JobKept
    <3> QED
      BY <3>1, <3>3 DEF Begins
  <2> QED
    BY <2>1, <2>2
<1>4. d # e
  BY <1>1, <1>3
<1> QED
  BY <1>1, <1>2, <1>3, <1>4 DEF Kept, Over

\* Every other job that was begun is over, the earlier ones are, and no later
\* one was begun.
LEMMA OnlyOne ==
  ASSUME Inv, NEW e \in DOMAIN events, JobStep(e), ordered'
  PROVE  /\ events'[e].attempt > 0
         /\ \A d \in DOMAIN events : d < e => Over(d)
         /\ \A d \in DOMAIN events : d > e => events[d].attempt = 0
<1>1. Typed /\ JobsOK /\ BegunInOrder /\ BegunInOrder' /\ Kept(e) /\ ~Over(e) /\ ordered
  BY JobKept, BegunInOrderJob DEF Inv
<1>2. events'[e].attempt > 0
  <2>1. events[e].attempt \in Nat
    BY <1>1, EventIs
  <2>2. CASE Begins(e) /\ events'[e].attempt = events[e].attempt + 1
    BY <2>1, <2>2
  <2>3. CASE events[e].pc # "queued" /\ events'[e].attempt = events[e].attempt
    BY <1>1, <2>1, <2>3 DEF JobsOK, JobOK
  <2> QED
    BY <1>1, <2>2, <2>3, JobKept
<1>3. ASSUME NEW d \in DOMAIN events, d < e  PROVE Over(d)
  <2>1. d \in 1 .. e - 1 /\ e \in DOMAIN events'
    BY <1>1, <1>3, EventIs DEF Kept
  <2>2. Over(d)'
    BY <1>1, <1>2, <2>1 DEF BegunInOrder
  <2>3. events'[d] = events[d]
    BY <1>1, <1>3, EventIs DEF Kept
  <2> QED
    BY <2>2, <2>3 DEF Over
<1>4. ASSUME NEW d \in DOMAIN events, d > e  PROVE events[d].attempt = 0
  <2>1. e \in 1 .. d - 1 /\ events[d].attempt \in Nat
    BY <1>1, <1>4, EventIs
  <2> QED
    BY <1>1, <2>1 DEF BegunInOrder
<1> QED
  BY <1>2, <1>3, <1>4

\* The job that steps is the front.
LEMMA FrontIs ==
  ASSUME Inv, NEW e \in DOMAIN events, JobStep(e), ordered',
         NEW c \in 1 .. Len(events') + 1, Front(c)'
  PROVE  /\ RowsFollow(e)
         /\ \/ c = e
            \/ /\ c = e + 1 /\ events'[e].pc = "done"
               /\ c <= Len(events) => events'[c] = events[c] /\ events[c].attempt = 0
<1>1. /\ Typed /\ JobsOK /\ FrontFollows /\ Kept(e) /\ ~Over(e) /\ ordered
      /\ Len(events) \in Nat /\ DOMAIN events = 1 .. Len(events) /\ e \in 1 .. Len(events)
  BY JobKept, EventIs DEF Inv
<1>2. /\ \A d \in 1 .. Len(events) : d < e => Over(d)
      /\ \A d \in 1 .. Len(events) : d > e => events[d].attempt = 0
  BY <1>1, OnlyOne
<1>3. /\ \A d \in 1 .. c - 1 : events'[d].pc = "done"
      /\ c <= Len(events) => events'[c].pc \notin {"done", "dead"}
      /\ c \in 1 .. Len(events) + 1
  BY <1>1 DEF Front, Over, Kept
<1>4. c >= e
  <2> SUFFICES ASSUME c < e PROVE FALSE
    BY <1>1, <1>3
  <2>1. c \in 1 .. Len(events) /\ c # e
    BY <1>1, <1>3
  <2>2. Over(c) /\ events'[c] = events[c]
    BY <1>1, <1>2, <2>1 DEF Kept
  <2> QED
    BY <1>3, <2>1, <2>2 DEF Over
<1>5. c = e \/ c = e + 1
  <2> SUFFICES ASSUME c > e + 1 PROVE FALSE
    BY <1>1, <1>3, <1>4
  <2>1. e + 1 \in 1 .. c - 1 /\ e + 1 \in 1 .. Len(events) /\ e + 1 # e
    BY <1>1, <1>3
  <2>2. events'[e + 1].pc = "done" /\ events'[e + 1] = events[e + 1]
        /\ events[e + 1].attempt = 0
    BY <1>1, <1>2, <1>3, <2>1 DEF Kept
  <2> QED
    BY <1>1, <2>1, <2>2 DEF JobsOK, JobOK
<1>6. RowsFollow(e)
  <2>1. \A d \in 1 .. e - 1 : d \in 1 .. c - 1 /\ d \in 1 .. Len(events) /\ d # e
    BY <1>1, <1>3, <1>4
  <2>2. \A d \in 1 .. e - 1 : events[d].pc = "done"
    BY <1>1, <1>3, <2>1 DEF Kept
  <2>3. Front(e) /\ e \in 1 .. Len(events) + 1
    BY <1>1, <2>2 DEF Front
  <2> QED
    BY <1>1, <2>3 DEF FrontFollows
<1>7. ASSUME c = e + 1
      PROVE  /\ events'[e].pc = "done"
             /\ c <= Len(events) => events'[c] = events[c] /\ events[c].attempt = 0
  <2>1. e \in 1 .. c - 1 /\ c # e
    BY <1>1, <1>7
  <2>2. c <= Len(events) => c \in 1 .. Len(events) /\ c > e
    BY <1>1, <1>7
  <2> QED
    BY <1>1, <1>2, <1>3, <2>1, <2>2 DEF Kept
<1> QED
  BY <1>5, <1>6, <1>7

\* The job at the front has not come to its end: the rows of what it does not
\* treat are as they were, and what it has treated is as its event says.
FrontRow(e, r) ==
  /\ r \notin events[e].repos => (rows'[r] = "active" <=> LastOn(events, r, e - 1))
  /\ events'[e].pc = "working" /\ r \in events[e].repos \ events'[e].todo =>
       (rows'[r] = "active" <=> On(events[e]))
  /\ events'[e].pc = "auditing" => rows'[r] # "active"
  /\ events'[e].pc = "done" =>
       (rows'[r] = "active" <=> IF r \in events[e].repos THEN On(events[e])
                                ELSE LastOn(events, r, e - 1))

LEMMA FrontRows ==
  ASSUME Inv, NEW e \in DOMAIN events, JobStep(e), RowsFollow(e), NEW r \in Repos
  PROVE  FrontRow(e, r)
<1>1. /\ Typed /\ JobOK(e) /\ Kept(e) /\ r \in Repos /\ rows \in [Repos -> {"none", "active", "inactive"}]
      /\ events[e].attempt \in Nat /\ e <= Len(events) /\ events[e].todo \subseteq Repos
  BY JobKept, EventIs DEF Inv, JobsOK, Typed
<1>2. events[e].kind = "deleted" => ~On(events[e]) /\ (r \in events[e].repos <=> LastOn(events, r, e - 1))
  BY DEF Inv, GrantedIsLast, On
<1>3. /\ r \notin events[e].repos => (rows[r] = "active" <=> LastOn(events, r, e - 1))
      /\ events[e].pc = "working" /\ r \in events[e].repos \ events[e].todo =>
           (rows[r] = "active" <=> On(events[e]))
      /\ events[e].pc = "auditing" => rows[r] # "active"
  BY <1>1 DEF RowsFollow, Treats
<1>4. CASE Begins(e)
  BY <1>1, <1>3, <1>4 DEF Begins, Is, FrontRow
<1>5. CASE FailedOnce(e)
  <2>1. events'[e].pc \in {"queued", "dead"}
    BY <1>5 DEF FailedOnce, Is
  <2>2. r \notin events[e].repos => (rows'[r] = "active" <=> LastOn(events, r, e - 1))
    <3>1. CASE Turns(e)
      <4>1. PICK q \in events[e].todo : Writes(e, q) \/ MayWrite(e, q)
        BY <3>1 DEF Turns
      <4>2. q \in events[e].repos
        BY <1>1, <3>1 DEF Turns, JobOK
      <4>3. rows' \in {rows, [rows EXCEPT ![q] = "active"], [rows EXCEPT ![q] = "inactive"]}
        BY <4>1, Zenon DEF Writes, MayWrite
      <4> QED
        BY <1>1, <1>3, <4>2, <4>3
    <3>2. CASE Selects(e) \/ Audits(e) \/ Begins(e)
      BY <1>3, <3>2 DEF Selects, Audits, Begins
    <3>3. CASE Updates(e)
      <4>1. events[e].kind = "deleted" /\ rows' \in {rows, Deactivated}
        BY <1>1, <3>3 DEF Updates, JobOK
      <4>2. r \notin events[e].repos => rows[r] # "active" /\ ~LastOn(events, r, e - 1)
        BY <1>2, <1>3, <4>1
      <4> QED
        BY <1>1, <4>1, <4>2 DEF Deactivated
    <3> QED
      BY <3>1, <3>2, <3>3, JobMoves, <1>1
  <2> QED
    BY <2>1, <2>2 DEF FrontRow
<1>6. CASE Turns(e) /\ ~FailedOnce(e)
  <2>1. PICK q \in events[e].todo : Went(e, q) /\ Writes(e, q)
    BY <1>6 DEF Turns
  <2>2. q \in events[e].repos /\ events[e].todo \subseteq events[e].repos /\ q \in Repos
    BY <1>1, <1>6 DEF Turns, JobOK
  <2>3. /\ r # q => rows'[r] = rows[r]
        /\ rows'[q] = "active" <=> On(events[e])
    BY <1>1, <2>1, <2>2 DEF Writes
  <2>4. /\ events'[e].todo = events[e].todo \ {q}
        /\ events'[e].pc = IF events[e].todo = {q} THEN "done" ELSE "working"
        /\ events[e].pc = "working"
    BY <1>6, <2>1 DEF Turns, Went, Is
  <2> QED
    BY <1>1, <1>3, <2>2, <2>3, <2>4 DEF FrontRow
<1>7. CASE Selects(e) /\ ~FailedOnce(e)
  <2>1. /\ rows' = rows /\ events[e].kind = "deleted"
        /\ events'[e].pc = IF ActiveRows = {} THEN "done" ELSE "updating"
    BY <1>1, <1>7 DEF Selects, Is, JobOK
  <2>2. ActiveRows = {} => rows[r] # "active"
    BY DEF ActiveRows
  <2> QED
    BY <1>2, <1>3, <2>1, <2>2 DEF FrontRow
<1>8. CASE Updates(e) /\ ~FailedOnce(e)
  <2>1. rows' = Deactivated /\ events[e].kind = "deleted" /\ events'[e].pc = "auditing"
    BY <1>1, <1>8 DEF Updates, Is, JobOK
  <2>2. rows'[r] # "active"
    BY <2>1 DEF Deactivated
  <2> QED
    BY <1>2, <1>3, <2>1, <2>2 DEF FrontRow
<1>9. CASE Audits(e)
  <2>1. /\ rows' = rows /\ rows[r] # "active" /\ events[e].kind = "deleted"
        /\ events'[e].pc \in {"done", "auditing"}
    BY <1>1, <1>3, <1>9 DEF Audits, Went, Is, JobOK
  <2> QED
    BY <1>2, <1>3, <2>1 DEF FrontRow
<1> QED
  BY <1>1, <1>4, <1>5, <1>6, <1>7, <1>8, <1>9, JobMoves

LEMMA FrontFollowsJob ==
  ASSUME Inv, NEW e \in DOMAIN events, JobStep(e)
  PROVE  FrontFollows'
<1> SUFFICES ASSUME ordered', NEW c \in 1 .. Len(events') + 1, Front(c)'
             PROVE  RowsFollow(c)'
  BY DEF FrontFollows
<1>1. /\ Typed /\ Kept(e) /\ Len(events) \in Nat /\ DOMAIN events = 1 .. Len(events)
      /\ e \in 1 .. Len(events) /\ events'[e].attempt > 0
  BY JobKept, EventIs, OnlyOne DEF Inv
<1>2. /\ RowsFollow(e)
      /\ \/ c = e
         \/ /\ c = e + 1 /\ events'[e].pc = "done"
            /\ c <= Len(events) => events'[c] = events[c] /\ events[c].attempt = 0
  BY FrontIs
<1>3. \A r \in Repos : FrontRow(e, r)
  BY <1>2, FrontRows
<1>4. events'[e].kind = events[e].kind /\ events'[e].repos = events[e].repos
      /\ Len(events') = Len(events)
  BY <1>1 DEF Kept
<1>5. CASE c = e
  <2>1. e - 1 \in 0 .. Len(events)
    BY <1>1
  <2>2. \A r \in Repos : LastOn(events', r, e - 1) <=> LastOn(events, r, e - 1)
    BY <2>1, GrantedIsLastJob
  <2>3. On(events'[e]) <=> On(events[e])
    BY <1>4 DEF On
  <2> QED
    BY <1>1, <1>3, <1>4, <1>5, <2>2, <2>3 DEF RowsFollow, Treats, FrontRow
<1>6. CASE c = e + 1 /\ events'[e].pc = "done"
           /\ (c <= Len(events) => events'[c] = events[c] /\ events[c].attempt = 0)
  <2>1. e \in 0 .. Len(events) /\ e \in Nat \ {0} /\ c - 1 = e
    BY <1>1, <1>6
  <2>2. ASSUME NEW r \in Repos
        PROVE  rows'[r] = "active" <=> LastOn(events', r, e)
    <3>1. LastOn(events', r, e) <=> LastOn(events, r, e)
      BY <2>1, GrantedIsLastJob
    <3>2. LastOn(events, r, e) <=> IF r \in events[e].repos THEN On(events[e])
                                   ELSE LastOn(events, r, e - 1)
      BY <2>1, LastOnNext
    <3>3. FrontRow(e, r)
      BY <1>3
    <3> QED
      BY <1>6, <3>1, <3>2, <3>3 DEF FrontRow
  <2>3. c <= Len(events') => events'[c].pc = "queued" /\ ~(events'[c].attempt > 0)
    <3>1. c <= Len(events) => c \in DOMAIN events /\ events[c].attempt = 0
      BY <1>1, <1>6
    <3> QED
      BY <1>4, <1>6, <3>1 DEF Inv, JobsOK, JobOK
  <2> QED
    BY <2>1, <2>2, <2>3 DEF RowsFollow, Treats
<1> QED
  BY <1>2, <1>5, <1>6

\* Whatever is done without a fault while the job is at work on an
\* uninstallation, is done by that job.
LEMMA AuditedJob ==
  ASSUME Inv, NEW e \in DOMAIN events, JobStep(e), ordered', faults' = 0
  PROVE  SelectedIsActive' /\ Audited'
<1>1. /\ Typed /\ JobsOK /\ Kept(e) /\ ordered /\ faults \in Nat
      /\ Len(events) \in Nat /\ DOMAIN events = 1 .. Len(events) /\ e \in 1 .. Len(events)
      /\ rows \in [Repos -> {"none", "active", "inactive"}]
      /\ events[e].todo \subseteq Repos
  BY JobKept, EventIs DEF Inv, Typed
<1>2. faults = 0 /\ faults' # faults + 1
  BY <1>1, JobKept
<1>3. ~FailedOnce(e)
  BY <1>2 DEF FailedOnce
<1>4. /\ \A d \in DOMAIN events : events[d].pc = "updating" => events[d].todo = ActiveRows
      /\ \A r \in Repos : rows[r] = "inactive" =>
           \/ r \in audits
           \/ \E d \in DOMAIN events : events[d].pc = "auditing" /\ r \in events[d].todo
  BY <1>1, <1>2 DEF Inv, SelectedIsActive, RemovalAudited, Audited, ActiveRows
<1>5. \A d \in DOMAIN events : d # e => events[d].pc \notin {"updating", "auditing"}
  <2> SUFFICES ASSUME NEW d \in DOMAIN events, d # e
               PROVE  events[d].pc \notin {"updating", "auditing"}
    OBVIOUS
  <2>1. CASE d < e
    BY <1>1, <2>1, OnlyOne DEF Over
  <2>2. CASE d > e
    BY <1>1, <2>2, OnlyOne DEF JobsOK, JobOK
  <2> QED
    BY <1>1, <2>1, <2>2
<1>6. ASSUME events'[e].pc = "updating" => events'[e].todo = ActiveRows'
      PROVE  SelectedIsActive'
  BY <1>1, <1>5, <1>6 DEF SelectedIsActive, ActiveRows, Kept
<1>7. ASSUME NEW r \in Repos, rows'[r] = "inactive",
             rows[r] # "inactive" \/ audits' # audits \/ events[e].pc = "auditing"
                => r \in audits' \/ (events'[e].pc = "auditing" /\ r \in events'[e].todo)
      PROVE  \/ r \in audits'
             \/ \E d \in DOMAIN events' : events'[d].pc = "auditing" /\ r \in events'[d].todo
  <2>1. CASE rows[r] = "inactive" /\ audits' = audits /\ events[e].pc # "auditing"
    <3>1. r \in audits
      BY <1>4, <1>5, <2>1
    <3> QED
      BY <2>1, <3>1
  <2>2. e \in DOMAIN events'
    BY <1>1 DEF Kept
  <2> QED
    BY <1>7, <2>1, <2>2
<1>8. CASE Begins(e)
  <2>1. events'[e].pc \in {"selecting", "working"} /\ rows' = rows /\ audits' = audits
        /\ events[e].pc = "queued"
    BY <1>2, <1>8 DEF Begins, Is
  <2>2. SelectedIsActive'
    BY <1>6, <2>1
  <2>3. Audited'
    BY <1>7, <2>1 DEF Audited
  <2> QED
    BY <2>2, <2>3
<1>9. CASE Turns(e)
  <2>1. PICK q \in events[e].todo : Went(e, q) /\ Writes(e, q)
    BY <1>3, <1>9 DEF Turns
  <2>2. events'[e].pc \in {"done", "working"} /\ events[e].pc = "working" /\ q \in Repos
    BY <1>1, <1>9, <2>1 DEF Turns, Went, Is
  <2>3. SelectedIsActive'
    BY <1>6, <2>2
  <2>4. CASE On(events[e]) /\ rows' = [rows EXCEPT ![q] = "active"] /\ audits' = audits \ {q}
    <3>1. \A r \in Repos : rows'[r] = "inactive" => rows[r] = "inactive" /\ r # q
      BY <1>1, <2>2, <2>4
    <3>2. \A r \in Repos : rows[r] = "inactive" => r \in audits
      BY <1>4, <1>5, <2>2
    <3> QED
      BY <2>3, <2>4, <3>1, <3>2 DEF Audited
  <2>5. CASE /\ rows' = IF rows[q] = "none" THEN rows ELSE [rows EXCEPT ![q] = "inactive"]
             /\ audits' = IF rows[q] = "none" THEN audits ELSE audits \cup {q}
    <3>1. \A r \in Repos : rows'[r] = "inactive" => rows[r] = "inactive" \/ r \in audits'
      BY <1>1, <2>2, <2>5
    <3>2. \A r \in Repos : rows[r] = "inactive" => r \in audits
      BY <1>4, <1>5, <2>2
    <3>3. audits \subseteq audits'
      BY <2>5
    <3> QED
      BY <2>3, <3>1, <3>2, <3>3 DEF Audited
  <2> QED
    BY <1>2, <2>1, <2>4, <2>5, Zenon DEF Writes
<1>10. CASE Selects(e)
  <2>1. /\ events'[e].pc \in {"done", "updating"} /\ events'[e].todo = ActiveRows
        /\ rows' = rows /\ audits' = audits /\ events[e].pc = "selecting"
    BY <1>3, <1>10 DEF Selects, Is
  <2>2. ActiveRows' = ActiveRows
    BY <2>1 DEF ActiveRows
  <2> QED
    BY <1>6, <1>7, <2>1, <2>2 DEF Audited
<1>11. CASE Updates(e)
  <2>1. /\ events'[e].pc = "auditing" /\ events'[e].todo = events[e].todo
        /\ rows' = Deactivated /\ audits' = audits /\ events[e].pc = "updating"
    BY <1>3, <1>11 DEF Updates, Is
  <2>2. events'[e].todo = ActiveRows
    BY <1>4, <2>1
  <2>3. \A r \in Repos : rows'[r] = "inactive" => rows[r] = "inactive" \/ r \in ActiveRows
    BY <1>1, <2>1 DEF Deactivated, ActiveRows
  <2> QED
    BY <1>6, <1>7, <2>1, <2>2, <2>3 DEF Audited
<1>12. CASE Audits(e)
  <2>1. PICK q \in events[e].todo : Went(e, q) /\ audits' = audits \cup {q}
    BY <1>2, <1>12 DEF Audits
  <2>2. /\ events[e].pc = "auditing" /\ rows' = rows
        /\ events'[e].pc = IF events[e].todo = {q} THEN "done" ELSE "auditing"
        /\ events'[e].todo = events[e].todo \ {q}
    BY <1>12, <2>1 DEF Audits, Went, Is
  <2>3. \A r \in Repos : rows[r] = "inactive" => r \in audits \/ r \in events[e].todo
    BY <1>4, <1>5
  <2>4. \A r \in Repos : rows'[r] = "inactive" =>
           r \in audits' \/ (events'[e].pc = "auditing" /\ r \in events'[e].todo)
    BY <2>1, <2>2, <2>3
  <2> QED
    BY <1>6, <1>7, <2>2, <2>4 DEF Audited
<1> QED
  BY <1>1, <1>8, <1>9, <1>10, <1>11, <1>12, JobMoves

\* Lists are audited with the update of each row, whoever else is at work.
LEMMA AuditedLists ==
  ASSUME Inv, NEW e \in DOMAIN events, JobStep(e), ~Uninstalled', faults' = 0
  PROVE  Audited'
<1>1. /\ Typed /\ JobsOK /\ Kept(e) /\ faults \in Nat
      /\ rows \in [Repos -> {"none", "active", "inactive"}]
      /\ events[e].todo \subseteq Repos
  BY JobKept, EventIs DEF Inv, Typed
<1>2. faults = 0 /\ faults' # faults + 1
  BY <1>1, JobKept
<1>3. ~FailedOnce(e)
  BY <1>2 DEF FailedOnce
<1>4. \A d \in DOMAIN events : events[d].kind # "deleted"
  BY <1>1 DEF Uninstalled, Kept
<1>5. \A d \in DOMAIN events : events[d].pc \notin {"selecting", "updating", "auditing"}
  BY <1>1, <1>4 DEF JobsOK, JobOK
<1>6. \A r \in Repos : rows[r] = "inactive" => r \in audits
  <2>1. ~Uninstalled
    BY <1>4 DEF Uninstalled
  <2> QED
    BY <1>2, <1>5, <2>1 DEF Inv, RemovalAudited, Audited
<1>7. CASE Begins(e)
  BY <1>6, <1>7 DEF Begins, Audited
<1>8. CASE Turns(e)
  <2>1. PICK q \in events[e].todo : Went(e, q) /\ Writes(e, q)
    BY <1>3, <1>8 DEF Turns
  <2>2. CASE rows' = [rows EXCEPT ![q] = "active"] /\ audits' = audits \ {q}
    <3>1. \A r \in Repos : rows'[r] = "inactive" => rows[r] = "inactive" /\ r # q
      BY <1>1, <2>2
    <3> QED
      BY <1>6, <2>2, <3>1 DEF Audited
  <2>3. CASE /\ rows' = IF rows[q] = "none" THEN rows ELSE [rows EXCEPT ![q] = "inactive"]
             /\ audits' = IF rows[q] = "none" THEN audits ELSE audits \cup {q}
    <3>1. \A r \in Repos : rows'[r] = "inactive" => rows[r] = "inactive" \/ r \in audits'
      BY <1>1, <2>3
    <3>2. audits \subseteq audits'
      BY <2>3
    <3> QED
      BY <1>6, <3>1, <3>2 DEF Audited
  <2> QED
    BY <1>2, <2>1, <2>2, <2>3, Zenon DEF Writes
<1>9. ~Selects(e) /\ ~Updates(e) /\ ~Audits(e)
  BY <1>5 DEF Selects, Updates, Audits
<1> QED
  BY <1>1, <1>3, <1>7, <1>8, <1>9, JobMoves

-----------------------------------------------------------------------------
(* Events of GitHub and crashes.                                           *)

LEMMA InvJob ==
  ASSUME Inv, NEW e \in DOMAIN events, JobStep(e)
  PROVE  Inv'
<1>1. Typed'
  BY TypedJob DEF Inv
<1>2. SelectedIsActive' /\ RemovalAudited'
  <2>1. SelectedIsActive'
    BY AuditedJob DEF SelectedIsActive
  <2>2. ASSUME ordered' PROVE RemovalAudited'
    BY <2>2, AuditedJob DEF RemovalAudited
  <2>3. ASSUME ~ordered', Uninstalled' PROVE RemovalAudited'
    BY <2>3 DEF RemovalAudited
  <2>4. ASSUME ~Uninstalled' PROVE RemovalAudited'
    BY <2>4, AuditedLists DEF RemovalAudited
  <2> QED
    BY <2>1, <2>2, <2>3, <2>4
<1> QED
  BY <1>1, <1>2, JobsOKJob, GrantedIsLastJob, BegunInOrderJob, FrontFollowsJob DEF Inv

LEMMA InvGitHub ==
  ASSUME Inv, GitHubStep
  PROVE  Inv'
<1> DEFINE n == Len(events) + 1
<1>1. PICK kind \in Kinds, repos \in SUBSET Repos :
         /\ Sent(kind, repos)
         /\ granted' = IF kind \in {"added", "pull_request"} THEN granted \cup repos
                       ELSE granted \ repos
         /\ kind = "deleted" => repos = granted
  BY GitHubSends DEF Inv
<1>2. /\ Typed /\ Len(events) \in Nat /\ DOMAIN events = 1 .. Len(events)
      /\ n \in Nat \ {0} /\ n - 1 = Len(events)
  BY DEF Inv, Typed
<1>3. /\ events' \in Seq(Events) /\ Len(events') = n /\ DOMAIN events' = 1 .. n
      /\ \A d \in 1 .. Len(events) : events'[d] = events[d]
      /\ events'[n].kind = kind /\ events'[n].repos = repos
      /\ events'[n].pc = "queued" /\ events'[n].attempt = 0 /\ events'[n].todo = {}
      /\ UNCHANGED <<rows, audits, ordered, faults>>
  BY <1>1 DEF Sent
<1>4. \A d \in 1 .. n : d \in 1 .. Len(events) \/ d = n
  BY <1>2
<1> HIDE DEF n
<1>5. Typed'
  BY <1>1, <1>2, <1>3 DEF Typed
<1>6. JobsOK'
  <2>1. faults \in Nat /\ MaxAttempts \in Nat \ {0}
    BY <1>2, AttemptsAssumption DEF Typed
  <2>2. ASSUME NEW d \in 1 .. n, d = n  PROVE JobOK(d)'
    BY <1>3, <2>1, <2>2 DEF JobOK
  <2>3. ASSUME NEW d \in 1 .. Len(events)  PROVE JobOK(d)'
    BY <1>2, <1>3, <2>3 DEF JobOK, Inv, JobsOK
  <2> QED
    BY <1>3, <1>4, <2>2, <2>3 DEF JobsOK
<1>7. \A r, k : k \in 0 .. Len(events) => (LastOn(events', r, k) <=> LastOn(events, r, k))
  <2> SUFFICES ASSUME NEW r, NEW k \in 0 .. Len(events)
               PROVE  LastOn(events', r, k) <=> LastOn(events, r, k)
    OBVIOUS
  <2>1. k \in Nat /\ 1 .. k \subseteq 1 .. Len(events)
    BY <1>2
  <2>2. \A d \in 1 .. k : events'[d].kind = events[d].kind /\ events'[d].repos = events[d].repos
    BY <1>3, <2>1
  <2> QED
    BY <2>1, <2>2, LastOnKept
<1>8. GrantedIsLast'
  <2>1. Len(events) \in 0 .. Len(events) /\ \A d \in 1 .. n : d - 1 \in 0 .. Len(events)
    BY <1>2, <1>4
  <2>2. \A r \in Repos : r \in granted <=> LastOn(events', r, Len(events))
    BY <1>7, <2>1 DEF Inv, GrantedIsLast
  <2>3. \A r : LastOn(events', r, n) <=> IF r \in repos THEN On(events'[n])
                                         ELSE LastOn(events', r, Len(events))
    <3>1. n \in Nat \ {0} /\ n - 1 = Len(events) /\ events'[n].repos = repos
      BY <1>2, <1>3
    <3> QED
      BY <3>1, LastOnNext
  <2>4. On(events'[n]) <=> kind \in {"added", "pull_request"}
    BY <1>3 DEF On
  <2>5. \A r \in Repos : r \in granted' <=> LastOn(events', r, Len(events'))
    <3>1. Len(events') = n
      BY <1>3
    <3> QED
      BY <1>1, <2>2, <2>3, <2>4, <3>1
  <2>6. ASSUME NEW d \in 1 .. n, events'[d].kind = "deleted", NEW r \in Repos
        PROVE  r \in events'[d].repos <=> LastOn(events', r, d - 1)
    <3>1. CASE d \in 1 .. Len(events)
      <4>1. r \in events[d].repos <=> LastOn(events, r, d - 1)
        BY <1>2, <1>3, <2>6, <3>1 DEF Inv, GrantedIsLast
      <4> QED
        BY <1>3, <1>7, <2>1, <2>6, <3>1, <4>1
    <3>2. CASE d = n
      BY <1>1, <1>2, <1>3, <2>2, <2>6, <3>2
    <3> QED
      BY <1>4, <3>1, <3>2
  <2> QED
    BY <1>3, <2>5, <2>6 DEF GrantedIsLast
<1>9. BegunInOrder'
  <2> SUFFICES ASSUME ordered', NEW k \in DOMAIN events', events'[k].attempt > 0,
                      NEW d \in 1 .. k - 1
               PROVE  Over(d)'
    BY DEF BegunInOrder
  <2>1. k \in 1 .. Len(events)
    BY <1>3, <1>4
  <2>2. Over(d) /\ d \in 1 .. Len(events)
    BY <1>2, <1>3, <2>1 DEF Inv, BegunInOrder
  <2> QED
    BY <1>3, <2>2 DEF Over
<1>10. FrontFollows'
  <2> SUFFICES ASSUME ordered', NEW c \in 1 .. n + 1, Front(c)'
               PROVE  RowsFollow(c)'
    BY <1>3 DEF FrontFollows
  <2>1. ordered /\ (c <= n => ~Over(c)') /\ \A d \in 1 .. c - 1 : events'[d].pc = "done"
    BY <1>3 DEF Front
  <2>2. c \in 1 .. n /\ c \in 1 .. Len(events) + 1 /\ c - 1 \in 0 .. Len(events)
    <3>1. c # n + 1
      <4> SUFFICES ASSUME c = n + 1 PROVE FALSE
        OBVIOUS
      <4>1. n \in 1 .. c - 1
        BY <1>2
      <4> QED
        BY <1>3, <2>1, <4>1
    <3> QED
      BY <1>2, <3>1
  <2>3. Front(c)
    <3>1. \A d \in 1 .. c - 1 : d \in 1 .. Len(events)
      BY <1>2, <2>2
    <3>2. \A d \in 1 .. c - 1 : events[d].pc = "done"
      BY <1>3, <2>1, <3>1
    <3>3. c <= Len(events) => ~Over(c)
      <4>1. c <= Len(events) => c \in 1 .. Len(events) /\ c <= n
        BY <1>2, <2>2
      <4> QED
        BY <1>3, <2>1, <4>1 DEF Over
    <3> QED
      BY <2>2, <3>2, <3>3 DEF Front
  <2>4. RowsFollow(c)
    BY <2>1, <2>2, <2>3 DEF Inv, FrontFollows
  <2>5. \A r \in Repos : LastOn(events', r, c - 1) <=> LastOn(events, r, c - 1)
    BY <1>7, <2>2
  <2>6. CASE c \in 1 .. Len(events)
    BY <1>2, <1>3, <2>4, <2>5, <2>6 DEF RowsFollow, Treats
  <2>7. CASE c = n
    BY <1>2, <1>3, <2>4, <2>5, <2>7 DEF RowsFollow, Treats
  <2> QED
    BY <1>4, <2>2, <2>6, <2>7
<1>11. SelectedIsActive' /\ RemovalAudited'
  <2>1. \A d \in DOMAIN events : d \in DOMAIN events' /\ events'[d] = events[d]
    BY <1>2, <1>3
  <2>2. \A d \in DOMAIN events' : events'[d].pc # "queued" => d \in DOMAIN events
    BY <1>2, <1>3, <1>4
  <2>3. SelectedIsActive'
    BY <1>3, <2>1, <2>2 DEF Inv, SelectedIsActive
  <2>4. RemovalAudited'
    <3>1. Uninstalled => Uninstalled'
      BY <2>1 DEF Uninstalled
    <3>2. (faults = 0 /\ (Uninstalled => ordered)) => Audited
      BY DEF Inv, RemovalAudited
    <3>3. Audited => Audited'
      BY <1>3, <2>1 DEF Audited
    <3> QED
      BY <1>3, <3>1, <3>2, <3>3 DEF RemovalAudited
  <2> QED
    BY <2>3, <2>4
<1> QED
  BY <1>5, <1>6, <1>8, <1>9, <1>10, <1>11 DEF Inv

LEMMA InvCrash ==
  ASSUME Inv, Crash
  PROVE  Inv'
<1>1. Crashed /\ Typed
  BY CrashCrashes DEF Inv
<1>2. /\ faults' = faults + 1 /\ UNCHANGED <<granted, rows, audits, ordered>>
      /\ events' \in Seq(Events) /\ Len(events') = Len(events) /\ DOMAIN events' = DOMAIN events
      /\ \A d \in DOMAIN events :
           /\ events'[d].kind = events[d].kind /\ events'[d].repos = events[d].repos
           /\ events'[d].attempt = events[d].attempt /\ events'[d].todo = events[d].todo
           /\ events'[d].pc = IF Over(d) THEN events[d].pc ELSE "queued"
  BY <1>1 DEF Crashed
<1>3. faults \in Nat /\ faults' # 0 /\ Len(events) \in Nat /\ DOMAIN events = 1 .. Len(events)
  BY <1>1, <1>2 DEF Typed
<1>4. Typed'
  BY <1>1, <1>2 DEF Typed
<1>5. JobsOK'
  <2>1. ASSUME NEW d \in DOMAIN events  PROVE JobOK(d)'
    <3>1. JobOK(d) /\ events[d].attempt \in Nat /\ MaxAttempts \in Nat
      BY <1>1, EventIs, AttemptsAssumption DEF Inv, JobsOK
    <3> QED
      BY <1>2, <1>3, <3>1 DEF JobOK, Over
  <2> QED
    BY <1>2, <2>1 DEF JobsOK
<1>6. \A r, k : k \in 0 .. Len(events) => (LastOn(events', r, k) <=> LastOn(events, r, k))
  <2> SUFFICES ASSUME NEW r, NEW k \in 0 .. Len(events)
               PROVE  LastOn(events', r, k) <=> LastOn(events, r, k)
    OBVIOUS
  <2>1. k \in Nat /\ 1 .. k \subseteq 1 .. Len(events)
    BY <1>3
  <2>2. \A d \in 1 .. k : events'[d].kind = events[d].kind /\ events'[d].repos = events[d].repos
    BY <1>2, <1>3, <2>1
  <2> QED
    BY <2>1, <2>2, LastOnKept
<1>7. GrantedIsLast'
  <2>1. Len(events) \in 0 .. Len(events) /\ \A d \in DOMAIN events : d - 1 \in 0 .. Len(events)
    BY <1>3
  <2> QED
    BY <1>2, <1>6, <2>1 DEF Inv, GrantedIsLast
<1>8. \A d \in DOMAIN events : /\ Over(d)' <=> Over(d)
                               /\ events'[d].pc = "done" <=> events[d].pc = "done"
  BY <1>2 DEF Over
<1>9. BegunInOrder'
  <2> SUFFICES ASSUME ordered', NEW k \in DOMAIN events', events'[k].attempt > 0,
                      NEW d \in 1 .. k - 1
               PROVE  Over(d)'
    BY DEF BegunInOrder
  <2>1. Over(d) /\ d \in DOMAIN events
    BY <1>2, <1>3 DEF Inv, BegunInOrder
  <2> QED
    BY <1>8, <2>1
<1>10. FrontFollows'
  <2> SUFFICES ASSUME ordered', NEW c \in 1 .. Len(events) + 1, Front(c)'
               PROVE  RowsFollow(c)'
    BY <1>2 DEF FrontFollows
  <2>1. /\ \A d \in 1 .. c - 1 : d \in DOMAIN events
        /\ c <= Len(events) => c \in DOMAIN events
        /\ c - 1 \in 0 .. Len(events)
    BY <1>3
  <2>2. Front(c)
    BY <1>2, <1>8, <2>1 DEF Front
  <2>3. RowsFollow(c)
    BY <1>2, <2>2 DEF Inv, FrontFollows
  <2>4. \A r \in Repos : LastOn(events', r, c - 1) <=> LastOn(events, r, c - 1)
    BY <1>6, <2>1
  <2>5. c <= Len(events) => events'[c].pc = "queued"
    BY <1>2, <2>1, <2>2 DEF Front
  <2> QED
    BY <1>2, <2>1, <2>3, <2>4, <2>5 DEF RowsFollow, Treats
<1>11. SelectedIsActive' /\ RemovalAudited'
  BY <1>3 DEF SelectedIsActive, RemovalAudited
<1> QED
  BY <1>4, <1>5, <1>7, <1>9, <1>10, <1>11 DEF Inv

LEMMA InvNext == Inv /\ [Next]_vars => Inv'
<1> SUFFICES ASSUME Inv, [Next]_vars PROVE Inv'
  OBVIOUS
<1>1. CASE GitHubStep
  BY <1>1, InvGitHub
<1>2. ASSUME NEW e \in DOMAIN events, JobStep(e)  PROVE Inv'
  BY <1>2, InvJob
<1>3. CASE Crash
  BY <1>3, InvCrash
<1>4. CASE UNCHANGED vars
  <2>1. UNCHANGED <<granted, events, rows, audits, ordered, faults>>
    BY <1>4 DEF vars, ordered
  <2> QED
    BY <2>1 DEF Inv, Typed, JobsOK, JobOK, GrantedIsLast, BegunInOrder, Over, FrontFollows,
                Front, RowsFollow, Treats, SelectedIsActive, RemovalAudited,
                Audited, Uninstalled
<1> QED
  BY <1>1, <1>2, <1>3, <1>4 DEF Next, GitHubStep

-----------------------------------------------------------------------------
(* What follows.                                                           *)

THEOREM AlwaysInv == Spec => []Inv
<1> QED
  BY InitInv, InvNext, PTL DEF Spec

\* The jobs of installation events, the rows of repositories and the audit log
\* (app/installations.go) have their types, a job is at a place of its
\* handler, and its attempts are bounded by max_attempts and the faults.
THEOREM InstallationsTypeOK == Spec => []TypeOK
<1>1. Inv => TypeOK
  <2> SUFFICES ASSUME Inv PROVE TypeOK
    OBVIOUS
  <2>1. Typed /\ JobsOK /\ faults \in Nat /\ MaxAttempts \in Nat
    BY AttemptsAssumption DEF Inv, Typed
  <2>2. ASSUME NEW e \in DOMAIN events
        PROVE  /\ events[e].attempt \in 0 .. MaxAttempts + faults
               /\ events[e].todo \subseteq Repos
               /\ events[e].pc \in {"queued", "done", "dead"} \cup
                                      IF events[e].kind = "deleted"
                                      THEN {"selecting", "updating", "auditing"} ELSE {"working"}
    <3>1. JobOK(e) /\ events[e].attempt \in Nat /\ events[e].todo \subseteq Repos
          /\ events[e].pc \in Places
      BY <2>1, EventIs DEF JobsOK
    <3> QED
      BY <2>1, <3>1 DEF JobOK, Places
  <2> QED
    BY <2>1, <2>2 DEF TypeOK, Typed
<1> QED
  BY <1>1, AlwaysInv, PTL

\* handleInstallationEvent: jobs that were run in the order of their events
\* leave exactly the granted repositories active, whatever failed and however
\* often a job was run again.
THEOREM OrderedJobsAgree == Spec => []OrderedAgree
<1>1. Inv => OrderedAgree
  <2> SUFFICES ASSUME Inv, ordered, AllDone
               PROVE  {r \in Repos : rows[r] = "active"} = granted
    BY DEF OrderedAgree
  <2> DEFINE c == Len(events) + 1
  <2>1. Len(events) \in Nat /\ DOMAIN events = 1 .. Len(events) /\ granted \subseteq Repos
        /\ c \in 1 .. Len(events) + 1 /\ c - 1 = Len(events) /\ ~(c <= Len(events))
    BY DEF Inv, Typed
  <2> HIDE DEF c
  <2>2. Front(c)
    BY <2>1 DEF AllDone, Front
  <2>3. RowsFollow(c) /\ \A r : ~Treats(c, r)
    BY <2>1, <2>2 DEF Inv, FrontFollows, Treats
  <2>4. \A r \in Repos : rows[r] = "active" <=> LastOn(events, r, Len(events))
    BY <2>1, <2>3 DEF RowsFollow
  <2> QED
    BY <2>1, <2>4 DEF Inv, GrantedIsLast
<1> QED
  BY <1>1, AlwaysInv, PTL

\* handleInstallationEvent: while nothing fails, every repository that was
\* deactivated has an audit entry of its last removal or is on the list of the
\* job that writes them: in any order of the jobs until the app is uninstalled,
\* and then as long as no job was overtaken.
THEOREM RemovalsAudited == Spec => []RemovalAudited
<1>1. Inv => RemovalAudited
  BY DEF Inv
<1> QED
  BY <1>1, AlwaysInv, PTL
=============================================================================
