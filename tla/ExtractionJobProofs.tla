----------------------- MODULE ExtractionJobProofs -------------------------
(***************************************************************************)
(* Theorems about ExtractionJob, for any number of slots, rows, attempts   *)
(* and stalls.  Types hold under every fault.  The others hold when a job  *)
(* is never taken from a live processor and nothing rejects between the    *)
(* commit and the end of the try block: under crashes of workers and API,  *)
(* and the failure of any other await.                                     *)
(***************************************************************************)
EXTENDS ExtractionJob, TLAPS

(* A job that can still run has attempts and stalls left, and only an active *)
(* job has an owner.  A job is published once.                               *)
JobInv ==
  /\ job.state = "absent" => job.made = 0 /\ job.stalled = 0
  /\ job.state \in {"waiting", "active"} => job.made < MaxAttempts /\ job.stalled <= MaxStalled
  /\ job.owner # NoOwner => job.state = "active"
  /\ trigger = "scheduled" => request.pc = "idle"
  /\ trigger # "scheduled" /\ request.pc \in {"idle", "publish"} => job.state = "absent"

TInv == TypeOK /\ JobInv

LEMMA GoToType ==
  ASSUME TypeOK, NEW p \in Processors, NEW step \in Steps \cup {"idle", "finish"}, GoTo(p, step)
  PROVE  proc' \in [Processors -> ProcType]
BY DEF TypeOK, GoTo, ProcType

LEMMA MoveType ==
  ASSUME TypeOK, NEW p \in Processors, NEW step \in Steps \cup {"idle", "finish"},
         NEW ending \in {"completed", "failed", "unrecoverable"},
         proc' = [proc EXCEPT ![p].pc = step, ![p].ending = ending]
  PROVE  proc' \in [Processors -> ProcType]
BY DEF TypeOK, ProcType

LEMMA EndType ==
  ASSUME TypeOK, NEW p \in Processors,
         NEW ending \in {"completed", "failed", "unrecoverable"}, End(p, ending)
  PROVE  proc' \in [Processors -> ProcType]
BY DEF TypeOK, End, ProcType

LEMMA IdleType == Idle \in ProcType
BY JobConstants DEF Idle, ProcType, None

LEMMA SetRowType ==
  ASSUME TypeOK, NEW e, NEW row, Exists(e) => row \in RowType, SetRow(e, row)
  PROVE  rows' \in [Executions -> RowType]
BY DEF TypeOK, SetRow, Exists

LEMMA InsertRowType ==
  ASSUME TypeOK, NEW e \in Executions, InsertRow(e)
  PROVE  rows' \in [Executions -> RowType]
<1>1. Unused \in RowType
  BY JobConstants DEF Unused, RowType, Absent
<1>2. Fresh \in RowType
  BY <1>1 DEF Fresh, RowType
<1> QED
  BY <1>2 DEF TypeOK, InsertRow

LEMMA VerdictType ==
  ASSUME TypeOK, NEW s \in {"healthy", "failing"}, NEW n \in Nat
  PROVE  [monitor EXCEPT !.status = s, !.failures = n] \in MonitorType
BY DEF TypeOK, MonitorType

LEMMA AddJobType ==
  ASSUME TypeOK, NEW e \in 0..MaxRows, AddJob(e)
  PROVE  /\ job' \in JobType
         /\ job'.state = "waiting"
         /\ job'.made = job.made /\ job'.stalled = job.stalled /\ job'.owner = job.owner
BY DEF TypeOK, AddJob, JobType

(* A step that leaves the job and its request alone has only its own variables *)
(* to account for.                                                             *)
LEMMA Frame ==
  ASSUME TInv, UNCHANGED <<trigger, request, job>>,
         rows' \in [Executions -> RowType], proc' \in [Processors -> ProcType],
         monitor' \in MonitorType
  PROVE  TInv'
BY DEF TInv, JobInv, TypeOK

LEMMA TInvInit == Init => TInv
BY JobConstants
DEF Init, TInv, JobInv, TypeOK, RowType, JobType, ProcType, Unused, Idle, None, Executions,
    MonitorType, Absent, Final, Steps, BeforeTry, InTry, InCatch, TriggerKinds

LEMMA TInvStep == TInv /\ [Next]_vars => TInv'
<1> SUFFICES ASSUME TInv, [Next]_vars PROVE TInv'
  OBVIOUS
<1> USE JobConstants DEF TInv, JobInv, TypeOK
<1>1. CASE RequestExecution
  <2>1. PICK e \in Executions : InsertRow(e) /\ request' = [pc |-> "publish", exec |-> e]
    BY <1>1 DEF RequestExecution
  <2>2. rows' \in [Executions -> RowType]
    BY <2>1, InsertRowType
  <2> QED
    BY <1>1, <2>1, <2>2 DEF RequestExecution, Executions
<1>2. CASE Publish
  <2>1. request.exec \in 0..MaxRows
    OBVIOUS
  <2> QED
    BY <1>2, <2>1, AddJobType DEF Publish
<1>3. CASE PublishFails
  <2>1. request.exec \in 0..MaxRows
    OBVIOUS
  <2>2. CASE UNCHANGED job
    BY <1>3, <2>2 DEF PublishFails
  <2>3. CASE AddJob(request.exec)
    BY <1>3, <2>1, <2>3, AddJobType DEF PublishFails
  <2> QED
    BY <1>3, <2>2, <2>3 DEF PublishFails
<1>4. CASE Undo
  <2>1. Exists(request.exec) => Removed(rows[request.exec]) \in RowType
    BY DEF Exists, Removed, RowType, Absent
  <2>2. rows' \in [Executions -> RowType]
    BY <1>4, <2>1, SetRowType DEF Undo
  <2> QED
    BY <1>4, <2>2 DEF Undo
<1>5. CASE RequestDies
  BY <1>5 DEF RequestDies
<1>6. CASE SchedulerFires
  <2>1. None \in 0..MaxRows
    BY DEF None
  <2> QED
    BY <1>6, <2>1, AddJobType DEF SchedulerFires
<1>7. CASE SetActive
  BY <1>7, Frame DEF SetActive, MonitorType
<1>8. CASE DeleteMonitor
  <2>1. \A e \in Executions : Removed(rows[e]) \in RowType
    BY DEF Removed, RowType, Absent
  <2>2. rows' \in [Executions -> RowType]
    BY <1>8, <2>1 DEF DeleteMonitor
  <2> QED
    BY <1>8, <2>2, Frame DEF DeleteMonitor, MonitorType
<1>9. CASE ExpireExecution
  <2>1. \A e \in Executions : Removed(rows[e]) \in RowType
    BY DEF Removed, RowType, Absent
  <2>2. rows' \in [Executions -> RowType]
    BY <1>9, <2>1 DEF ExpireExecution
  <2> QED
    BY <1>9, <2>2, Frame DEF ExpireExecution
<1>10. CASE StallCheck
  <2>1. job.stalled <= MaxStalled
    BY <1>10 DEF StallCheck
  <2>2. job.stalled + 1 \in 0..(MaxStalled + 1)
    BY <2>1 DEF JobType
  <2>3. job' \in JobType
    BY <1>10, <2>2 DEF StallCheck, JobType
  <2>4. JobInv'
    BY <1>10, <2>1 DEF StallCheck, JobType
  <2> QED
    BY <1>10, <2>3, <2>4 DEF StallCheck
<1>11. ASSUME NEW p \in Processors, Take(p) PROVE TInv'
  <2>1. proc' \in [Processors -> ProcType]
    <3>1. job.exec \in 0..MaxRows /\ job.made + 1 \in 0..MaxAttempts
      BY <1>11 DEF Take, JobType
    <3>2. [Idle EXCEPT !.pc = IF job.exec = None THEN "select" ELSE "load",
                       !.exec = job.exec, !.attempt = job.made + 1] \in ProcType
      BY <3>1, IdleType DEF ProcType, Steps, BeforeTry
    <3> QED
      BY <1>11, <3>2 DEF Take
  <2> QED
    BY <1>11, <2>1 DEF Take, JobType
<1>12. ASSUME NEW p \in Processors, Finish(p) PROVE TInv'
  <2>1. proc' \in [Processors -> ProcType]
    BY <1>12, IdleType DEF Finish
  <2>2. job' \in JobType /\ JobInv'
    <3>1. CASE job.owner # p
      BY <1>12, <3>1 DEF Finish
    <3>2. CASE job.owner = p /\ proc[p].ending = "completed"
      BY <1>12, <3>2 DEF Finish, Disown, JobType
    <3>3. CASE job.owner = p /\ proc[p].ending # "completed"
      <4>1. job.state = "active" /\ job.made + 1 \in 0..MaxAttempts
        BY <3>3 DEF JobType
      <4>2. job' = [[job EXCEPT !.owner = NoOwner] EXCEPT !.made = job.made + 1,
                      !.state = IF proc[p].ending = "failed" /\ job.made + 1 < MaxAttempts
                                THEN "waiting" ELSE "failed"]
        BY <1>12, <3>3 DEF Finish, Disown, JobType
      <4>3. job' \in JobType
        BY <4>1, <4>2 DEF JobType
      <4>4. JobInv'
        BY <1>12, <4>1, <4>2 DEF Finish, JobType
      <4> QED
        BY <4>3, <4>4
    <3> QED
      BY <3>1, <3>2, <3>3
  <2> QED
    BY <1>12, <2>1, <2>2 DEF Finish
<1>13. ASSUME NEW p \in Processors, LoseLock(p) PROVE TInv'
  BY <1>13 DEF LoseLock, Disown, JobType
<1>14. ASSUME NEW p \in Processors, Crash(p) PROVE TInv'
  <2>1. proc' \in [Processors -> ProcType]
    BY <1>14, IdleType DEF Crash
  <2> QED
    BY <1>14, <2>1 DEF Crash, Disown, JobType
<1>15. ASSUME NEW p \in Processors, Run(p) PROVE TInv'
  <2> USE GoToType, EndType, SetRowType, Frame DEF Steps, BeforeTry, InTry, InCatch
  <2> DEFINE e == proc[p].exec
  <2>0. e \in 0..MaxRows /\ proc[p].attempt \in 0..MaxAttempts
    BY DEF ProcType
  <2>r. Exists(e) => rows[e] \in RowType
    BY DEF Exists
  <2>1. CASE SelectMonitor(p)
    BY <2>1 DEF SelectMonitor
  <2>2. CASE InsertExecution(p)
    <3>1. rows' \in [Executions -> RowType]
      BY <2>2, InsertRowType DEF InsertExecution
    <3>2. proc' \in [Processors -> ProcType]
      BY <2>2 DEF InsertExecution, ProcType
    <3> QED
      BY <2>2, <3>1, <3>2 DEF InsertExecution
  <2>3. CASE PersistId(p)
    <3>1. proc' \in [Processors -> ProcType]
      BY <2>3 DEF PersistId
    <3>2. job' \in JobType /\ JobInv'
      BY <2>0, <2>3 DEF PersistId, JobType
    <3> QED
      BY <2>3, <3>1, <3>2 DEF PersistId
  <2>4. CASE LoadContext(p)
    BY <2>4 DEF LoadContext
  <2>5. CASE Claim(p)
    <3>1. Exists(e) => [rows[e] EXCEPT !.status = "running", !.attempt = proc[p].attempt,
                                       !.error = FALSE] \in RowType
      BY <2>0, <2>r DEF RowType
    <3> QED
      BY <2>5, <3>1 DEF Claim
  <2>6. CASE AcquireLease(p) \/ StoreScreenshot(p) \/ FollowUp(p) \/ Release(p)
    BY <2>6 DEF AcquireLease, StoreScreenshot, FollowUp, Release
  <2>7. CASE Crawl(p)
    <3>1. proc' \in [Processors -> ProcType]
      BY <2>7 DEF Crawl, ProcType
    <3> QED
      BY <2>7, <3>1 DEF Crawl
  <2>8. CASE Commit(p)
    <3>1. Exists(e) => [rows[e] EXCEPT !.status = "succeeded", !.change = Monitored] \in RowType
      BY <2>r DEF RowType, Monitored, Final
    <3>2. proc' \in [Processors -> ProcType]
      BY <2>8 DEF Commit
    <3>3. rows' \in [Executions -> RowType]
      BY <2>8, <3>1 DEF Commit
    <3>4. monitor' = monitor \/ monitor' = [monitor EXCEPT !.status = "healthy", !.failures = 0]
      BY <2>8 DEF Commit
    <3>5. monitor' \in MonitorType
      <4>1. [monitor EXCEPT !.status = "healthy", !.failures = 0] \in MonitorType
        BY VerdictType
      <4> QED
        BY <3>4, <4>1
    <3> QED
      BY <2>8, <3>2, <3>3, <3>5 DEF Commit
  <2>9. CASE RecordFailure(p)
    <3>1. Exists(e) => [rows[e] EXCEPT !.error = TRUE,
             !.status = IF WillRetry(p) THEN "queued"
                        ELSE IF proc[p].blocked THEN "blocked" ELSE "failed"] \in RowType
      BY <2>r DEF RowType, Final
    <3>2. proc' \in [Processors -> ProcType]
      <4>1. PICK s \in {"count", "release"}, ending \in {"unrecoverable", "failed"} :
               proc' = [proc EXCEPT ![p].pc = s, ![p].ending = ending]
        BY <2>9 DEF RecordFailure
      <4> QED
        BY <4>1, MoveType
    <3>3. rows' \in [Executions -> RowType]
      BY <2>9, <3>1 DEF RecordFailure
    <3> QED
      BY <2>9, <3>2, <3>3 DEF RecordFailure
  <2>10. CASE CountFailure(p)
    <3>1. monitor.failures + 1 \in Nat
      BY DEF MonitorType
    <3>2. monitor' \in MonitorType
      BY <2>10, <3>1, VerdictType DEF CountFailure
    <3> QED
      BY <2>10, <3>2 DEF CountFailure
  <2>11. CASE StepFails(p)
    <3>1. proc' \in [Processors -> ProcType]
      <4>1. CASE End(p, "failed") \/ GoTo(p, "record")
        BY <4>1
      <4>2. CASE proc' = [proc EXCEPT ![p].pc = "release", ![p].ending = "failed"]
        BY <4>2, MoveType
      <4> QED
        BY <2>11, <4>1, <4>2 DEF StepFails
    <3> QED
      BY <2>11, <3>1 DEF StepFails
  <2> QED
    BY <1>15, <2>1, <2>2, <2>3, <2>4, <2>5, <2>6, <2>7, <2>8, <2>9, <2>10, <2>11 DEF Run
<1>16. CASE UNCHANGED vars
  BY <1>16 DEF vars
<1> QED
  BY <1>1, <1>2, <1>3, <1>4, <1>5, <1>6, <1>7, <1>8, <1>9, <1>10, <1>11, <1>12, <1>13, <1>14,
     <1>15, <1>16 DEF Next, Api, Environment

(* Every reachable state has variables of the declared ranges: in particular *)
(* attempts and stalls stay within their limits whatever fails.              *)
THEOREM TypeCorrect == Spec => []TypeOK
<1>1. TInv => TypeOK
  BY DEF TInv
<1> QED
  BY <1>1, TInvInit, TInvStep, PTL DEF Spec

-----------------------------------------------------------------------------
(* Without lock loss the owner is the only slot at work. *)
OwnerInv == \A p \in Processors : proc[p].pc # "idle" => job.owner = p

Resolving == {"select", "insert", "persist"}
Working == {"lease", "crawl", "store", "commit", "record"}

(* A row the processor is allowed to write as its own attempt. *)
MyRow(p) ==
  LET row == rows[proc[p].exec] IN
  \/ row.status = "deleted"
  \/ row.status = "running" /\ row.attempt = proc[p].attempt /\ ~row.error

(* What a processor at work knows of the execution it loaded: it is the one *)
(* its job names, it had not succeeded, and nobody else has written it.     *)
StepInv(p) ==
  /\ proc[p].pc \in Resolving => job.exec = None
  /\ proc[p].pc \in {"persist", "load", "claim"} \cup Working => proc[p].exec \in Executions
  /\ proc[p].pc \in {"load", "claim"} \cup Working => proc[p].exec = job.exec
  /\ proc[p].pc \in Resolving \cup {"load", "claim"} \cup Working => proc[p].attempt = job.made + 1
  /\ proc[p].pc = "claim" => rows[proc[p].exec].status \notin {"unused", "succeeded"}
  /\ proc[p].pc \in Working => MyRow(p)

RowInv(e) ==
  /\ rows[e].status = "unused" => rows[e].attempt = 0
  /\ rows[e].status \in {"running"} \cup Final => e = job.exec /\ rows[e].attempt <= job.made + 1
  /\ rows[e].status = "queued" => rows[e].attempt <= job.made + 1
  /\ rows[e].status = "succeeded" => ~rows[e].error
  /\ rows[e].change <=> Monitored /\ rows[e].status = "succeeded"

(* A job that is not published yet names no execution. *)
NameInv == job.state = "absent" => job.exec = None

IInv == /\ TInv /\ NameInv /\ OwnerInv
        /\ \A p \in Processors : StepInv(p)
        /\ \A e \in Executions : RowInv(e)

(* The faults under which a success is safe. *)
SafeFaults == ~LockLoss /\ "followup" \notin FailsAt

LEMMA Solo ==
  ASSUME IInv, NEW p \in Processors, proc[p].pc # "idle", NEW q \in Processors, q # p
  PROVE  proc[q].pc = "idle"
BY DEF IInv, OwnerInv

LEMMA AllIdle ==
  ASSUME IInv, job.state # "active", NEW p \in Processors
  PROVE  job.owner = NoOwner /\ proc[p].pc = "idle"
BY JobConstants DEF IInv, TInv, TypeOK, JobType, JobInv, OwnerInv

LEMMA IdleStep == ASSUME NEW p \in Processors, proc[p].pc = "idle" PROVE StepInv(p)
BY DEF StepInv, Resolving, Working

(* The environment only takes rows away. *)
LEMMA Removals ==
  ASSUME IInv, TInv', UNCHANGED <<trigger, job, proc>>,
         \A e \in Executions : \/ rows'[e] = rows[e]
                               \/ rows'[e].status = "deleted" /\ ~rows'[e].change
  PROVE  IInv'
<1>1. NameInv' /\ OwnerInv'
  BY DEF IInv, NameInv, OwnerInv
<1>2. ASSUME NEW p \in Processors PROVE StepInv(p)'
  BY DEF IInv, StepInv, MyRow, Resolving, Working
<1>3. ASSUME NEW e \in Executions PROVE RowInv(e)'
  BY DEF IInv, RowInv, Final, Monitored
<1> QED
  BY <1>1, <1>2, <1>3 DEF IInv

(* A slot that works on changes its own state and perhaps its row. *)
LEMMA OwnStep ==
  ASSUME IInv, TInv', NEW p \in Processors, proc[p].pc # "idle",
         UNCHANGED <<trigger, job>>,
         \A q \in Processors \ {p} : proc'[q] = proc[q],
         StepInv(p)', \A e \in Executions : RowInv(e)'
  PROVE  IInv'
<1>1. NameInv' /\ OwnerInv'
  BY DEF IInv, NameInv, OwnerInv
<1>2. ASSUME NEW q \in Processors, q # p PROVE StepInv(q)'
  BY <1>2, Solo DEF StepInv, Resolving, Working
<1> QED
  BY <1>1, <1>2 DEF IInv

(* A row that is gone or was never there is not written. *)
LEMMA WrittenRow ==
  ASSUME TInv, NEW e \in Executions, NEW row, SetRow(e, row), NEW d \in Executions
  PROVE  rows'[d] = IF d = e /\ Exists(e) THEN row ELSE rows[d]
BY DEF TInv, TypeOK, SetRow

LEMMA RowInvFrame ==
  ASSUME IInv, UNCHANGED <<trigger, rows, job>>
  PROVE  \A e \in Executions : RowInv(e)'
BY DEF IInv, RowInv, Monitored

LEMMA FreshRow == /\ Fresh.status = "queued" /\ Fresh.attempt = 0
                  /\ Fresh.error = FALSE /\ Fresh.change = FALSE
BY DEF Fresh, Unused

LEMMA RunStep ==
  ASSUME SafeFaults, IInv, TInv', NEW p \in Processors, Run(p)
  PROVE  IInv'
<1> DEFINE e == proc[p].exec
<1> USE DEF At, GoTo, End
<1>0. /\ TInv /\ TypeOK /\ proc \in [Processors -> ProcType]
      /\ StepInv(p) /\ \A d \in Executions : RowInv(d)
  BY DEF IInv, TInv, TypeOK
<1>t. /\ proc[p] \in ProcType /\ proc[p].attempt \in Nat /\ job.made \in Nat
      /\ rows \in [Executions -> RowType] /\ job \in JobType
      /\ \A d \in Executions : rows[d].attempt \in Nat
  BY <1>0, JobConstants DEF TypeOK, ProcType, JobType, RowType
(* A move of the program counter alone. *)
<1>m. ASSUME NEW step, GoTo(p, step) \/ \E ending : End(p, ending), UNCHANGED <<trigger, rows, job>>,
             proc[p].pc # "idle", StepInv(p)'
      PROVE  IInv'
  <2>1. \A q \in Processors \ {p} : proc'[q] = proc[q]
    BY <1>0, <1>m
  <2>2. \A d \in Executions : RowInv(d)'
    BY <1>m, RowInvFrame
  <2> QED
    BY <1>m, <2>1, <2>2, OwnStep
<1>1. CASE SelectMonitor(p)
  <2>1. StepInv(p)'
    BY <1>0, <1>t, <1>1 DEF SelectMonitor, StepInv, Resolving, Working, ProcType
  <2> QED
    BY <1>1, <1>m, <2>1 DEF SelectMonitor
<1>2. CASE InsertExecution(p)
  <2>1. CASE ~monitor.exists
    <3>1. StepInv(p)'
      BY <1>0, <1>t, <1>2, <2>1 DEF InsertExecution, StepInv, Resolving, Working, ProcType
    <3> QED
      BY <1>2, <1>m, <2>1, <3>1 DEF InsertExecution
  <2>2. CASE monitor.exists
    <3>1. PICK d \in Executions : /\ InsertRow(d)
                                  /\ proc' = [proc EXCEPT ![p].pc = "persist", ![p].exec = d]
      BY <1>2, <2>2 DEF InsertExecution
    <3>2. proc'[p].pc = "persist" /\ proc'[p].exec = d /\ proc'[p].attempt = proc[p].attempt
      BY <1>0, <1>t, <3>1 DEF ProcType
    <3>3. StepInv(p)'
      BY <1>0, <1>2, <3>2 DEF InsertExecution, StepInv, Resolving, Working
    <3>4. \A c \in Executions : rows'[c] = IF c = d THEN Fresh ELSE rows[c]
      BY <1>t, <3>1 DEF InsertRow
    <3>5. ASSUME NEW c \in Executions PROVE RowInv(c)'
      BY <1>0, <1>t, <1>2, <3>4, FreshRow DEF InsertExecution, RowInv, Final, Monitored
    <3>6. \A q \in Processors \ {p} : proc'[q] = proc[q]
      BY <1>0, <3>1
    <3> QED
      BY <1>2, <3>3, <3>5, <3>6, OwnStep DEF InsertExecution
  <2> QED
    BY <2>1, <2>2
<1>3. CASE PersistId(p)
  <2>1. job'.exec = e /\ job'.made = job.made /\ job'.state = job.state /\ job'.owner = job.owner
    BY <1>t, <1>3 DEF PersistId, JobType
  <2>2. proc'[p].pc = "load" /\ proc'[p].exec = e
    BY <1>0, <1>t, <1>3 DEF PersistId, ProcType
  <2>3. ASSUME NEW q \in Processors, q # p PROVE proc'[q] = proc[q] /\ proc[q].pc = "idle"
    BY <1>0, <1>3, <2>3, Solo DEF PersistId
  <2>4. job.owner = p /\ job.state = "active"
    BY <1>0, <1>3, JobConstants DEF PersistId, IInv, OwnerInv, TInv, JobInv
  <2>5. proc'[p].attempt = job.made + 1
    BY <1>0, <1>t, <1>3 DEF PersistId, StepInv, Resolving, ProcType
  <2>6. NameInv' /\ OwnerInv' /\ \A q \in Processors : StepInv(q)'
    BY <1>0, <1>3, <2>1, <2>2, <2>3, <2>4, <2>5
    DEF PersistId, NameInv, OwnerInv, StepInv, Resolving, Working
  <2>7. ASSUME NEW d \in Executions PROVE RowInv(d)'
    <3>1. job.exec = None
      BY <1>0, <1>3 DEF PersistId, StepInv, Resolving
    <3>2. rows[d].status \notin {"running"} \cup Final
      BY <1>0, <3>1, JobConstants DEF RowInv, Executions, None
    <3> QED
      BY <1>0, <1>3, <2>1, <3>2 DEF PersistId, RowInv, Final, Monitored
  <2> QED
    BY <2>6, <2>7 DEF IInv
<1>4. CASE LoadContext(p)
  <2>1. proc'[p].exec = e /\ proc'[p].attempt = proc[p].attempt
        /\ \/ proc'[p].pc = "finish"
           \/ proc'[p].pc = "claim" /\ Exists(e) /\ rows[e].status # "succeeded"
    BY <1>0, <1>t, <1>4 DEF LoadContext, ProcType
  <2>2. StepInv(p)'
    BY <1>0, <1>4, <2>1 DEF LoadContext, StepInv, Exists, Absent, Resolving, Working
  <2> QED
    BY <1>4, <1>m, <2>2 DEF LoadContext
<1>5. CASE Claim(p)
  <2> DEFINE claimed == [rows[e] EXCEPT !.status = "running", !.attempt = proc[p].attempt, !.error = FALSE]
  <2>1. e \in Executions /\ e = job.exec /\ proc[p].attempt = job.made + 1
        /\ rows[e].status \notin {"unused", "succeeded"}
    BY <1>0, <1>5 DEF Claim, StepInv
  <2>2. proc'[p].pc = "lease" /\ proc'[p].exec = e /\ proc'[p].attempt = proc[p].attempt
    BY <1>0, <1>t, <1>5 DEF Claim, ProcType
  <2>3. \A d \in Executions : rows'[d] = IF d = e /\ Exists(e) THEN claimed ELSE rows[d]
    BY <1>0, <1>5, <2>1, WrittenRow DEF Claim
  <2>4. /\ claimed.status = "running" /\ claimed.attempt = proc[p].attempt
        /\ claimed.error = FALSE /\ claimed.change = rows[e].change
    BY <1>t, <2>1 DEF RowType
  <2>5. StepInv(p)'
    BY <1>5, <2>1, <2>2, <2>3, <2>4
    DEF Claim, StepInv, MyRow, Exists, Absent, Resolving, Working
  <2>6. ASSUME NEW d \in Executions PROVE RowInv(d)'
    <3>1. RowInv(d) /\ RowInv(e) /\ UNCHANGED <<trigger, job>>
      BY <1>0, <1>5, <2>1 DEF Claim
    <3>2. CASE d = e /\ Exists(e)
      <4>1. rows'[d] = claimed /\ d = job.exec
        BY <2>1, <2>3, <3>2
      <4>2. ~claimed.change /\ claimed.status = "running" /\ claimed.attempt = job.made + 1
        BY <2>1, <2>4, <3>1 DEF RowInv
      <4> HIDE DEF claimed
      <4> QED
        BY <1>t, <3>1, <4>1, <4>2 DEF RowInv, Final, Monitored
    <3>3. CASE ~(d = e /\ Exists(e))
      BY <2>3, <3>1, <3>3 DEF RowInv, Monitored
    <3> QED
      BY <3>2, <3>3
  <2>7. \A q \in Processors \ {p} : proc'[q] = proc[q]
    BY <1>0, <1>5 DEF Claim
  <2> QED
    BY <1>5, <2>5, <2>6, <2>7, OwnStep DEF Claim
<1>6. CASE AcquireLease(p) \/ StoreScreenshot(p) \/ FollowUp(p) \/ Release(p) \/ CountFailure(p)
  <2>1. /\ UNCHANGED <<trigger, rows, job>> /\ proc[p].pc # "idle"
        /\ \E step : GoTo(p, step)
    BY <1>6 DEF AcquireLease, StoreScreenshot, FollowUp, Release, CountFailure
  <2>2. /\ proc'[p].exec = e /\ proc'[p].attempt = proc[p].attempt
        /\ (proc[p].pc \in Working /\ proc'[p].pc \in Working) \/ proc'[p].pc \in {"release", "finish"}
    BY <1>0, <1>t, <1>6
    DEF AcquireLease, StoreScreenshot, FollowUp, Release, CountFailure, ProcType, Working
  <2>3. StepInv(p)'
    BY <1>0, <2>1, <2>2 DEF StepInv, MyRow, Resolving, Working
  <2> QED
    BY <1>m, <2>1, <2>3
<1>7. CASE Crawl(p)
  <2>1. /\ proc'[p].exec = e /\ proc'[p].attempt = proc[p].attempt
        /\ proc[p].pc \in Working /\ proc'[p].pc \in Working /\ proc'[p].pc \notin Resolving
    BY <1>0, <1>t, <1>7 DEF Crawl, ProcType, Working, Resolving
  <2>2. StepInv(p)'
    BY <1>0, <1>7, <2>1 DEF Crawl, StepInv, MyRow, Resolving, Working
  <2>3. \A q \in Processors \ {p} : proc'[q] = proc[q]
    BY <1>0, <1>7 DEF Crawl
  <2>4. \A d \in Executions : RowInv(d)'
    BY <1>7, RowInvFrame DEF Crawl
  <2> QED
    BY <1>7, <2>2, <2>3, <2>4, OwnStep DEF Crawl
<1>8. CASE Commit(p)
  <2>1. e \in Executions /\ e = job.exec /\ MyRow(p)
    BY <1>0, <1>8 DEF Commit, StepInv, Working
  <2>2. CASE Monitored /\ ~Exists(e)
    <3>1. /\ proc'[p].exec = e /\ proc'[p].attempt = proc[p].attempt /\ proc'[p].pc = "record"
          /\ rows' = rows
      BY <1>0, <1>t, <1>8, <2>2 DEF Commit, ProcType
    <3>2. StepInv(p)'
      BY <1>0, <1>8, <3>1 DEF Commit, StepInv, MyRow, Resolving, Working
    <3> QED
      BY <1>8, <1>m, <2>2, <3>2 DEF Commit
  <2>3. CASE ~(Monitored /\ ~Exists(e))
    <3> DEFINE success == [rows[e] EXCEPT !.status = "succeeded", !.change = Monitored]
    <3>1. proc'[p].pc = "followup"
      BY <1>0, <1>t, <1>8, <2>3 DEF Commit, ProcType
    <3>2. \A d \in Executions : rows'[d] = IF d = e /\ Exists(e) THEN success ELSE rows[d]
      BY <1>0, <1>8, <2>1, <2>3, WrittenRow DEF Commit
    <3>3. /\ success.status = "succeeded" /\ success.attempt = rows[e].attempt
          /\ success.error = rows[e].error /\ success.change = Monitored
      BY <1>t, <2>1 DEF RowType
    <3>4. StepInv(p)'
      BY <3>1 DEF StepInv, Resolving, Working
    <3>5. ASSUME NEW d \in Executions PROVE RowInv(d)'
      BY <1>0, <1>8, <2>1, <3>2, <3>3 DEF Commit, RowInv, MyRow, Exists, Absent, Final, Monitored
    <3>6. \A q \in Processors \ {p} : proc'[q] = proc[q]
      BY <1>0, <1>8, <2>3 DEF Commit
    <3> QED
      BY <1>8, <3>4, <3>5, <3>6, OwnStep DEF Commit
  <2> QED
    BY <2>2, <2>3
<1>9. CASE RecordFailure(p)
  <2> DEFINE verdict == IF WillRetry(p) THEN "queued"
                        ELSE IF proc[p].blocked THEN "blocked" ELSE "failed"
             failure == [rows[e] EXCEPT !.error = TRUE, !.status = verdict]
  <2>1. e \in Executions /\ e = job.exec /\ MyRow(p)
    BY <1>0, <1>9 DEF RecordFailure, StepInv, Working
  <2>2. proc'[p].pc \in {"count", "release"}
    BY <1>0, <1>t, <1>9 DEF RecordFailure, ProcType
  <2>3. \A d \in Executions : rows'[d] = IF d = e /\ Exists(e) THEN failure ELSE rows[d]
    BY <1>0, <1>9, <2>1, WrittenRow DEF RecordFailure
  <2>4. /\ failure.status \in {"queued", "blocked", "failed"}
        /\ failure.attempt = rows[e].attempt /\ failure.change = rows[e].change
    BY <1>t, <2>1 DEF RowType
  <2>5. StepInv(p)'
    BY <2>2 DEF StepInv, Resolving, Working
  <2>6. ASSUME NEW d \in Executions PROVE RowInv(d)'
    <3> HIDE DEF failure
    <3> QED
      BY <1>0, <1>9, <2>1, <2>3, <2>4
      DEF RecordFailure, RowInv, MyRow, Exists, Absent, Final, Monitored
  <2>7. \A q \in Processors \ {p} : proc'[q] = proc[q]
    BY <1>0, <1>9 DEF RecordFailure
  <2> QED
    BY <1>9, <2>5, <2>6, <2>7, OwnStep DEF RecordFailure
<1>10. CASE StepFails(p)
  <2>1. /\ UNCHANGED <<trigger, rows, job>> /\ proc[p].pc # "idle"
        /\ \A q \in Processors \ {p} : proc'[q] = proc[q]
    BY <1>0, <1>10 DEF StepFails, BeforeTry, InTry, InCatch
  <2>2. /\ proc'[p].exec = e /\ proc'[p].attempt = proc[p].attempt
        /\ \/ proc'[p].pc \in {"finish", "release"}
           \/ proc[p].pc \in Working /\ proc'[p].pc = "record"
    BY <1>0, <1>t, <1>10 DEF StepFails, SafeFaults, BeforeTry, InTry, InCatch, Working, ProcType
  <2>3. StepInv(p)'
    BY <1>0, <2>1, <2>2 DEF StepInv, MyRow, Resolving, Working
  <2>4. \A d \in Executions : RowInv(d)'
    BY <2>1, RowInvFrame
  <2> QED
    BY <2>1, <2>3, <2>4, OwnStep
<1> QED
  BY <1>1, <1>2, <1>3, <1>4, <1>5, <1>6, <1>7, <1>8, <1>9, <1>10 DEF Run

LEMMA IInvInit == Init => IInv
<1> SUFFICES ASSUME Init PROVE IInv
  OBVIOUS
<1>1. TInv
  BY TInvInit
<1>2. NameInv /\ OwnerInv
  BY DEF Init, NameInv, OwnerInv, Idle
<1>3. \A p \in Processors : StepInv(p)
  BY DEF Init, StepInv, Idle, Resolving, Working
<1>4. \A e \in Executions : RowInv(e)
  BY DEF Init, RowInv, Unused, Final
<1> QED
  BY <1>1, <1>2, <1>3, <1>4 DEF IInv

(* Publishing the job names its execution, before any row was run. *)
LEMMA PublishStep ==
  ASSUME IInv, TInv', NEW e \in 0..MaxRows, AddJob(e), job.state = "absent",
         UNCHANGED <<trigger, rows, proc>>
  PROVE  IInv'
<1>1. /\ job'.state = "waiting" /\ job'.made = job.made /\ job'.owner = job.owner
  BY AddJobType DEF IInv, TInv
<1>2. \A p \in Processors : proc[p].pc = "idle"
  BY AllIdle
<1>3. NameInv' /\ OwnerInv' /\ \A p \in Processors : StepInv(p)'
  BY <1>1, <1>2 DEF NameInv, OwnerInv, StepInv, Resolving, Working
<1>4. ASSUME NEW d \in Executions PROVE RowInv(d)'
  <2>1. rows[d].status \notin {"running"} \cup Final
    BY JobConstants DEF IInv, NameInv, RowInv, Executions, None
  <2> QED
    BY <1>1, <2>1 DEF IInv, RowInv, Final, Monitored
<1> QED
  BY <1>3, <1>4 DEF IInv

LEMMA IInvStep == ASSUME SafeFaults PROVE IInv /\ [Next]_vars => IInv'
<1> SUFFICES ASSUME IInv, [Next]_vars PROVE IInv'
  OBVIOUS
<1>0. TInv /\ TInv'
  BY TInvStep DEF IInv
<1>1. CASE RequestExecution
  <2>1. PICK e \in Executions : InsertRow(e)
    BY <1>1 DEF RequestExecution
  <2>2. ASSUME NEW d \in Executions PROVE rows'[d] = IF d = e THEN Fresh ELSE rows[d]
    BY <1>0, <2>1 DEF InsertRow, TInv, TypeOK
  <2>3. job.state = "absent"
    BY <1>0, <1>1 DEF RequestExecution, TInv, JobInv
  <2>4. \A p \in Processors : proc[p].pc = "idle"
    BY <2>3, AllIdle
  <2>5. NameInv' /\ OwnerInv' /\ \A p \in Processors : StepInv(p)'
    BY <1>1, <2>3, <2>4 DEF RequestExecution, IInv, NameInv, OwnerInv, StepInv, Resolving, Working
  <2>6. job.made = 0
    BY <1>0, <2>3 DEF TInv, JobInv
  <2>7. ASSUME NEW d \in Executions PROVE RowInv(d)'
    BY <1>1, <2>2, <2>6, FreshRow DEF RequestExecution, IInv, RowInv, Final, Monitored
  <2> QED
    BY <1>0, <2>5, <2>7 DEF IInv
<1>2. CASE Publish
  BY <1>0, <1>2, PublishStep DEF Publish, TInv, TypeOK, JobInv
<1>3. CASE PublishFails
  <2>1. CASE UNCHANGED job
    BY <1>0, <1>3, <2>1, Removals DEF PublishFails
  <2>2. CASE AddJob(request.exec)
    BY <1>0, <1>3, <2>2, PublishStep DEF PublishFails, TInv, TypeOK, JobInv
  <2> QED
    BY <1>3, <2>1, <2>2 DEF PublishFails
<1>4. CASE Undo
  BY <1>0, <1>4, Removals, WrittenRow DEF Undo, SetRow, Exists, Removed, TInv, TypeOK, RowType
<1>5. CASE RequestDies
  BY <1>0, <1>5, Removals DEF RequestDies
<1>6. CASE SchedulerFires
  BY <1>0, <1>6, PublishStep, JobConstants DEF SchedulerFires, None
<1>7. CASE SetActive
  BY <1>0, <1>7, Removals DEF SetActive
<1>8. CASE DeleteMonitor
  BY <1>0, <1>8, Removals DEF DeleteMonitor, Removed, TInv, TypeOK, RowType
<1>9. CASE ExpireExecution
  BY <1>0, <1>9, Removals DEF ExpireExecution, Removed, TInv, TypeOK, RowType
<1>10. CASE StallCheck
  <2>1. \A p \in Processors : proc[p].pc = "idle"
    BY <1>10, JobConstants DEF StallCheck, IInv, OwnerInv
  <2>2. job'.exec = job.exec /\ job'.made = job.made /\ job'.state # "absent"
    BY <1>0, <1>10 DEF StallCheck, TInv, TypeOK, JobType
  <2>3. NameInv' /\ OwnerInv' /\ \A p \in Processors : StepInv(p)'
    BY <1>10, <2>1, <2>2 DEF StallCheck, IInv, NameInv, OwnerInv, StepInv, Resolving, Working
  <2>4. \A e \in Executions : RowInv(e)'
    BY <1>10, <2>2 DEF StallCheck, IInv, RowInv, Monitored
  <2> QED
    BY <1>0, <2>3, <2>4 DEF IInv
<1>11. ASSUME NEW p \in Processors, Take(p) PROVE IInv'
  <2>1. job'.exec = job.exec /\ job'.made = job.made /\ job'.state = "active" /\ job'.owner = p
    BY <1>0, <1>11 DEF Take, TInv, TypeOK, JobType
  <2>2. \A q \in Processors : proc[q].pc = "idle"
    BY <1>11, AllIdle DEF Take
  <2>3. \A q \in Processors \ {p} : proc'[q] = proc[q]
    BY <1>0, <1>11 DEF Take, TInv, TypeOK
  <2>4. /\ proc'[p].exec = job.exec /\ proc'[p].attempt = job.made + 1
        /\ proc'[p].pc = IF job.exec = None THEN "select" ELSE "load"
    BY <1>0, <1>11 DEF Take, TInv, TypeOK, Idle
  <2>5. job.exec # None => job.exec \in Executions
    BY <1>0, JobConstants DEF TInv, TypeOK, JobType, Executions, None
  <2>6. StepInv(p)'
    BY <2>1, <2>4, <2>5 DEF StepInv, Resolving, Working
  <2>7. NameInv' /\ OwnerInv' /\ \A q \in Processors : StepInv(q)'
    BY <1>11, <2>1, <2>2, <2>3, <2>6 DEF NameInv, OwnerInv, StepInv, Resolving, Working
  <2>8. \A e \in Executions : RowInv(e)'
    BY <1>11, <2>1 DEF Take, IInv, RowInv, Monitored
  <2> QED
    BY <1>0, <2>7, <2>8 DEF IInv
<1>12. ASSUME NEW p \in Processors, Finish(p) \/ Crash(p) PROVE IInv'
  <2>1. proc' = [proc EXCEPT ![p] = Idle] /\ proc[p].pc # "idle" /\ UNCHANGED <<trigger, rows>>
    BY <1>12 DEF Finish, Crash
  <2>2. job.owner = p /\ job.state = "active"
    BY <1>0, <2>1, JobConstants DEF IInv, OwnerInv, TInv, JobInv
  <2>3. \A q \in Processors : proc'[q].pc = "idle"
    BY <1>0, <2>1, Solo DEF TInv, TypeOK, Idle
  <2>4. /\ job'.exec = job.exec /\ job'.state # "absent"
        /\ job'.made = job.made \/ job'.made = job.made + 1
    BY <1>0, <1>12, <2>2 DEF Finish, Crash, Disown, TInv, TypeOK, JobType
  <2>5. NameInv' /\ OwnerInv' /\ \A q \in Processors : StepInv(q)'
    BY <2>3, <2>4 DEF NameInv, OwnerInv, StepInv, Resolving, Working
  <2>6. ASSUME NEW e \in Executions PROVE RowInv(e)'
    <3>1. rows[e].attempt \in Nat /\ job.made \in Nat
      BY <1>0 DEF TInv, TypeOK, RowType, JobType
    <3> QED
      BY <2>1, <2>4, <3>1 DEF IInv, RowInv, Monitored
  <2> QED
    BY <1>0, <2>5, <2>6 DEF IInv
<1>13. ASSUME NEW p \in Processors, LoseLock(p) PROVE IInv'
  BY <1>13 DEF LoseLock, SafeFaults
<1>14. ASSUME NEW p \in Processors, Run(p) PROVE IInv'
  BY <1>0, <1>14, RunStep
<1>15. CASE UNCHANGED vars
  BY <1>0, <1>15, Removals DEF vars
<1> QED
  BY <1>1, <1>2, <1>3, <1>4, <1>5, <1>6, <1>7, <1>8, <1>9, <1>10, <1>11, <1>12, <1>13, <1>14,
     <1>15 DEF Next, Api, Environment

LEMMA Inductive == ASSUME SafeFaults PROVE Spec => []IInv
BY IInvInit, IInvStep, PTL DEF Spec

(* Under crashes of workers and API and the failure of any step but the    *)
(* follow-up, only the execution that the job's data names is ever run:    *)
(* what a dead attempt inserted before it stored the identifier stays      *)
(* queued.                                                                 *)
THEOREM OnlyTheNamedRuns == ASSUME SafeFaults PROVE Spec => []OnlyNamedExecutionRuns
<1>1. IInv => OnlyNamedExecutionRuns
  BY DEF IInv, RowInv, OnlyNamedExecutionRuns
<1> QED
  BY <1>1, Inductive, PTL

(* A succeeded execution carries no error of an earlier attempt. *)
THEOREM SuccessStaysClean == ASSUME SafeFaults PROVE Spec => []SuccessIsClean
<1>1. IInv => SuccessIsClean
  BY DEF IInv, RowInv, SuccessIsClean
<1> QED
  BY <1>1, Inductive, PTL

(* The changes table has a row for exactly the succeeded executions of a *)
(* monitor, whatever dies between and whatever is deleted.               *)
THEOREM OneChangeRowPerSuccess == ASSUME SafeFaults PROVE Spec => []ChangeRowPerSuccess
<1>1. IInv => ChangeRowPerSuccess
  BY DEF IInv, RowInv, ChangeRowPerSuccess
<1> QED
  BY <1>1, Inductive, PTL

-----------------------------------------------------------------------------
(* The steps of the job as the abstract lifecycle sees them: they leave the *)
(* row alone, move its status, or take rows away.                           *)
LEMMA Unmoved == ASSUME UNCHANGED rows PROVE UNCHANGED Lifecycle!vars
BY DEF Lifecycle!vars

LEMMA Moved ==
  ASSUME NEW e \in Executions, NEW to,
         \A d \in Executions : /\ rows'[d].status = IF d = e THEN to ELSE rows[d].status
                               /\ rows'[d].attempt = rows[d].attempt
  PROVE  Lifecycle!Move(e, rows[e].status, to)
BY DEF Lifecycle!Move

LEMMA TakenAway ==
  ASSUME \A e \in Executions :
           \/ rows'[e] = rows[e]
           \/ /\ rows[e].status # "unused" /\ rows'[e].status = "deleted"
              /\ rows'[e].attempt = rows[e].attempt
  PROVE  Lifecycle!Delete
<1> DEFINE gone == {e \in Executions : rows'[e].status = "deleted"}
<1>1. \A e \in gone : rows[e].status # "unused"
  OBVIOUS
<1>2. \A e \in Executions : /\ rows'[e].attempt = rows[e].attempt
                            /\ rows'[e].status = IF e \in gone THEN "deleted" ELSE rows[e].status
  OBVIOUS
<1> HIDE DEF gone
<1>3. [e \in Executions |-> rows'[e].status]
        = [e \in Executions |-> IF e \in gone THEN "deleted" ELSE rows[e].status]
  BY <1>2
<1>4. [e \in Executions |-> rows'[e].attempt] = [e \in Executions |-> rows[e].attempt]
  BY <1>2
<1>5. gone \in SUBSET Executions
  BY DEF gone
<1> QED
  BY <1>1, <1>3, <1>4, <1>5 DEF Lifecycle!Delete

LEMMA LifecycleInit == Init => Lifecycle!Init
BY DEF Init, Lifecycle!Init, Unused

LEMMA CreateStep ==
  ASSUME IInv, NEW e \in Executions, InsertRow(e)
  PROVE  Lifecycle!Create(e)
<1>1. \A d \in Executions : rows'[d] = IF d = e THEN Fresh ELSE rows[d]
  BY DEF IInv, TInv, TypeOK, InsertRow
<1>2. rows[e].status = "unused" /\ rows[e].attempt = 0
  BY DEF IInv, RowInv, InsertRow
<1> QED
  BY <1>1, <1>2, FreshRow, Moved DEF Lifecycle!Create

LEMMA ClaimStep ==
  ASSUME IInv, NEW p \in Processors, Claim(p)
  PROVE  UNCHANGED rows \/ \E e \in Executions : Lifecycle!Start(e)
<1>1. PICK e \in Executions : e = proc[p].exec
  BY DEF IInv, Claim, At, StepInv
<1>2. PICK n \in 0..MaxAttempts : n = proc[p].attempt
  BY DEF IInv, TInv, TypeOK, ProcType
<1> DEFINE claimed == [rows[e] EXCEPT !.status = "running", !.attempt = n, !.error = FALSE]
<1>3. n = job.made + 1 /\ RowInv(e) /\ rows[e].status \notin {"unused", "succeeded"}
  BY <1>1, <1>2 DEF IInv, Claim, At, StepInv
<1>4. CASE ~Exists(e)
  BY <1>1, <1>4 DEF Claim, SetRow
<1>5. CASE Exists(e)
  <2>1. rows[e] \in RowType /\ job.made \in Nat /\ rows[e].attempt \in Nat
    BY JobConstants DEF IInv, TInv, TypeOK, JobType, RowType
  <2>2. \A d \in Executions : rows'[d] = IF d = e THEN claimed ELSE rows[d]
    BY <1>1, <1>2, <1>5, WrittenRow DEF IInv, Claim
  <2>3. claimed.status = "running" /\ claimed.attempt = n
    BY <2>1 DEF RowType
  <2>4. rows[e].status \in {"queued", "running", "failed", "blocked"}
    BY <1>3, <1>5, <2>1 DEF Exists, Absent, Final, RowType
  <2>5. rows[e].attempt <= n /\ n > 0
    BY <1>3, <2>1, <2>4 DEF RowInv, Final
  <2>6. n \in rows[e].attempt..MaxAttempts
    BY <2>1, <2>5, JobConstants
  <2> HIDE DEF claimed
  <2>7. /\ [d \in Executions |-> rows'[d].status]
             = [[d \in Executions |-> rows[d].status] EXCEPT ![e] = "running"]
        /\ [d \in Executions |-> rows'[d].attempt]
             = [[d \in Executions |-> rows[d].attempt] EXCEPT ![e] = n]
    BY <2>2, <2>3
  <2> QED
    BY <2>4, <2>5, <2>6, <2>7 DEF Lifecycle!Start
<1> QED
  BY <1>4, <1>5

LEMMA CommitStep ==
  ASSUME IInv, NEW p \in Processors, Commit(p)
  PROVE  UNCHANGED rows \/ \E e \in Executions : Lifecycle!Succeed(e)
<1>1. PICK e \in Executions : e = proc[p].exec
  BY DEF IInv, Commit, At, StepInv, Working
<1> DEFINE success == [rows[e] EXCEPT !.status = "succeeded", !.change = Monitored]
<1>2. MyRow(p) /\ rows[e] \in RowType
  BY DEF IInv, TInv, TypeOK, Commit, At, StepInv, Working
<1>3. CASE ~Exists(e)
  BY <1>1, <1>3 DEF Commit, SetRow
<1>4. CASE Exists(e)
  <2>1. rows[e].status = "running"
    BY <1>1, <1>2, <1>4 DEF MyRow, Exists, Absent
  <2>2. \A d \in Executions : rows'[d] = IF d = e THEN success ELSE rows[d]
    BY <1>1, <1>4, WrittenRow DEF IInv, Commit
  <2>3. success.status = "succeeded" /\ success.attempt = rows[e].attempt
    BY <1>2 DEF RowType
  <2> HIDE DEF success
  <2> QED
    BY <2>1, <2>2, <2>3, Moved DEF Lifecycle!Succeed
<1> QED
  BY <1>3, <1>4

LEMMA RecordStep ==
  ASSUME IInv, NEW p \in Processors, RecordFailure(p)
  PROVE  \/ UNCHANGED rows
         \/ \E e \in Executions :
              Lifecycle!Requeue(e) \/ Lifecycle!Fail(e) \/ Lifecycle!Block(e)
<1>1. PICK e \in Executions : e = proc[p].exec
  BY DEF IInv, RecordFailure, At, StepInv, Working
<1>2. PICK verdict \in {"queued", "blocked", "failed"} :
         verdict = IF WillRetry(p) THEN "queued" ELSE IF proc[p].blocked THEN "blocked" ELSE "failed"
  OBVIOUS
<1> DEFINE failure == [rows[e] EXCEPT !.error = TRUE, !.status = verdict]
<1>3. MyRow(p) /\ rows[e] \in RowType /\ proc[p].attempt \in 0..MaxAttempts
  BY DEF IInv, TInv, TypeOK, ProcType, RecordFailure, At, StepInv, Working
<1>4. CASE ~Exists(e)
  BY <1>1, <1>4 DEF RecordFailure, SetRow
<1>5. CASE Exists(e)
  <2>1. rows[e].status = "running" /\ rows[e].attempt = proc[p].attempt
    BY <1>1, <1>3, <1>5 DEF MyRow, Exists, Absent
  <2>2. SetRow(e, failure)
    BY <1>1, <1>2 DEF RecordFailure
  <2>3. \A d \in Executions : rows'[d] = IF d = e THEN failure ELSE rows[d]
    BY <1>5, <2>2, WrittenRow DEF IInv
  <2>4. failure.status = verdict /\ failure.attempt = rows[e].attempt
    BY <1>3 DEF RowType
  <2> HIDE DEF failure
  <2>5. Lifecycle!Move(e, rows[e].status, verdict)
    BY <2>3, <2>4, Moved
  <2>6. Lifecycle!Move(e, "running", verdict)
    BY <2>1, <2>5 DEF Lifecycle!Move
  <2>7. \/ verdict = "blocked"
        \/ verdict = "queued" /\ rows[e].attempt < MaxAttempts
        \/ verdict = "failed" /\ rows[e].attempt = MaxAttempts
    BY <1>2, <1>3, <2>1, JobConstants DEF WillRetry
  <2> QED
    BY <2>6, <2>7 DEF Lifecycle!Requeue, Lifecycle!Fail, Lifecycle!Block
<1> QED
  BY <1>4, <1>5

(* Every step of the job is a step of the lifecycle, or leaves it alone. *)
LEMMA LifecycleStep ==
  ASSUME SafeFaults PROVE IInv /\ [Next]_vars => [Lifecycle!Next]_(Lifecycle!vars)
<1> SUFFICES ASSUME IInv, [Next]_vars PROVE Lifecycle!Next \/ UNCHANGED Lifecycle!vars
  OBVIOUS
<1>0. rows \in [Executions -> RowType]
  BY DEF IInv, TInv, TypeOK
<1>1. CASE UNCHANGED rows
  BY <1>1, Unmoved
<1>2. ASSUME NEW e \in Executions, InsertRow(e) PROVE Lifecycle!Next
  BY <1>2, CreateStep DEF Lifecycle!Next
<1>3. CASE Undo \/ DeleteMonitor \/ ExpireExecution
  <2>1. ASSUME NEW e \in Executions
        PROVE  \/ rows'[e] = rows[e]
               \/ Exists(e) /\ rows'[e] = Removed(rows[e])
    <3>1. CASE Undo
      BY <1>0, <3>1 DEF Undo, SetRow, Exists
    <3>2. CASE DeleteMonitor
      BY <3>2 DEF DeleteMonitor
    <3>3. CASE ExpireExecution
      BY <1>0, <3>3 DEF ExpireExecution
    <3> QED
      BY <1>3, <3>1, <3>2, <3>3
  <2>2. \A e \in Executions : /\ Removed(rows[e]).status = "deleted"
                              /\ Removed(rows[e]).attempt = rows[e].attempt
    BY <1>0 DEF Removed, RowType
  <2> QED
    BY <2>1, <2>2, TakenAway DEF Exists, Absent, Lifecycle!Next
<1>4. ASSUME NEW p \in Processors, Claim(p) \/ Commit(p) \/ RecordFailure(p)
      PROVE  Lifecycle!Next \/ UNCHANGED Lifecycle!vars
  BY <1>1, <1>4, ClaimStep, CommitStep, RecordStep DEF Lifecycle!Next
<1>5. CASE RequestExecution
  BY <1>2, <1>5 DEF RequestExecution
<1>6. ASSUME NEW p \in Processors, InsertExecution(p)
      PROVE  Lifecycle!Next \/ UNCHANGED Lifecycle!vars
  BY <1>1, <1>2, <1>6 DEF InsertExecution
<1>7. ASSUME NEW p \in Processors, Run(p) PROVE Lifecycle!Next \/ UNCHANGED Lifecycle!vars
  BY <1>1, <1>4, <1>6, <1>7
  DEF Run, SelectMonitor, PersistId, LoadContext, AcquireLease, Crawl, StoreScreenshot,
      FollowUp, CountFailure, Release, StepFails
<1>8. CASE Publish \/ PublishFails \/ RequestDies \/ SchedulerFires \/ SetActive \/ StallCheck
  BY <1>1, <1>8 DEF Publish, PublishFails, RequestDies, SchedulerFires, SetActive, StallCheck
<1>9. ASSUME NEW p \in Processors, Take(p) \/ Finish(p) \/ LoseLock(p) \/ Crash(p)
      PROVE  UNCHANGED Lifecycle!vars
  <2>1. UNCHANGED rows
    BY <1>9 DEF Take, Finish, LoseLock, Crash
  <2> QED
    BY <2>1, Unmoved
<1> QED
  BY <1>1, <1>3, <1>5, <1>7, <1>8, <1>9 DEF Next, Api, Environment, vars

(* The row of an execution goes through its lifecycle and nothing else: a    *)
(* verdict is reached by a running execution only, a failure is declared     *)
(* when the attempts are used up, the attempt number never goes back.        *)
THEOREM JobImplementsLifecycle == ASSUME SafeFaults PROVE Spec => RowsFollowLifecycle
BY Inductive, LifecycleInit, LifecycleStep, PTL DEF Spec, RowsFollowLifecycle, Lifecycle!Spec

(* A succeeded execution stays succeeded until it is deleted: no crash, retry *)
(* or stalled attempt of its job takes the result back.                       *)
THEOREM SuccessIsNeverLost == ASSUME SafeFaults PROVE Spec => SucceededIsFinal
<1>1. IInv /\ [Next]_vars
        => [\A e \in Executions : rows[e].status = "succeeded"
              => rows'[e].status \in {"succeeded", "deleted"}]_rows
  <2> SUFFICES ASSUME IInv, [Next]_vars, NEW e \in Executions, rows[e].status = "succeeded",
                      rows'[e].status \notin {"succeeded", "deleted"}
               PROVE  FALSE
    OBVIOUS
  <2>1. [Lifecycle!Next]_(Lifecycle!vars)
    BY LifecycleStep
  <2>2. [d \in Executions |-> rows'[d].status][e] = rows'[e].status
    OBVIOUS
  <2> QED
    BY <2>1, <2>2
    DEF Lifecycle!Next, Lifecycle!vars, Lifecycle!Create, Lifecycle!Start, Lifecycle!Requeue,
        Lifecycle!Succeed, Lifecycle!Fail, Lifecycle!Block, Lifecycle!Delete, Lifecycle!Move
<1> QED
  BY <1>1, Inductive, PTL DEF Spec, SucceededIsFinal
=============================================================================
