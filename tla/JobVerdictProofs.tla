-------------------------- MODULE JobVerdictProofs --------------------------
(***************************************************************************)
(* How a job ends, for any number of slots, rows, attempts and stalls, as  *)
(* long as the faults leave the processor the time to record it: the end   *)
(* of the job, the verdict on its execution and the monitor agree, and the *)
(* queue makes one execution of it.                                        *)
(***************************************************************************)
EXTENDS ExtractionJobProofs

(* The processor's own step: the others do not move, and it does not end. *)
LEMMA RunMoves ==
  ASSUME TypeOK, NEW p \in Processors, Run(p)
  PROVE  /\ proc[p].pc \notin {"idle", "finish"} /\ proc'[p].pc # "idle"
         /\ \A q \in Processors : q # p => proc'[q] = proc[q]
<1> USE DEF At, GoTo, End
<1>1. proc \in [Processors -> ProcType] /\ proc[p] \in ProcType
  BY DEF TypeOK
<1>2. CASE SelectMonitor(p) \/ LoadContext(p)
  BY <1>1, <1>2 DEF SelectMonitor, LoadContext, ProcType
<1>3. CASE InsertExecution(p)
  BY <1>1, <1>3 DEF InsertExecution, ProcType
<1>4. CASE PersistId(p) \/ Claim(p) \/ AcquireLease(p) \/ StoreScreenshot(p) \/ FollowUp(p)
           \/ CountFailure(p) \/ Release(p)
  BY <1>1, <1>4 DEF PersistId, Claim, AcquireLease, StoreScreenshot, FollowUp, CountFailure, Release, ProcType
<1>5. CASE Crawl(p)
  BY <1>1, <1>5 DEF Crawl, ProcType
<1>6. CASE Commit(p)
  BY <1>1, <1>6 DEF Commit, ProcType
<1>7. CASE RecordFailure(p)
  BY <1>1, <1>7 DEF RecordFailure, ProcType
<1>8. CASE StepFails(p)
  BY <1>1, <1>8 DEF StepFails, BeforeTry, InTry, InCatch, ProcType
<1> QED
  BY <1>2, <1>3, <1>4, <1>5, <1>6, <1>7, <1>8 DEF Run

-----------------------------------------------------------------------------
(* The processor knows that the target is blocked from the crawl on, and the *)
(* error it ends with says so.                                               *)
BlockedInv == \A p \in Processors : proc[p].blocked =>
  \/ proc[p].pc = "record"
  \/ proc[p].pc \in {"count", "release", "finish"} /\ proc[p].ending = "unrecoverable"

(* The catch and finally blocks do not fail. *)
CatchHolds == FailsAt \cap {"record", "count", "release"} = {}

LEMMA BlockedRuns ==
  ASSUME CatchHolds, TypeOK, BlockedInv, NEW p \in Processors, Run(p) PROVE BlockedInv'
<1> USE DEF At, GoTo, End
<1>1. proc \in [Processors -> ProcType] /\ proc[p] \in ProcType
  BY DEF TypeOK
<1>2. SUFFICES ASSUME proc'[p].blocked
               PROVE  \/ proc'[p].pc = "record"
                      \/ proc'[p].pc \in {"count", "release", "finish"} /\ proc'[p].ending = "unrecoverable"
  BY RunMoves DEF BlockedInv
<1>3. proc[p].blocked => \/ proc[p].pc = "record"
                         \/ proc[p].pc \in {"count", "release"} /\ proc[p].ending = "unrecoverable"
  BY RunMoves DEF BlockedInv
<1>4. CASE SelectMonitor(p) \/ LoadContext(p)
  BY <1>1, <1>2, <1>3, <1>4 DEF SelectMonitor, LoadContext, ProcType
<1>5. CASE InsertExecution(p)
  BY <1>1, <1>2, <1>3, <1>5 DEF InsertExecution, ProcType
<1>6. CASE PersistId(p) \/ Claim(p) \/ AcquireLease(p) \/ StoreScreenshot(p) \/ FollowUp(p)
           \/ CountFailure(p) \/ Release(p)
  BY <1>1, <1>2, <1>3, <1>6
  DEF PersistId, Claim, AcquireLease, StoreScreenshot, FollowUp, CountFailure, Release, ProcType
<1>7. CASE Crawl(p)
  BY <1>1, <1>2, <1>3, <1>7 DEF Crawl, ProcType
<1>8. CASE Commit(p)
  BY <1>1, <1>2, <1>3, <1>8 DEF Commit, ProcType
<1>9. CASE RecordFailure(p)
  BY <1>1, <1>2, <1>9 DEF RecordFailure, ProcType
<1>10. CASE StepFails(p)
  BY <1>1, <1>2, <1>3, <1>10 DEF StepFails, BeforeTry, InTry, InCatch, CatchHolds, ProcType
<1> QED
  BY <1>4, <1>5, <1>6, <1>7, <1>8, <1>9, <1>10 DEF Run

(* Only its own step, the start and the end of a processor change its slot. *)
LEMMA SlotMoves ==
  ASSUME [Next]_vars
  PROVE  \/ UNCHANGED proc
         \/ \E p \in Processors : Take(p) \/ Run(p) \/ Finish(p) \/ Crash(p)
BY DEF Next, Api, Environment, vars, RequestExecution, Publish, PublishFails, Undo, RequestDies, SchedulerFires,
       SetActive, DeleteMonitor, ExpireExecution, StallCheck, LoseLock

LEMMA SlotIsCleared ==
  ASSUME TypeOK, NEW p \in Processors, Take(p) \/ Finish(p) \/ Crash(p)
  PROVE  /\ proc'[p].blocked = FALSE /\ proc'[p].ending = "completed"
         /\ Take(p) => proc'[p].pc = IF job.exec = None THEN "select" ELSE "load"
         /\ ~Take(p) => proc'[p].pc = "idle"
         /\ \A q \in Processors : q # p => proc'[q] = proc[q]
<1>1. proc \in [Processors -> ProcType]
  BY DEF TypeOK
<1>2. CASE Take(p)
  <2>1. /\ proc'[p].blocked = FALSE /\ proc'[p].ending = "completed"
        /\ proc'[p].pc = IF job.exec = None THEN "select" ELSE "load"
    BY <1>1, <1>2 DEF Take, Idle
  <2>2. \A q \in Processors : q # p => proc'[q] = proc[q]
    BY <1>1, <1>2 DEF Take
  <2> QED
    BY <1>2, <2>1, <2>2
<1>3. CASE Finish(p) \/ Crash(p)
  <2>1. proc' = [proc EXCEPT ![p] = Idle] /\ proc[p].pc # "idle"
    BY <1>3 DEF Finish, Crash
  <2>2. proc'[p].blocked = FALSE /\ proc'[p].ending = "completed" /\ proc'[p].pc = "idle"
    BY <1>1, <2>1 DEF Idle
  <2>3. ~Take(p)
    BY <2>1 DEF Take
  <2> QED
    BY <1>1, <2>1, <2>2, <2>3
<1> QED
  BY <1>2, <1>3

LEMMA BlockedStep == ASSUME CatchHolds, TypeOK, BlockedInv, [Next]_vars PROVE BlockedInv'
<1>1. CASE UNCHANGED proc
  BY <1>1 DEF BlockedInv
<1>2. ASSUME NEW p \in Processors, Take(p) \/ Finish(p) \/ Crash(p) PROVE BlockedInv'
  BY <1>2, SlotIsCleared DEF BlockedInv
<1> QED
  BY <1>1, <1>2, BlockedRuns, SlotMoves

LEMMA BlockedHolds == ASSUME CatchHolds PROVE Spec => []BlockedInv
<1>1. Init => BlockedInv
  BY DEF Init, BlockedInv, Idle
<1>2. TypeOK /\ BlockedInv /\ [Next]_vars => BlockedInv'
  BY BlockedStep
<1> QED
  BY <1>1, <1>2, TypeCorrect, PTL DEF Spec

LEMMA BlockedFinish ==
  ASSUME TypeOK, BlockedInv, NEW p \in Processors, Finish(p), proc[p].blocked, job.owner = p
  PROVE  job'.state = "failed"
<1>1. proc[p].ending = "unrecoverable"
  BY DEF BlockedInv, Finish
<1>2. job' = [[job EXCEPT !.owner = NoOwner] EXCEPT !.made = job.made + 1, !.state = "failed"]
  BY <1>1 DEF Finish, Disown, TypeOK, JobType
<1> QED
  BY <1>2 DEF TypeOK, JobType

(* A processor that found the target blocked and lives to its end ends the   *)
(* job for good, even when attempts are left, whoever else dies or loses     *)
(* the lock, and whichever awaits of the try block fail, in other slots too. *)
THEOREM BlockedIsNotRetried ==
  ASSUME CatchHolds
  PROVE  Spec => [][\A p \in Processors :
                      Finish(p) /\ proc[p].blocked /\ job.owner = p => job'.state = "failed"]_vars
<1>1. TypeOK /\ BlockedInv
        => [\A p \in Processors :
              Finish(p) /\ proc[p].blocked /\ job.owner = p => job'.state = "failed"]_vars
  BY BlockedFinish
<1> QED
  BY <1>1, BlockedHolds, TypeCorrect, PTL DEF Spec

(* When no process dies, every such processor lives to its end. *)
THEOREM BlockedIsFinal == ASSUME CatchHolds, ~Crashes PROVE Spec => BlockedEndsJob
<1>1. TypeOK /\ BlockedInv /\ [Next]_vars
        => [\A p \in Processors :
              proc[p].pc = "finish" /\ proc[p].blocked /\ job.owner = p /\ proc'[p].pc = "idle"
                => job'.state = "failed"]_vars
  <2> SUFFICES ASSUME TypeOK, BlockedInv, [Next]_vars, NEW p \in Processors,
                      proc[p].pc = "finish", proc[p].blocked, job.owner = p, proc'[p].pc = "idle"
               PROVE  job'.state = "failed"
    OBVIOUS
  <2>1. Finish(p)
    <3>1. PICK q \in Processors : Take(q) \/ Run(q) \/ Finish(q) \/ Crash(q)
      BY SlotMoves
    <3>2. ~Crash(q) /\ ~Take(p) /\ ~Run(p)
      BY RunMoves DEF Crash, Take
    <3>3. q = p
      BY <3>1, <3>2, RunMoves, SlotIsCleared
    <3> QED
      BY <3>1, <3>2, <3>3
  <2> QED
    BY <2>1, BlockedFinish
<1> QED
  BY <1>1, BlockedHolds, TypeCorrect, PTL DEF Spec, BlockedEndsJob

-----------------------------------------------------------------------------
(* Rows are only made by the request and by the first step of a scheduled   *)
(* job; nothing makes a used row unused again.                              *)
SameRows == \A e \in Executions : rows'[e].status = "unused" <=> rows[e].status = "unused"

LEMMA SetRowIs ==
  ASSUME TypeOK, NEW e, NEW row, SetRow(e, row), Exists(e) => row.status # "unused"
  PROVE  SameRows
BY DEF TypeOK, SetRow, SameRows, Exists, Absent

LEMMA RunRows ==
  ASSUME TypeOK, NEW p \in Processors, Run(p), ~InsertExecution(p) \/ ~monitor.exists
  PROVE  SameRows
<1> DEFINE e == proc[p].exec
<1>1. CASE UNCHANGED rows
  BY <1>1 DEF SameRows
<1>2. Exists(e) => rows[e] \in RowType
  BY DEF TypeOK, Exists
<1>3. CASE Claim(p)
  <2> DEFINE row == [rows[e] EXCEPT !.status = "running", !.attempt = proc[p].attempt, !.error = FALSE]
  <2>1. Exists(e) => row.status # "unused"
    BY <1>2 DEF RowType
  <2> HIDE DEF row
  <2>2. SetRow(e, row)
    BY <1>3 DEF Claim, row
  <2> QED
    BY <2>1, <2>2, SetRowIs
<1>4. CASE Commit(p)
  <2> DEFINE row == [rows[e] EXCEPT !.status = "succeeded", !.change = Monitored]
  <2>1. Exists(e) => row.status # "unused"
    BY <1>2 DEF RowType
  <2> HIDE DEF row
  <2>2. SetRow(e, row) \/ UNCHANGED rows
    BY <1>4 DEF Commit, row
  <2> QED
    BY <1>1, <2>1, <2>2, SetRowIs
<1>5. CASE RecordFailure(p)
  <2> DEFINE row == [rows[e] EXCEPT !.error = TRUE,
               !.status = IF WillRetry(p) THEN "queued" ELSE IF proc[p].blocked THEN "blocked" ELSE "failed"]
  <2>1. Exists(e) => row.status # "unused"
    BY <1>2 DEF RowType
  <2> HIDE DEF row
  <2>2. SetRow(e, row)
    BY <1>5 DEF RecordFailure, row
  <2> QED
    BY <2>1, <2>2, SetRowIs
<1> QED
  BY <1>1, <1>3, <1>4, <1>5
  DEF Run, SelectMonitor, InsertExecution, PersistId, LoadContext, AcquireLease, Crawl, StoreScreenshot,
      FollowUp, CountFailure, Release, StepFails

LEMMA RemovedIs == ASSUME NEW row \in RowType PROVE Removed(row).status = "deleted"
BY DEF Removed, RowType

LEMMA RowsAre ==
  ASSUME TypeOK, [Next]_vars
  PROVE  SameRows \/ RequestExecution \/ \E p \in Processors : InsertExecution(p) /\ monitor.exists
<1>0. rows \in [Executions -> RowType]
  BY DEF TypeOK
<1>1. CASE UNCHANGED rows
  BY <1>1 DEF SameRows
<1>2. CASE Undo
  <2>1. Exists(request.exec) => Removed(rows[request.exec]).status # "unused"
    BY <1>0, RemovedIs DEF Exists
  <2> QED
    BY <1>2, <2>1, SetRowIs DEF Undo
<1>3. CASE DeleteMonitor
  BY <1>0, <1>3, RemovedIs DEF DeleteMonitor, SameRows, Exists, Absent
<1>4. CASE ExpireExecution
  BY <1>0, <1>4, RemovedIs DEF ExpireExecution, SameRows, Exists, Absent
<1> QED
  BY <1>1, <1>2, <1>3, <1>4, RunRows
  DEF Next, Api, Environment, vars, Publish, PublishFails, RequestDies, SchedulerFires, SetActive, StallCheck,
      Take, Finish, LoseLock, Crash

LEMMA InsertedIs ==
  ASSUME TypeOK, NEW e \in Executions, InsertRow(e)
  PROVE  /\ rows[e].status = "unused" /\ rows'[e].status = "queued"
         /\ \A d \in Executions : d # e => rows'[d] = rows[d]
BY FreshRow DEF TypeOK, InsertRow

(* Who may change the job, and how far. *)
LEMMA JobMoves ==
  ASSUME TInv, [Next]_vars
  PROVE  \/ UNCHANGED job
         \/ request.pc = "publish" /\ AddJob(request.exec)
         \/ SchedulerFires
         \/ \E p \in Processors : PersistId(p)
         \/ job.state # "absent" /\ job'.state # "absent" /\ job'.exec = job.exec
<1> USE DEF TInv, TypeOK, JobType
<1>1. ASSUME NEW p \in Processors, Finish(p) \/ LoseLock(p) \/ Crash(p)
      PROVE  job' = job \/ (job.state # "absent" /\ job'.state # "absent" /\ job'.exec = job.exec)
  <2>1. CASE job.owner # p
    <3>1. Finish(p) => job' = job
      BY <2>1 DEF Finish
    <3>2. LoseLock(p) \/ Crash(p) => job' = job
      BY <2>1 DEF LoseLock, Crash, Disown
    <3> QED
      BY <1>1, <3>1, <3>2
  <2>2. CASE job.owner = p
    <3>1. job.state = "active"
      BY <2>2, JobConstants DEF JobInv
    <3>2. CASE Finish(p)
      BY <2>2, <3>1, <3>2 DEF Finish, Disown
    <3>3. CASE LoseLock(p) \/ Crash(p)
      BY <2>2, <3>1, <3>3 DEF LoseLock, Crash, Disown
    <3> QED
      BY <1>1, <3>2, <3>3
  <2> QED
    BY <2>1, <2>2
<1>2. CASE StallCheck
  BY <1>2 DEF StallCheck
<1>3. ASSUME NEW p \in Processors, Take(p)
      PROVE  job.state # "absent" /\ job'.state # "absent" /\ job'.exec = job.exec
  BY <1>3 DEF Take
<1>4. ASSUME NEW p \in Processors, Run(p) PROVE UNCHANGED job \/ PersistId(p)
  BY <1>4
  DEF Run, SelectMonitor, InsertExecution, LoadContext, Claim, AcquireLease, Crawl, StoreScreenshot, Commit,
      FollowUp, RecordFailure, CountFailure, Release, StepFails
<1>5. CASE Api
  BY <1>5 DEF Api, RequestExecution, Publish, PublishFails, Undo, RequestDies
<1>6. CASE Environment
  BY <1>6 DEF Environment, SetActive, DeleteMonitor, ExpireExecution
<1> QED
  BY <1>1, <1>2, <1>3, <1>4, <1>5, <1>6 DEF Next, vars

(* Where a processor may be after its step, as far as the row is made. *)
LEMMA Resolves ==
  ASSUME TypeOK, NEW p \in Processors, Run(p)
  PROVE  /\ proc'[p].pc = "insert" => proc[p].pc = "select"
         /\ proc'[p].pc # "select"
         /\ proc'[p].pc = "persist" => InsertExecution(p) /\ monitor.exists
         /\ proc[p].pc = "persist" /\ "persist" \notin FailsAt => PersistId(p)
<1> USE DEF At, GoTo, End
<1>1. proc \in [Processors -> ProcType] /\ proc[p] \in ProcType
  BY DEF TypeOK
<1>2. CASE SelectMonitor(p) \/ LoadContext(p)
  BY <1>1, <1>2 DEF SelectMonitor, LoadContext, ProcType
<1>3. CASE InsertExecution(p)
  BY <1>1, <1>3 DEF InsertExecution, ProcType
<1>4. CASE PersistId(p) \/ Claim(p) \/ AcquireLease(p) \/ StoreScreenshot(p) \/ FollowUp(p)
           \/ CountFailure(p) \/ Release(p)
  BY <1>1, <1>4 DEF PersistId, Claim, AcquireLease, StoreScreenshot, FollowUp, CountFailure, Release, ProcType
<1>5. CASE Crawl(p)
  BY <1>1, <1>5 DEF Crawl, ProcType
<1>6. CASE Commit(p)
  BY <1>1, <1>6 DEF Commit, ProcType
<1>7. CASE RecordFailure(p)
  BY <1>1, <1>7 DEF RecordFailure, ProcType
<1>8. CASE StepFails(p)
  BY <1>1, <1>8 DEF StepFails, BeforeTry, InTry, InCatch, ProcType
<1> QED
  BY <1>2, <1>3, <1>4, <1>5, <1>6, <1>7, <1>8 DEF Run

NoRows == \A e \in Executions : rows[e].status = "unused"

(* The row of a request is made before its job. *)
RequestInv ==
  /\ request.pc = "idle" => NoRows
  /\ request.pc = "publish" => request.exec # None
  /\ job.state # "absent" => job.exec # None
  /\ \A p \in Processors : proc[p].pc \notin Resolving

(* The row of a scheduled job is made by the one processor that holds it,   *)
(* which goes on to name it in the job.                                     *)
ScheduledInv ==
  /\ NameInv /\ OwnerInv
  /\ \A p \in Processors : /\ proc[p].pc \in Resolving => job.exec = None
                           /\ proc[p].pc = "persist" => proc[p].exec \in Executions
  /\ job.exec = None /\ (\A p \in Processors : proc[p].pc # "persist") => NoRows

OneInv == /\ TInv /\ OneExecutionPerJob
          /\ IF trigger = "scheduled" THEN ScheduledInv ELSE RequestInv

(* A job that no scheduler makes, or faults that leave a processor the time *)
(* to name the row it made.                                                 *)
NamingHolds ==
  "scheduled" \in Triggers => ~LockLoss /\ ~Crashes /\ "persist" \notin FailsAt

LEMMA SameRowsKeep == ASSUME SameRows, OneExecutionPerJob PROVE OneExecutionPerJob' /\ (NoRows => NoRows')
BY DEF SameRows, OneExecutionPerJob, NoRows

LEMMA FirstRow ==
  ASSUME TypeOK, NoRows, NEW e \in Executions, InsertRow(e) PROVE OneExecutionPerJob'
BY InsertedIs DEF NoRows, OneExecutionPerJob

LEMMA TriggerStays == ASSUME [Next]_vars PROVE trigger' = trigger
BY DEF Next, Api, Environment, vars, RequestExecution, Publish, PublishFails, Undo, RequestDies, SchedulerFires,
       SetActive, DeleteMonitor, ExpireExecution, StallCheck, Take, Finish, LoseLock, Crash,
       Run, SelectMonitor, InsertExecution, PersistId, LoadContext, Claim, AcquireLease, Crawl, StoreScreenshot,
       Commit, FollowUp, RecordFailure, CountFailure, Release, StepFails

(* A request goes forward. *)
LEMMA RequestMoves ==
  ASSUME TypeOK, [Next]_vars
  PROVE  \/ UNCHANGED request
         \/ RequestExecution
         \/ request'.pc \notin {"idle", "publish"}
<1>1. CASE Publish \/ PublishFails \/ Undo \/ RequestDies
  <2>1. request' = [request EXCEPT !.pc = "accepted"] \/ request' = [request EXCEPT !.pc = "undo"]
        \/ request' = [request EXCEPT !.pc = "rejected"] \/ request' = [request EXCEPT !.pc = "dead"]
    BY <1>1 DEF Publish, PublishFails, Undo, RequestDies
  <2> QED
    BY <2>1 DEF TypeOK
<1> QED
  BY <1>1
  DEF Next, Api, Environment, vars, SchedulerFires,
      SetActive, DeleteMonitor, ExpireExecution, StallCheck, Take, Finish, LoseLock, Crash,
      Run, SelectMonitor, InsertExecution, PersistId, LoadContext, Claim, AcquireLease, Crawl, StoreScreenshot,
      Commit, FollowUp, RecordFailure, CountFailure, Release, StepFails

LEMMA RequestedKeeps ==
  ASSUME OneInv, [Next]_vars, trigger # "scheduled" PROVE OneExecutionPerJob' /\ RequestInv'
<1>1. TInv /\ TypeOK /\ OneExecutionPerJob /\ RequestInv
  BY DEF OneInv, TInv
<1>2. ASSUME NEW p \in Processors PROVE proc'[p].pc \notin Resolving
  <2>1. CASE proc'[p] = proc[p]
    BY <1>1, <2>1 DEF RequestInv
  <2>2. CASE proc'[p] # proc[p]
    <3>1. PICK q \in Processors : Take(q) \/ Run(q) \/ Finish(q) \/ Crash(q)
      BY <2>2, SlotMoves
    <3>2. q = p
      BY <1>1, <2>2, <3>1, RunMoves, SlotIsCleared
    <3>3. CASE Run(p)
      BY <1>1, <3>3, Resolves DEF RequestInv, Resolving, InsertExecution, At
    <3>4. CASE Take(p)
      <4>1. job.state # "absent"
        BY <3>4 DEF Take
      <4>2. proc'[p].pc = "load"
        BY <1>1, <3>4, <4>1, SlotIsCleared DEF RequestInv
      <4> QED
        BY <4>2 DEF Resolving
    <3>5. CASE Finish(p) \/ Crash(p)
      <4>1. proc'[p].pc = "idle"
        BY <1>1, <3>5, SlotIsCleared DEF Finish, Crash, Take
      <4> QED
        BY <4>1 DEF Resolving
    <3> QED
      BY <3>1, <3>2, <3>3, <3>4, <3>5
  <2> QED
    BY <2>1, <2>2
<1>3. ~(\E p \in Processors : InsertExecution(p) \/ PersistId(p)) /\ ~SchedulerFires
  BY <1>1 DEF RequestInv, Resolving, InsertExecution, PersistId, At, SchedulerFires
<1>4. CASE RequestExecution
  <2>1. PICK e \in Executions : InsertRow(e) /\ request' = [pc |-> "publish", exec |-> e]
    BY <1>4 DEF RequestExecution
  <2>2. NoRows /\ UNCHANGED job
    BY <1>1, <1>4 DEF RequestExecution, RequestInv
  <2>3. request'.pc = "publish" /\ request'.exec # None
    BY <2>1, JobConstants DEF Executions, None
  <2>4. OneExecutionPerJob'
    BY <1>1, <2>1, <2>2, FirstRow
  <2> QED
    BY <1>1, <1>2, <2>2, <2>3, <2>4 DEF RequestInv
<1>5. CASE ~RequestExecution
  <2>1. SameRows
    BY <1>1, <1>3, <1>5, RowsAre
  <2>2. OneExecutionPerJob' /\ (NoRows => NoRows')
    BY <1>1, <2>1, SameRowsKeep
  <2>3. job'.state # "absent" => job'.exec # None
    <3>1. CASE request.pc = "publish" /\ AddJob(request.exec)
      <4>1. job'.exec = request.exec
        BY <1>1, <3>1 DEF AddJob, TypeOK, JobType
      <4> QED
        BY <1>1, <3>1, <4>1 DEF RequestInv
    <3> QED
      BY <1>1, <1>3, <3>1, JobMoves DEF RequestInv
  <2>4. (request'.pc = "idle" => NoRows') /\ (request'.pc = "publish" => request'.exec # None)
    BY <1>1, <1>5, <2>2, RequestMoves DEF RequestInv
  <2> QED
    BY <1>2, <2>2, <2>3, <2>4 DEF RequestInv
<1> QED
  BY <1>4, <1>5

LEMMA ScheduledKeeps ==
  ASSUME OneInv, [Next]_vars, TInv', trigger = "scheduled", ~LockLoss, ~Crashes, "persist" \notin FailsAt
  PROVE  OneExecutionPerJob' /\ ScheduledInv'
<1>1. TInv /\ TypeOK /\ OneExecutionPerJob /\ ScheduledInv /\ request.pc = "idle"
  BY DEF OneInv, TInv, JobInv
<1>2. ASSUME NEW p \in Processors, proc[p].pc # "idle", NEW q \in Processors, q # p PROVE proc[q].pc = "idle"
  BY <1>1, <1>2 DEF ScheduledInv, OwnerInv
<1>3. ASSUME job.state # "active", NEW p \in Processors PROVE proc[p].pc = "idle"
  BY <1>1, <1>3, JobConstants DEF ScheduledInv, OwnerInv, TInv, JobInv
<1>4. /\ ~RequestExecution /\ ~Publish /\ ~PublishFails /\ ~Undo /\ ~RequestDies
      /\ \A p \in Processors : ~LoseLock(p) /\ ~Crash(p)
  BY <1>1 DEF RequestExecution, Publish, PublishFails, Undo, RequestDies, LoseLock, Crash
(* Steps that make no row. *)
<1>5. ASSUME SameRows, NameInv', OwnerInv',
             \A p \in Processors : /\ proc'[p].pc \in Resolving => job'.exec = None
                                   /\ proc'[p].pc = "persist" => proc'[p].exec \in Executions,
             job'.exec = None /\ (\A p \in Processors : proc'[p].pc # "persist") =>
               job.exec = None /\ (\A p \in Processors : proc[p].pc # "persist")
      PROVE  OneExecutionPerJob' /\ ScheduledInv'
  <2>1. OneExecutionPerJob' /\ (NoRows => NoRows')
    BY <1>1, <1>5, SameRowsKeep
  <2>2. job'.exec = None /\ (\A p \in Processors : proc'[p].pc # "persist") => NoRows'
    <3>1. job.exec = None /\ (\A p \in Processors : proc[p].pc # "persist") => NoRows
      BY <1>1 DEF ScheduledInv
    <3> QED
      BY <1>5, <2>1, <3>1
  <2>3. ASSUME NEW p \in Processors
        PROVE  /\ proc'[p].pc \in Resolving => job'.exec = None
               /\ proc'[p].pc = "persist" => proc'[p].exec \in Executions
    BY <1>5
  <2> QED
    BY <1>5, <2>1, <2>2, <2>3 DEF ScheduledInv
<1>6. CASE UNCHANGED vars \/ SetActive \/ DeleteMonitor \/ ExpireExecution
  <2>1. UNCHANGED <<proc, job>>
    BY <1>6 DEF vars, SetActive, DeleteMonitor, ExpireExecution
  <2>r. ASSUME NEW p \in Processors, InsertExecution(p), monitor.exists PROVE FALSE
    <3>1. PICK e \in Executions : proc' = [proc EXCEPT ![p].pc = "persist", ![p].exec = e]
      BY <2>r DEF InsertExecution
    <3>2. proc'[p].pc = "persist" /\ proc[p].pc = "insert"
      BY <1>1, <2>r, <3>1 DEF InsertExecution, At, TypeOK, ProcType
    <3> QED
      BY <2>1, <3>2
  <2>2. SameRows
    BY <1>1, <1>4, <2>r, RowsAre
  <2> QED
    BY <1>1, <1>5, <2>1, <2>2 DEF ScheduledInv, NameInv, OwnerInv
<1>7. CASE SchedulerFires
  <2>1. /\ job.state = "absent" /\ job.exec = None /\ UNCHANGED <<proc, rows>> /\ job'.exec = None
        /\ \A p \in Processors : proc[p].pc = "idle"
    BY <1>1, <1>3, <1>7 DEF SchedulerFires, AddJob, ScheduledInv, NameInv, TypeOK, JobType
  <2>2. SameRows
    BY <2>1 DEF SameRows
  <2> QED
    BY <1>1, <1>5, <2>1, <2>2 DEF NameInv, OwnerInv, Resolving
<1>8. CASE StallCheck
  <2>1. /\ UNCHANGED <<proc, rows>> /\ job'.exec = job.exec /\ job'.state # "absent"
        /\ \A p \in Processors : proc[p].pc = "idle"
    BY <1>1, <1>8, JobConstants DEF StallCheck, TypeOK, JobType, ScheduledInv, OwnerInv
  <2>2. SameRows
    BY <2>1 DEF SameRows
  <2> QED
    BY <1>5, <2>1, <2>2 DEF NameInv, OwnerInv, Resolving
<1>9. ASSUME NEW p \in Processors, Take(p) PROVE OneExecutionPerJob' /\ ScheduledInv'
  <2>1. /\ UNCHANGED rows /\ job'.exec = job.exec /\ job'.state = "active" /\ job'.owner = p
        /\ \A q \in Processors : proc[q].pc = "idle"
    BY <1>1, <1>3, <1>9 DEF Take, TypeOK, JobType
  <2>2. /\ proc'[p].pc = IF job.exec = None THEN "select" ELSE "load"
        /\ \A q \in Processors : q # p => proc'[q] = proc[q]
    BY <1>1, <1>9, SlotIsCleared
  <2>3. SameRows
    BY <2>1 DEF SameRows
  <2> QED
    BY <1>5, <2>1, <2>2, <2>3 DEF NameInv, OwnerInv, Resolving
<1>10. ASSUME NEW p \in Processors, Finish(p) PROVE OneExecutionPerJob' /\ ScheduledInv'
  <2>1. UNCHANGED rows /\ proc[p].pc = "finish" /\ job.owner = p /\ job.state = "active" /\ proc'[p].pc = "idle"
    BY <1>1, <1>10, SlotIsCleared, JobConstants DEF Finish, Take, ScheduledInv, OwnerInv, TInv, JobInv
  <2>2. job'.exec = job.exec /\ job'.state # "absent"
    BY <1>1, <1>10, <2>1 DEF Finish, Disown, TypeOK, JobType
  <2>3. \A q \in Processors : proc'[q].pc = "idle" /\ proc[q].pc # "persist"
    BY <1>1, <1>2, <1>10, <2>1, SlotIsCleared
  <2>4. SameRows
    BY <2>1 DEF SameRows
  <2> QED
    BY <1>5, <2>2, <2>3, <2>4 DEF NameInv, OwnerInv, Resolving
<1>11. ASSUME NEW p \in Processors, Run(p) PROVE OneExecutionPerJob' /\ ScheduledInv'
  <2>1. /\ proc[p].pc \notin {"idle", "finish"} /\ job.owner = p /\ job.state = "active"
        /\ \A q \in Processors : q # p => proc'[q] = proc[q] /\ proc[q].pc = "idle"
    BY <1>1, <1>2, <1>11, RunMoves, JobConstants DEF ScheduledInv, OwnerInv, TInv, JobInv
  <2>2. CASE InsertExecution(p) /\ monitor.exists
    <3>1. PICK e \in Executions : InsertRow(e) /\ proc' = [proc EXCEPT ![p].pc = "persist", ![p].exec = e]
      BY <2>2 DEF InsertExecution
    <3>2. proc[p].pc = "insert" /\ UNCHANGED job /\ job.exec = None
      BY <1>1, <2>2 DEF InsertExecution, At, ScheduledInv, Resolving
    <3>3. NoRows
      BY <1>1, <2>1, <3>2 DEF ScheduledInv
    <3>4. proc'[p].pc = "persist" /\ proc'[p].exec = e
      BY <1>1, <3>1 DEF TypeOK, ProcType
    <3>5. OneExecutionPerJob'
      BY <1>1, <3>1, <3>3, FirstRow
    <3>6. NameInv' /\ OwnerInv'
      BY <1>1, <2>1, <3>2 DEF NameInv, OwnerInv
    <3> QED
      BY <2>1, <3>2, <3>4, <3>5, <3>6 DEF ScheduledInv, Resolving
  <2>3. CASE PersistId(p)
    <3>1. proc[p].exec \in Executions
      BY <1>1, <2>3 DEF PersistId, At, ScheduledInv
    <3>2. job'.exec = proc[p].exec /\ job'.state = job.state /\ job'.owner = job.owner /\ rows' = rows
      BY <1>1, <2>3 DEF PersistId, TypeOK, JobType
    <3>3. proc'[p].pc = "load"
      BY <1>1, <2>3 DEF PersistId, GoTo, TypeOK, ProcType
    <3>4. SameRows /\ job'.exec # None
      BY <3>1, <3>2, JobConstants DEF SameRows, Executions, None
    <3> QED
      BY <1>5, <2>1, <3>2, <3>3, <3>4 DEF NameInv, OwnerInv, Resolving
  <2>4. CASE ~(InsertExecution(p) /\ monitor.exists) /\ ~PersistId(p)
    <3>1. SameRows
      BY <1>1, <1>11, <2>4, RunRows
    <3>2. UNCHANGED job
      BY <1>11, <2>4
      DEF Run, SelectMonitor, InsertExecution, LoadContext, Claim, AcquireLease, Crawl, StoreScreenshot, Commit,
          FollowUp, RecordFailure, CountFailure, Release, StepFails
    <3>3. proc[p].pc # "persist" /\ proc'[p].pc # "persist"
          /\ (proc'[p].pc \in Resolving => proc[p].pc \in Resolving)
      BY <1>1, <1>11, <2>4, Resolves DEF Resolving
    <3>4. NameInv' /\ OwnerInv'
      BY <1>1, <2>1, <3>2 DEF NameInv, OwnerInv
    <3>5. \A q \in Processors : /\ proc'[q].pc \in Resolving => job'.exec = None
                                /\ proc'[q].pc # "persist" /\ proc[q].pc # "persist"
      BY <1>1, <2>1, <3>2, <3>3 DEF ScheduledInv, Resolving
    <3> QED
      BY <1>5, <3>1, <3>2, <3>4, <3>5
  <2> QED
    BY <2>2, <2>3, <2>4
<1> QED
  BY <1>4, <1>6, <1>7, <1>8, <1>9, <1>10, <1>11 DEF Next, Api, Environment

(* The queue never runs one job for two executions: not when the row is     *)
(* made by the request, and not when a retry finds a scheduled job that     *)
(* names no execution, unless the attempt died between the two steps.       *)
THEOREM JobHasOneExecution == ASSUME NamingHolds PROVE Spec => []OneExecutionPerJob
<1>1. Init => OneInv
  <2> SUFFICES ASSUME Init PROVE OneInv
    OBVIOUS
  <2>1. NoRows /\ job.state = "absent" /\ job.exec = None /\ \A p \in Processors : proc[p].pc = "idle"
    BY DEF Init, NoRows, Unused, Idle
  <2>2. OneExecutionPerJob
    BY <2>1 DEF NoRows, OneExecutionPerJob
  <2>3. RequestInv /\ ScheduledInv
    BY <2>1 DEF Init, RequestInv, ScheduledInv, NameInv, OwnerInv, Resolving
  <2> QED
    BY <2>2, <2>3, TInvInit DEF OneInv
<1>2. OneInv /\ [Next]_vars => OneInv'
  <2> SUFFICES ASSUME OneInv, [Next]_vars PROVE OneInv'
    OBVIOUS
  <2>1. TInv' /\ trigger' = trigger
    BY TInvStep, TriggerStays DEF OneInv
  <2>2. CASE trigger # "scheduled"
    BY <2>1, <2>2, RequestedKeeps DEF OneInv
  <2>3. CASE trigger = "scheduled"
    <3>1. "scheduled" \in Triggers
      BY <2>3 DEF OneInv, TInv, TypeOK
    <3> QED
      BY <2>1, <2>3, <3>1, ScheduledKeeps DEF OneInv, NamingHolds
  <2> QED
    BY <2>2, <2>3
<1>3. OneInv => OneExecutionPerJob
  BY DEF OneInv
<1> QED
  BY <1>1, <1>2, <1>3, PTL DEF Spec
-----------------------------------------------------------------------------
(* Nothing is taken from a live processor or dies, and no await rejects that *)
(* is outside the try block, but for those that make the execution and the   *)
(* count of the failure.                                                     *)
QuietFaults ==
  ~LockLoss /\ ~Crashes /\ FailsAt \cap {"load", "claim", "record", "release"} = {}

(* From the first look at the row to the last word on it. *)
AtWork == {"load", "claim", "record"} \cup InTry

(* A processor works on the execution that its job names. *)
SlotInv(p) ==
  /\ proc[p].pc \in Resolving => job.exec = None
  /\ proc[p].pc \in {"persist"} \cup AtWork => proc[p].exec \in Executions
  /\ proc[p].pc \in AtWork => proc[p].exec = job.exec
  /\ proc[p].pc \in Resolving \cup AtWork => proc[p].attempt = job.made + 1

TurnInv == TInv /\ NameInv /\ OwnerInv /\ \A p \in Processors : SlotInv(p)

(* Nothing has been tried yet, or only what is to be tried again. *)
Unstarted(e) == rows[e].status \in {"queued", "blocked", "deleted"}

(* The queue is about to draw the conclusion that the row shows, except that *)
(* it may try a blocked execution again when the count of it was rejected.   *)
Decided(p) ==
  \/ ~Exists(job.exec)
  \/ proc[p].ending = "completed" /\ rows[job.exec].status = "succeeded"
  \/ /\ proc[p].ending = "failed"
     /\ rows[job.exec].status \in {"blocked", IF job.made + 1 < MaxAttempts THEN "queued" ELSE "failed"}
  \/ proc[p].ending = "unrecoverable" /\ rows[job.exec].status = "blocked"

Trying == Resolving \cup {"load", "claim"} \cup InTry
Ended == {"release", "finish"}

VerdictStep(p) ==
  /\ proc[p].pc \in Trying => proc[p].ending = "completed" /\ ~proc[p].blocked
  /\ proc[p].pc \in {"persist", "load", "claim"} => Unstarted(proc[p].exec)
  /\ proc[p].pc = "followup" /\ Exists(job.exec) => rows[job.exec].status = "succeeded"
  /\ proc[p].pc \in {"count"} \cup Ended => Decided(p)
  /\ proc[p].pc = "count" => proc[p].ending # "completed"

(* The execution of a job that waits is one to be tried (again). *)
QueueInv ==
  /\ job.state = "active" => job.owner # NoOwner
  /\ request.pc = "publish" => request.exec \in Executions /\ Unstarted(request.exec)
  /\ job.exec # None => rows[job.exec].status # "unused"
  /\ job.state = "waiting" /\ job.exec # None => Unstarted(job.exec)

VInv == TurnInv /\ QueueInv /\ VerdictMatchesJob /\ \A p \in Processors : VerdictStep(p)

(* The attempt was the last one, and it failed. *)
Lost(p) == \/ proc[p].ending = "unrecoverable"
           \/ proc[p].ending = "failed" /\ job.made + 1 >= MaxAttempts

(* A failure is counted at the end of the last attempt, a success before it. *)
CountStep(p) ==
  /\ proc[p].pc \notin {"idle"} \cup Ended => monitor.failures = 0
  /\ proc[p].pc = "followup" /\ Exists(job.exec) => monitor.status \in {"paused", "healthy"}
  /\ proc[p].pc = "count" => Lost(p)
  /\ proc[p].pc \in Ended /\ ~Lost(p) => monitor.failures = 0
  /\ proc[p].pc \in Ended /\ Exists(job.exec) =>
       /\ Lost(p) => monitor.failures = 1 /\ monitor.status \in {"paused", "failing"}
       /\ proc[p].ending = "completed" => monitor.status \in {"paused", "healthy"}

CInv ==
  /\ Monitored /\ monitor.exists => /\ job.state \in {"absent", "waiting"} => monitor.failures = 0
                                    /\ \A p \in Processors : CountStep(p)
  /\ MonitorShowsVerdict

LEMMA NoneAtWork ==
  ASSUME TurnInv, job.state # "active", NEW p \in Processors
  PROVE  job.owner = NoOwner /\ proc[p].pc = "idle"
BY JobConstants DEF TurnInv, TInv, TypeOK, JobType, JobInv, OwnerInv

LEMMA IdleSlot == ASSUME NEW p \in Processors, proc[p].pc = "idle" PROVE SlotInv(p)
BY DEF SlotInv, Resolving, AtWork, InTry

LEMMA TurnInit == Init => TurnInv
<1> SUFFICES ASSUME Init PROVE TurnInv
  OBVIOUS
<1>1. \A p \in Processors : proc[p].pc = "idle"
  BY DEF Init, Idle
<1>2. NameInv /\ OwnerInv
  BY <1>1 DEF Init, NameInv, OwnerInv
<1> QED
  BY <1>1, <1>2, TInvInit, IdleSlot DEF TurnInv

(* The step of a processor keeps it at the execution of its job. *)
LEMMA SlotRuns ==
  ASSUME TInv, NEW p \in Processors, SlotInv(p), Run(p)
  PROVE  SlotInv(p)'
<1> DEFINE e == proc[p].exec
<1> USE DEF At, GoTo, End, SlotInv, Resolving, AtWork, InTry
<1>1. /\ TypeOK /\ proc \in [Processors -> ProcType] /\ proc[p] \in ProcType /\ job \in JobType
  BY DEF TInv, TypeOK
<1>2. CASE SelectMonitor(p) \/ LoadContext(p)
  BY <1>1, <1>2 DEF SelectMonitor, LoadContext, ProcType
<1>3. CASE InsertExecution(p)
  BY <1>1, <1>3 DEF InsertExecution, ProcType
<1>4. CASE PersistId(p)
  <2>1. job'.exec = e /\ job'.made = job.made /\ proc[p].pc = "persist"
    BY <1>1, <1>4 DEF PersistId, JobType
  <2>2. proc'[p].pc = "load" /\ proc'[p].exec = e /\ proc'[p].attempt = proc[p].attempt
    BY <1>1, <1>4 DEF PersistId, ProcType
  <2> QED
    BY <2>1, <2>2
<1>5. CASE Claim(p) \/ AcquireLease(p) \/ StoreScreenshot(p) \/ FollowUp(p) \/ CountFailure(p) \/ Release(p)
  BY <1>1, <1>5 DEF Claim, AcquireLease, StoreScreenshot, FollowUp, CountFailure, Release, ProcType
<1>6. CASE Crawl(p)
  BY <1>1, <1>6 DEF Crawl, ProcType
<1>7. CASE Commit(p)
  BY <1>1, <1>7 DEF Commit, ProcType
<1>8. CASE RecordFailure(p)
  BY <1>1, <1>8 DEF RecordFailure, ProcType
<1>9. CASE StepFails(p)
  BY <1>1, <1>9 DEF StepFails, BeforeTry, InCatch, ProcType
<1> QED
  BY <1>2, <1>3, <1>4, <1>5, <1>6, <1>7, <1>8, <1>9 DEF Run

LEMMA TurnKeeps == ASSUME ~LockLoss, TurnInv, [Next]_vars PROVE TurnInv'
<1>1. /\ TInv /\ TInv' /\ TypeOK /\ NameInv /\ OwnerInv /\ \A p \in Processors : SlotInv(p)
  BY TInvStep DEF TurnInv, TInv
<1>2. \A p \in Processors : proc[p].pc # "idle" => /\ job.owner = p /\ job.state = "active"
                                                   /\ \A q \in Processors : q # p => proc[q].pc = "idle"
  BY <1>1, JobConstants DEF OwnerInv, TInv, JobInv
(* After the step no slot is at work, or nothing moved. *)
<1>i. ASSUME NameInv', \A p \in Processors : proc'[p].pc = "idle" PROVE TurnInv'
  <2>1. \A p \in Processors : SlotInv(p)'
    BY <1>i DEF SlotInv, Resolving, AtWork, InTry
  <2> QED
    BY <1>1, <1>i, <2>1 DEF TurnInv, OwnerInv
<1>u. ASSUME UNCHANGED <<job, proc>> PROVE TurnInv'
  BY <1>1, <1>u DEF TurnInv, NameInv, OwnerInv, SlotInv
<1>3. CASE Publish \/ PublishFails \/ SchedulerFires
  <2>1. UNCHANGED proc /\ job.state = "absent"
    BY <1>1, <1>3 DEF Publish, PublishFails, SchedulerFires, TInv, JobInv
  <2>2. UNCHANGED job \/ job'.state = "waiting"
    BY <1>1, <1>3 DEF Publish, PublishFails, SchedulerFires, AddJob, TypeOK, JobType
  <2>3. \A p \in Processors : proc'[p].pc = "idle"
    BY <1>2, <2>1
  <2> QED
    BY <1>i, <1>u, <2>1, <2>2, <2>3 DEF NameInv
<1>4. CASE StallCheck
  <2>1. job'.state # "absent" /\ UNCHANGED proc /\ \A p \in Processors : proc[p].pc = "idle"
    BY <1>1, <1>4, JobConstants DEF StallCheck, TypeOK, JobType, OwnerInv
  <2> QED
    BY <1>i, <2>1 DEF NameInv
<1>5. ASSUME NEW p \in Processors, Take(p) PROVE TurnInv'
  <2>1. /\ job'.exec = job.exec /\ job'.made = job.made /\ job'.state = "active" /\ job'.owner = p
        /\ \A q \in Processors : proc[q].pc = "idle"
    BY <1>1, <1>2, <1>5 DEF Take, TypeOK, JobType
  <2>2. /\ proc'[p].exec = job.exec /\ proc'[p].attempt = job.made + 1
        /\ proc'[p].pc = IF job.exec = None THEN "select" ELSE "load"
    BY <1>1, <1>5 DEF Take, TypeOK, Idle
  <2>3. job.exec # None => job.exec \in Executions
    BY <1>1, JobConstants DEF TypeOK, JobType, Executions, None
  <2>4. SlotInv(p)'
    BY <2>1, <2>2, <2>3 DEF SlotInv, Resolving, AtWork, InTry
  <2>5. \A q \in Processors : q # p => proc'[q].pc = "idle"
    BY <1>1, <1>5, <2>1, SlotIsCleared
  <2>6. \A q \in Processors : SlotInv(q)'
    BY <2>4, <2>5 DEF SlotInv, Resolving, AtWork, InTry
  <2> QED
    BY <1>1, <2>1, <2>5, <2>6 DEF TurnInv, NameInv, OwnerInv
<1>6. ASSUME NEW p \in Processors, Finish(p) \/ Crash(p) PROVE TurnInv'
  <2>1. proc[p].pc # "idle"
    BY <1>6 DEF Finish, Crash
  <2>2. \A q \in Processors : proc'[q].pc = "idle"
    BY <1>1, <1>2, <1>6, <2>1, SlotIsCleared DEF Take
  <2>3. job.state = "active" /\ job.owner = p
    BY <1>2, <2>1
  <2>4. job'.state # "absent"
    BY <1>1, <1>6, <2>3 DEF Finish, Crash, Disown, TypeOK, JobType
  <2> QED
    BY <1>i, <2>2, <2>4 DEF NameInv
<1>7. ASSUME NEW p \in Processors, Run(p) PROVE TurnInv'
  <2>1. /\ proc[p].pc # "idle" /\ \A q \in Processors : q # p => proc'[q] = proc[q]
    BY <1>1, <1>7, RunMoves
  <2>2. job.owner = p /\ job.state = "active" /\ \A q \in Processors : q # p => proc'[q].pc = "idle"
    BY <1>2, <2>1
  <2>3. UNCHANGED job \/ PersistId(p)
    BY <1>7
    DEF Run, SelectMonitor, InsertExecution, LoadContext, Claim, AcquireLease, Crawl, StoreScreenshot, Commit,
        FollowUp, RecordFailure, CountFailure, Release, StepFails
  <2>4. job'.state = "active" /\ job'.owner = p
    BY <1>1, <2>2, <2>3 DEF PersistId, TypeOK, JobType
  <2>5. SlotInv(p)'
    BY <1>1, <1>7, SlotRuns
  <2>6. \A q \in Processors : SlotInv(q)'
    BY <2>2, <2>5 DEF SlotInv, Resolving, AtWork, InTry
  <2> QED
    BY <1>1, <2>2, <2>4, <2>6 DEF TurnInv, NameInv, OwnerInv
<1>8. ASSUME NEW p \in Processors, LoseLock(p) PROVE FALSE
  BY <1>8 DEF LoseLock
<1>9. CASE RequestExecution \/ Undo \/ RequestDies \/ SetActive \/ DeleteMonitor \/ ExpireExecution \/ UNCHANGED vars
  BY <1>9, <1>u DEF RequestExecution, Undo, RequestDies, SetActive, DeleteMonitor, ExpireExecution, vars
<1> QED
  BY <1>3, <1>4, <1>5, <1>6, <1>7, <1>8, <1>9 DEF Next, Api, Environment

LEMMA IdleVerdict == ASSUME NEW p \in Processors, proc[p].pc = "idle" PROVE VerdictStep(p) /\ CountStep(p)
BY DEF VerdictStep, CountStep, Trying, Ended, Resolving, InTry

(* Rows are only taken away: what is left shows what it showed. *)
LEMMA VerdictRemovals ==
  ASSUME VInv, TurnInv', UNCHANGED <<job, proc>>, request' = request \/ request'.pc # "publish",
         \A e \in Executions : rows'[e] = rows[e] \/ rows'[e].status = "deleted"
  PROVE  VInv' /\ (Exists(job.exec)' => Exists(job.exec) /\ rows'[job.exec] = rows[job.exec])
<1>1. \A e \in Executions : Unstarted(e) => Unstarted(e)'
  BY DEF Unstarted
<1>2. \A e : Exists(e)' => Exists(e) /\ rows'[e] = rows[e]
  BY DEF Exists, Absent
<1>3. job.exec # None => job.exec \in Executions
  BY JobConstants DEF VInv, TurnInv, TInv, TypeOK, JobType, Executions, None
<1>4. QueueInv'
  BY <1>1, <1>3 DEF VInv, QueueInv
<1>5. VerdictMatchesJob'
  BY <1>2 DEF VInv, VerdictMatchesJob
<1>6. ASSUME NEW p \in Processors PROVE VerdictStep(p)'
  <2>1. VerdictStep(p) /\ SlotInv(p)
    BY DEF VInv, TurnInv
  <2>2. proc[p].pc \in {"persist", "load", "claim"} => proc[p].exec \in Executions
    BY <2>1 DEF SlotInv, AtWork
  <2>3. Decided(p) => Decided(p)'
    BY <1>2 DEF Decided
  <2> QED
    BY <1>1, <1>2, <2>1, <2>2, <2>3 DEF VerdictStep
<1> QED
  BY <1>2, <1>4, <1>5, <1>6 DEF VInv
(* What a step of the processor leaves alone, and where it begins. *)
LEMMA RunFrame ==
  ASSUME VInv, NEW p \in Processors, Run(p)
  PROVE  /\ job.state = "active" /\ job.owner = p /\ request.pc # "publish"
         /\ job' = [job EXCEPT !.exec = job'.exec]
         /\ job'.exec = job.exec \/ PersistId(p)
         /\ UNCHANGED <<trigger, request>>
         /\ \A q \in Processors \ {p} : proc[q].pc = "idle" /\ proc'[q] = proc[q]
<1>1. TInv /\ TypeOK /\ OwnerInv
  BY DEF VInv, TurnInv, TInv
<1>2. proc[p].pc # "idle" /\ \A q \in Processors : q # p => proc'[q] = proc[q]
  BY <1>1, RunMoves
<1>3. job.owner = p /\ job.state = "active" /\ \A q \in Processors \ {p} : proc[q].pc = "idle"
  BY <1>1, <1>2, JobConstants DEF OwnerInv, TInv, JobInv
<1>4. UNCHANGED <<trigger, request>> /\ (UNCHANGED job \/ PersistId(p))
  BY DEF Run, SelectMonitor, InsertExecution, PersistId, LoadContext, Claim, AcquireLease, Crawl, StoreScreenshot,
         Commit, FollowUp, RecordFailure, CountFailure, Release, StepFails
<1>5. job' = [job EXCEPT !.exec = job'.exec] /\ (job'.exec = job.exec \/ PersistId(p))
  BY <1>1, <1>4 DEF PersistId, TypeOK, JobType
<1> QED
  BY <1>1, <1>2, <1>3, <1>4, <1>5 DEF TInv, JobInv

(* So only the verdict of the slot itself is left to show. *)
LEMMA RunVerdict ==
  ASSUME VInv, TurnInv', NEW p \in Processors, Run(p), VerdictStep(p)',
         job'.exec # None => rows'[job'.exec].status # "unused"
  PROVE  VInv'
<1>1. job'.state = "active" /\ job'.owner = p /\ request'.pc # "publish"
  BY RunFrame DEF VInv, TurnInv, TInv, TypeOK, JobType
<1>2. \A q \in Processors : VerdictStep(q)'
  BY RunFrame, IdleVerdict DEF VerdictStep, Trying, Ended, Resolving, InTry
<1> QED
  BY <1>1, <1>2, JobConstants DEF VInv, QueueInv, VerdictMatchesJob

LEMMA VerdictRuns ==
  ASSUME QuietFaults, VInv, TurnInv', NEW p \in Processors, Run(p)
  PROVE  VInv'
<1> DEFINE e == proc[p].exec
<1> USE DEF At, GoTo, End
<1>1. /\ TypeOK /\ proc \in [Processors -> ProcType] /\ proc[p] \in ProcType
      /\ rows \in [Executions -> RowType] /\ job \in JobType
      /\ SlotInv(p) /\ VerdictStep(p) /\ QueueInv /\ job.made \in Nat
  BY JobConstants DEF VInv, TurnInv, TInv, TypeOK, JobType
<1>2. ~Exists(None)
  BY JobConstants DEF Exists, Executions, None
<1>3. job.exec # None => job.exec \in Executions /\ rows[job.exec].status # "unused"
  BY <1>1, JobConstants DEF QueueInv, JobType, Executions, None
(* A step that writes no row only moves on. *)
<1>m. ASSUME UNCHANGED <<rows, job>>, VerdictStep(p)' PROVE VInv'
  BY <1>3, <1>m, RunVerdict
<1>4. CASE SelectMonitor(p)
  <2>1. VerdictStep(p)'
    BY <1>1, <1>2, <1>4
    DEF SelectMonitor, VerdictStep, SlotInv, Decided, Exists, Trying, Ended, Resolving, InTry, ProcType
  <2> QED
    BY <1>4, <1>m, <2>1 DEF SelectMonitor
<1>5. CASE InsertExecution(p)
  <2>1. /\ proc[p].pc = "insert" /\ UNCHANGED job /\ job.exec = None
        /\ proc[p].ending = "completed" /\ ~proc[p].blocked
    BY <1>1, <1>5 DEF InsertExecution, SlotInv, VerdictStep, Trying, Resolving
  <2>2. CASE ~monitor.exists
    <3>1. VerdictStep(p)'
      BY <1>1, <1>2, <1>5, <2>1, <2>2
      DEF InsertExecution, VerdictStep, Decided, Exists, Trying, Ended, Resolving, InTry, ProcType
    <3> QED
      BY <1>5, <1>m, <2>1, <2>2, <3>1 DEF InsertExecution
  <2>3. CASE monitor.exists
    <3>1. PICK d \in Executions : InsertRow(d) /\ proc' = [proc EXCEPT ![p].pc = "persist", ![p].exec = d]
      BY <1>5, <2>3 DEF InsertExecution
    <3>2. /\ proc'[p].pc = "persist" /\ proc'[p].exec = d
          /\ proc'[p].ending = proc[p].ending /\ proc'[p].blocked = proc[p].blocked
      BY <1>1, <3>1 DEF ProcType
    <3>3. rows'[d].status = "queued"
      BY <1>1, <3>1, InsertedIs
    <3>4. VerdictStep(p)'
      BY <2>1, <3>2, <3>3 DEF VerdictStep, Unstarted, Ended
    <3> QED
      BY <1>5, <2>1, <3>4, RunVerdict
  <2> QED
    BY <2>2, <2>3
<1>6. CASE PersistId(p)
  <2>1. /\ proc[p].pc = "persist" /\ UNCHANGED rows /\ job'.exec = e /\ Unstarted(e)
        /\ proc[p].ending = "completed" /\ ~proc[p].blocked
    BY <1>1, <1>6 DEF PersistId, VerdictStep, JobType, Trying, Resolving
  <2>2. /\ proc'[p].pc = "load" /\ proc'[p].exec = e
        /\ proc'[p].ending = proc[p].ending /\ proc'[p].blocked = proc[p].blocked
    BY <1>1, <1>6 DEF PersistId, ProcType
  <2>3. VerdictStep(p)'
    BY <2>1, <2>2 DEF VerdictStep, Unstarted, Ended
  <2>4. rows'[job'.exec].status # "unused"
    BY <2>1 DEF Unstarted
  <2> QED
    BY <2>3, <2>4, RunVerdict
<1>7. CASE LoadContext(p)
  <2>1. /\ proc[p].pc = "load" /\ e = job.exec /\ Unstarted(e)
        /\ proc[p].ending = "completed" /\ ~proc[p].blocked
    BY <1>1, <1>7 DEF LoadContext, SlotInv, AtWork, VerdictStep, Trying
  <2>2. VerdictStep(p)'
    BY <1>1, <1>7, <2>1
    DEF LoadContext, VerdictStep, Unstarted, Decided, Exists, Trying, Ended, Resolving, InTry, ProcType
  <2> QED
    BY <1>7, <1>m, <2>2 DEF LoadContext
(* A row the step writes is the one the job names. *)
<1>w. ASSUME NEW row, SetRow(job.exec, row), UNCHANGED job, VerdictStep(p)',
             Exists(job.exec) => row.status # "unused"
      PROVE  VInv'
  <2>1. SameRows
    BY <1>1, <1>w, SetRowIs
  <2> QED
    BY <1>3, <1>w, <2>1, RunVerdict DEF SameRows
<1>8. CASE Claim(p)
  <2> DEFINE row == [rows[e] EXCEPT !.status = "running", !.attempt = proc[p].attempt, !.error = FALSE]
  <2>1. /\ proc[p].pc = "claim" /\ e = job.exec /\ UNCHANGED job
        /\ proc[p].ending = "completed" /\ ~proc[p].blocked
    BY <1>1, <1>8 DEF Claim, SlotInv, AtWork, VerdictStep, Trying
  <2>2. proc'[p].pc = "lease" /\ proc'[p].ending = "completed" /\ ~proc'[p].blocked
    BY <1>1, <1>8, <2>1 DEF Claim, ProcType
  <2>3. VerdictStep(p)'
    BY <2>2 DEF VerdictStep, Ended
  <2>4. Exists(e) => row.status # "unused"
    BY <1>1 DEF Exists, RowType
  <2> HIDE DEF row
  <2>5. SetRow(e, row)
    BY <1>8 DEF Claim, row
  <2> QED
    BY <1>w, <2>1, <2>3, <2>4, <2>5
<1>9. CASE AcquireLease(p) \/ Crawl(p) \/ StoreScreenshot(p)
  <2>1. VerdictStep(p)'
    BY <1>1, <1>9 DEF AcquireLease, Crawl, StoreScreenshot, VerdictStep, Trying, Ended, InTry, ProcType
  <2> QED
    BY <1>9, <1>m, <2>1 DEF AcquireLease, Crawl, StoreScreenshot
<1>10. CASE Commit(p)
  <2> DEFINE row == [rows[e] EXCEPT !.status = "succeeded", !.change = Monitored]
  <2>1. /\ proc[p].pc = "commit" /\ e = job.exec /\ UNCHANGED job
        /\ proc[p].ending = "completed" /\ ~proc[p].blocked
    BY <1>1, <1>10 DEF Commit, SlotInv, AtWork, VerdictStep, Trying, InTry
  <2>2. CASE Monitored /\ ~Exists(e)
    <3>1. VerdictStep(p)' /\ UNCHANGED rows
      BY <1>1, <1>10, <2>2 DEF Commit, VerdictStep, Trying, Ended, Resolving, InTry, ProcType
    <3> QED
      BY <1>m, <2>1, <3>1
  <2>3. CASE ~(Monitored /\ ~Exists(e))
    <3>1. proc'[p].pc = "followup" /\ proc'[p].ending = "completed" /\ ~proc'[p].blocked
      BY <1>1, <1>10, <2>1, <2>3 DEF Commit, ProcType
    <3>2. Exists(e) => row.status = "succeeded"
      BY <1>1 DEF Exists, RowType
    <3> HIDE DEF row
    <3>3. SetRow(e, row)
      BY <1>10, <2>3 DEF Commit, row
    <3>4. Exists(job.exec)' => Exists(job.exec) /\ rows'[job.exec] = row
      BY <1>1, <2>1, <3>3 DEF SetRow, Exists
    <3>5. VerdictStep(p)'
      BY <2>1, <3>1, <3>2, <3>4 DEF VerdictStep, Ended
    <3> QED
      BY <1>w, <2>1, <3>2, <3>3, <3>5
  <2> QED
    BY <2>2, <2>3
<1>11. CASE FollowUp(p)
  <2>1. VerdictStep(p)'
    BY <1>1, <1>11 DEF FollowUp, VerdictStep, Decided, Exists, Trying, Ended, Resolving, InTry, ProcType
  <2> QED
    BY <1>11, <1>m, <2>1 DEF FollowUp
<1>12. CASE RecordFailure(p)
  <2> DEFINE row == [rows[e] EXCEPT !.error = TRUE,
               !.status = IF WillRetry(p) THEN "queued" ELSE IF proc[p].blocked THEN "blocked" ELSE "failed"]
  <2>1. /\ proc[p].pc = "record" /\ e = job.exec /\ UNCHANGED job
        /\ proc[p].attempt = job.made + 1
    BY <1>1, <1>12 DEF RecordFailure, SlotInv, AtWork
  <2>2. /\ proc'[p].pc \in {"count", "release"}
        /\ proc'[p].ending = IF proc[p].blocked THEN "unrecoverable" ELSE "failed"
    BY <1>1, <1>12 DEF RecordFailure, ProcType
  <2>3. Exists(e) => row.status = IF ~proc[p].blocked /\ job.made + 1 < MaxAttempts THEN "queued"
                                  ELSE IF proc[p].blocked THEN "blocked" ELSE "failed"
    BY <1>1, <2>1 DEF Exists, RowType, WillRetry
  <2> HIDE DEF row
  <2>4. SetRow(e, row)
    BY <1>12 DEF RecordFailure, row
  <2>5. Exists(job.exec)' => Exists(job.exec) /\ rows'[job.exec] = row
    BY <1>1, <2>1, <2>4 DEF SetRow, Exists
  <2>6. Decided(p)'
    BY <1>1, <2>1, <2>2, <2>3, <2>5 DEF Decided
  <2>7. VerdictStep(p)'
    BY <2>2, <2>6 DEF VerdictStep, Trying, Resolving, InTry
  <2> QED
    BY <1>w, <2>1, <2>3, <2>4, <2>7
<1>13. CASE CountFailure(p) \/ Release(p)
  <2>1. VerdictStep(p)'
    BY <1>1, <1>13
    DEF CountFailure, Release, VerdictStep, Decided, Exists, Trying, Ended, Resolving, InTry, ProcType
  <2> QED
    BY <1>13, <1>m, <2>1 DEF CountFailure, Release
<1>14. CASE StepFails(p)
  <2>1. proc[p].pc \in Resolving \cup InTry \cup {"count"} /\ UNCHANGED <<rows, job>>
    BY <1>1, <1>14 DEF StepFails, QuietFaults, Resolving, BeforeTry, InTry, InCatch
  <2>2. CASE proc[p].pc \in Resolving
    <3>1. proc'[p].pc = "finish" /\ job.exec = None
      BY <1>1, <1>14, <2>2 DEF StepFails, SlotInv, Resolving, BeforeTry, InTry, InCatch, ProcType
    <3>2. VerdictStep(p)'
      BY <1>2, <2>1, <3>1 DEF VerdictStep, Decided, Exists, Executions, Trying, Resolving, InTry, None
    <3> QED
      BY <1>m, <2>1, <3>2
  <2>3. CASE proc[p].pc \in InTry
    <3>1. proc'[p].pc = "record"
      BY <1>1, <1>14, <2>3 DEF StepFails, BeforeTry, InTry, InCatch, ProcType
    <3>2. VerdictStep(p)'
      BY <3>1 DEF VerdictStep, Trying, Ended, Resolving, InTry
    <3> QED
      BY <1>m, <2>1, <3>2
  <2>4. CASE proc[p].pc = "count"
    <3>1. proc'[p].pc = "release" /\ proc'[p].ending = "failed"
      BY <1>1, <1>14, <2>4 DEF StepFails, BeforeTry, InTry, InCatch, ProcType
    <3>2. Decided(p)'
      BY <1>1, <2>1, <2>4, <3>1 DEF VerdictStep, Decided, Exists
    <3>3. VerdictStep(p)'
      BY <3>1, <3>2 DEF VerdictStep, Trying, Resolving, InTry
    <3> QED
      BY <1>m, <2>1, <3>3
  <2> QED
    BY <2>1, <2>2, <2>3, <2>4
<1> QED
  BY <1>4, <1>5, <1>6, <1>7, <1>8, <1>9, <1>10, <1>11, <1>12, <1>13, <1>14 DEF Run
LEMMA VerdictInit == Init => VInv
<1> SUFFICES ASSUME Init PROVE VInv
  OBVIOUS
<1>1. \A p \in Processors : VerdictStep(p)
  BY IdleVerdict DEF Init, Idle
<1>2. QueueInv /\ VerdictMatchesJob
  BY DEF Init, QueueInv, VerdictMatchesJob
<1> QED
  BY <1>1, <1>2, TurnInit DEF VInv

(* A job that no slot runs: all its verdicts are those of the queue. *)
LEMMA VerdictUnrun ==
  ASSUME VInv, TurnInv', UNCHANGED proc, \A p \in Processors : proc[p].pc = "idle",
         QueueInv', VerdictMatchesJob'
  PROVE  VInv'
<1>1. \A p \in Processors : VerdictStep(p)'
  BY DEF VerdictStep, Trying, Ended, Resolving, InTry
<1> QED
  BY <1>1 DEF VInv

LEMMA VerdictPublish ==
  ASSUME VInv, TurnInv', AddJob(request.exec), request.pc = "publish", request'.pc # "publish",
         UNCHANGED <<rows, proc>>
  PROVE  VInv'
<1>1. job.state = "absent" /\ \A p \in Processors : proc[p].pc = "idle"
  BY NoneAtWork DEF VInv, TurnInv, TInv, JobInv
<1>2. Unstarted(request.exec) /\ job'.state = "waiting" /\ job'.exec = request.exec
  BY DEF VInv, TurnInv, TInv, TypeOK, JobType, QueueInv, AddJob
<1>3. QueueInv' /\ VerdictMatchesJob'
  BY <1>2 DEF QueueInv, VerdictMatchesJob, Unstarted
<1> QED
  BY <1>1, <1>3, VerdictUnrun

LEMMA VerdictFinish ==
  ASSUME VInv, TurnInv', NEW p \in Processors, Finish(p)
  PROVE  VInv'
<1>1. /\ TypeOK /\ job \in JobType /\ job.made \in Nat /\ proc[p] \in ProcType
      /\ proc[p].pc = "finish" /\ UNCHANGED <<rows, request>> /\ VerdictStep(p) /\ QueueInv
  BY DEF VInv, TurnInv, TInv, TypeOK, JobType, Finish
<1>2. job.owner = p /\ job.state = "active" /\ request.pc # "publish"
  BY <1>1, JobConstants DEF VInv, TurnInv, OwnerInv, TInv, JobInv
<1>3. \A q \in Processors : proc'[q].pc = "idle"
  <2>1. proc'[p].pc = "idle" /\ \A q \in Processors : q # p => proc'[q] = proc[q]
    BY <1>1, SlotIsCleared DEF Take
  <2>2. \A q \in Processors : q # p => proc[q].pc = "idle"
    BY <1>2 DEF VInv, TurnInv, OwnerInv
  <2> QED
    BY <2>1, <2>2
<1>4. job.exec # None => job.exec \in Executions /\ rows[job.exec].status # "unused"
  BY <1>1, JobConstants DEF QueueInv, JobType, Executions, None
<1>5. Decided(p)
  BY <1>1 DEF VerdictStep, Ended
<1>6. /\ job'.exec = job.exec
      /\ job'.state = CASE proc[p].ending = "completed" -> "completed"
                        [] proc[p].ending = "failed" /\ job.made + 1 < MaxAttempts -> "waiting"
                        [] OTHER -> "failed"
  BY <1>1, <1>2 DEF Finish, Disown, JobType
<1>7. VerdictMatchesJob'
  BY <1>1, <1>5, <1>6 DEF VerdictMatchesJob, Decided, Exists
<1>8. job'.state = "waiting" /\ job'.exec # None => Unstarted(job.exec)
  BY <1>1, <1>4, <1>5, <1>6 DEF Decided, Unstarted, Exists, Absent
<1>9. QueueInv'
  BY <1>1, <1>2, <1>4, <1>6, <1>8 DEF QueueInv, Unstarted
<1>10. \A q \in Processors : VerdictStep(q)'
  BY <1>3 DEF VerdictStep, Trying, Ended, Resolving, InTry
<1> QED
  BY <1>7, <1>9, <1>10 DEF VInv

LEMMA VerdictTake ==
  ASSUME VInv, TurnInv', NEW p \in Processors, Take(p)
  PROVE  VInv'
<1>1. /\ TypeOK /\ QueueInv /\ job.state = "waiting" /\ UNCHANGED <<rows, request>>
      /\ \A q \in Processors : proc[q].pc = "idle"
  BY NoneAtWork DEF VInv, TurnInv, TInv, Take
<1>2. job'.state = "active" /\ job'.owner = p /\ job'.exec = job.exec
  BY <1>1 DEF Take, TypeOK, JobType
<1>3. request.pc # "publish"
  BY <1>1 DEF VInv, TurnInv, TInv, JobInv
<1>4. QueueInv' /\ VerdictMatchesJob'
  BY <1>1, <1>2, <1>3, JobConstants DEF QueueInv, VerdictMatchesJob
<1>5. /\ proc'[p].blocked = FALSE /\ proc'[p].ending = "completed"
      /\ proc'[p].pc = IF job.exec = None THEN "select" ELSE "load"
      /\ \A q \in Processors : q # p => proc'[q].pc = "idle"
  BY <1>1, SlotIsCleared
<1>6. proc'[p].exec = job.exec
  BY <1>1 DEF Take, Idle, TypeOK
<1>7. VerdictStep(p)'
  BY <1>1, <1>5, <1>6 DEF VerdictStep, QueueInv, Unstarted, Ended
<1>8. \A q \in Processors : VerdictStep(q)'
  BY <1>5, <1>7 DEF VerdictStep, Trying, Ended, Resolving, InTry
<1> QED
  BY <1>4, <1>8 DEF VInv

LEMMA VerdictKeeps == ASSUME QuietFaults, VInv, [Next]_vars PROVE VInv'
<1>1. TurnInv' /\ TypeOK /\ rows \in [Executions -> RowType]
  BY TurnKeeps DEF QuietFaults, VInv, TurnInv, TInv, TypeOK
<1>2. CASE RequestExecution
  <2>1. PICK e \in Executions : InsertRow(e) /\ request' = [pc |-> "publish", exec |-> e]
    BY <1>2 DEF RequestExecution
  <2>2. job.state = "absent" /\ job.exec = None /\ UNCHANGED <<job, proc>>
    BY <1>2 DEF RequestExecution, VInv, TurnInv, TInv, JobInv, NameInv
  <2>3. \A p \in Processors : proc[p].pc = "idle"
    BY <2>2, NoneAtWork DEF VInv
  <2>4. QueueInv' /\ VerdictMatchesJob'
    BY <1>1, <2>1, <2>2, InsertedIs DEF QueueInv, VerdictMatchesJob, Unstarted
  <2> QED
    BY <1>1, <2>2, <2>3, <2>4, VerdictUnrun
<1>3. CASE Publish \/ (PublishFails /\ ~UNCHANGED job)
  <2>1. request'.pc # "publish"
    BY <1>1, <1>3 DEF Publish, PublishFails, TypeOK
  <2> QED
    BY <1>1, <1>3, <2>1, VerdictPublish DEF Publish, PublishFails
<1>4. CASE Undo \/ RequestDies \/ (PublishFails /\ UNCHANGED job)
  <2>1. request'.pc # "publish" /\ UNCHANGED <<job, proc>>
    BY <1>1, <1>4 DEF Undo, RequestDies, PublishFails, TypeOK
  <2>2. \A e \in Executions : rows'[e] = rows[e] \/ rows'[e].status = "deleted"
    BY <1>1, <1>4, RemovedIs DEF Undo, RequestDies, PublishFails, SetRow, Exists
  <2> QED
    BY <1>1, <2>1, <2>2, VerdictRemovals
<1>5. CASE SchedulerFires
  <2>1. /\ job.state = "absent" /\ UNCHANGED <<rows, request, proc>>
        /\ job'.state = "waiting" /\ job'.exec = None
    BY <1>1, <1>5 DEF SchedulerFires, AddJob, TypeOK, JobType
  <2>2. \A p \in Processors : proc[p].pc = "idle"
    BY <2>1, NoneAtWork DEF VInv
  <2>3. QueueInv' /\ VerdictMatchesJob'
    BY <2>1 DEF VInv, QueueInv, VerdictMatchesJob, Unstarted
  <2> QED
    BY <1>1, <2>1, <2>2, <2>3, VerdictUnrun
<1>6. CASE SetActive \/ DeleteMonitor \/ ExpireExecution \/ UNCHANGED vars
  <2>1. UNCHANGED <<request, job, proc>>
    BY <1>6 DEF SetActive, DeleteMonitor, ExpireExecution, vars
  <2>2. \A e \in Executions : rows'[e] = rows[e] \/ rows'[e].status = "deleted"
    BY <1>1, <1>6, RemovedIs DEF SetActive, DeleteMonitor, ExpireExecution, vars
  <2> QED
    BY <1>1, <2>1, <2>2, VerdictRemovals
<1>7. CASE StallCheck
  BY <1>7 DEF StallCheck, VInv, QueueInv
<1>8. ASSUME NEW p \in Processors, LoseLock(p) \/ Crash(p) PROVE FALSE
  BY <1>8 DEF LoseLock, Crash, QuietFaults
<1> QED
  BY <1>1, <1>2, <1>3, <1>4, <1>5, <1>6, <1>7, <1>8, VerdictTake, VerdictFinish, VerdictRuns
  DEF Next, Api, Environment

LEMMA VerdictHolds == ASSUME QuietFaults PROVE Spec => []VInv
BY VerdictInit, VerdictKeeps, PTL DEF Spec

(* Once the queue is done with a job, the row shows how it ended, however    *)
(* often the try block fails, also behind its commit, and even if the count  *)
(* of a failure is rejected: "succeeded" for a job that completed, "failed"  *)
(* or "blocked" for one that failed.                                         *)
THEOREM VerdictIsRecorded == ASSUME QuietFaults PROVE Spec => []VerdictMatchesJob
<1>1. VInv => VerdictMatchesJob
  BY DEF VInv
<1> QED
  BY <1>1, VerdictHolds, PTL
-----------------------------------------------------------------------------
(* A monitored execution is counted by the slot that ends it. *)
LEMMA CountRuns ==
  ASSUME QuietFaults, "count" \notin FailsAt, VInv, CInv, NEW p \in Processors, Run(p)
  PROVE  CInv'
<1> DEFINE e == proc[p].exec
<1> USE DEF At, GoTo, End
<1>1. /\ TypeOK /\ proc \in [Processors -> ProcType] /\ proc[p] \in ProcType /\ monitor \in MonitorType
      /\ rows \in [Executions -> RowType] /\ job \in JobType
      /\ SlotInv(p) /\ VerdictStep(p) /\ job.made \in Nat /\ UNCHANGED trigger
  BY RunFrame DEF VInv, TurnInv, TInv, TypeOK, JobType
<1>2. /\ job'.state = "active" /\ job'.made = job.made /\ (job'.exec = job.exec \/ PersistId(p))
      /\ \A q \in Processors : q # p => proc'[q].pc = "idle"
  BY <1>1, RunFrame DEF JobType
<1>3. monitor'.exists = monitor.exists
  BY <1>1 DEF Run, SelectMonitor, InsertExecution, PersistId, LoadContext, Claim, AcquireLease, Crawl,
     StoreScreenshot, Commit, FollowUp, RecordFailure, CountFailure, Release, StepFails, MonitorType
<1>4. SUFFICES ASSUME Monitored, monitor.exists PROVE CountStep(p)'
  <2>1. MonitorShowsVerdict'
    BY <1>2 DEF MonitorShowsVerdict
  <2>2. \A q \in Processors : q # p => CountStep(q)'
    BY <1>2 DEF CountStep, Ended
  <2>3. ASSUME Monitored', monitor'.exists
        PROVE  /\ job'.state \in {"absent", "waiting"} => monitor'.failures = 0
               /\ \A q \in Processors : CountStep(q)'
    <3>1. Monitored /\ monitor.exists
      BY <1>1, <1>3, <2>3 DEF Monitored
    <3> QED
      BY <1>2, <1>4, <2>2, <3>1
  <2> QED
    BY <2>1, <2>3 DEF CInv
<1>5. CountStep(p)
  BY <1>4 DEF CInv
<1>6. ~Exists(None)
  BY JobConstants DEF Exists, Executions, None
<1>7. CASE SelectMonitor(p)
  BY <1>1, <1>2, <1>5, <1>6, <1>7
  DEF SelectMonitor, CountStep, VerdictStep, SlotInv, Lost, Exists, Trying, Ended, Resolving, InTry, ProcType
<1>8. CASE InsertExecution(p)
  <2>1. PICK d \in Executions : proc' = [proc EXCEPT ![p].pc = "persist", ![p].exec = d]
    BY <1>4, <1>8 DEF InsertExecution
  <2>2. proc'[p].pc = "persist"
    BY <1>1, <2>1 DEF ProcType
  <2>3. monitor'.failures = 0
    BY <1>1, <1>5, <1>8 DEF InsertExecution, CountStep, Ended
  <2> QED
    BY <2>2, <2>3 DEF CountStep, Ended
<1>9. CASE PersistId(p) \/ Claim(p) \/ AcquireLease(p) \/ Crawl(p) \/ StoreScreenshot(p)
  <2>1. proc'[p].pc \in {"load", "lease", "crawl", "store", "commit", "record"}
    BY <1>1, <1>9 DEF PersistId, Claim, AcquireLease, Crawl, StoreScreenshot, ProcType
  <2>2. monitor'.failures = 0
    BY <1>1, <1>5, <1>9 DEF PersistId, Claim, AcquireLease, Crawl, StoreScreenshot, CountStep, Ended
  <2> QED
    BY <2>1, <2>2 DEF CountStep, Ended
<1>10. CASE LoadContext(p)
  <2>1. /\ proc[p].pc = "load" /\ e = job.exec /\ Unstarted(e) /\ UNCHANGED <<rows, job, monitor>>
        /\ monitor.failures = 0
    BY <1>1, <1>5, <1>10 DEF LoadContext, SlotInv, AtWork, VerdictStep, CountStep, Ended
  <2>2. \/ proc'[p].pc = "claim"
        \/ proc'[p].pc = "finish" /\ proc'[p].ending = "unrecoverable" /\ ~Exists(job.exec)
    BY <1>1, <1>10, <2>1 DEF LoadContext, Unstarted, ProcType
  <2> QED
    BY <2>1, <2>2 DEF CountStep, Lost, Exists, Ended
<1>11. CASE Commit(p)
  <2>1. /\ proc[p].pc = "commit" /\ e = job.exec /\ UNCHANGED job /\ monitor.failures = 0
    BY <1>1, <1>5, <1>11 DEF Commit, SlotInv, AtWork, InTry, CountStep, Ended
  <2>2. CASE ~Exists(e)
    <3>1. proc'[p].pc = "record" /\ UNCHANGED monitor
      BY <1>1, <1>4, <1>11, <2>2 DEF Commit, ProcType
    <3> QED
      BY <2>1, <3>1 DEF CountStep, Ended
  <2>3. CASE Exists(e)
    <3>1. monitor' = [monitor EXCEPT !.status = "healthy", !.failures = 0]
      BY <1>4, <1>11, <2>3 DEF Commit
    <3>2. monitor'.failures = 0 /\ monitor'.status = "healthy"
      BY <1>1, <3>1 DEF MonitorType
    <3>3. proc'[p].pc = "followup"
      BY <1>1, <1>11, <2>3 DEF Commit, ProcType
    <3> QED
      BY <3>2, <3>3 DEF CountStep, Ended
  <2> QED
    BY <2>2, <2>3
<1>12. CASE FollowUp(p)
  <2>1. /\ proc[p].pc = "followup" /\ UNCHANGED <<rows, job, monitor>> /\ proc[p].ending = "completed"
        /\ monitor.failures = 0 /\ (Exists(job.exec) => monitor.status \in {"paused", "healthy"})
    BY <1>1, <1>5, <1>12 DEF FollowUp, VerdictStep, CountStep, Trying, Ended, InTry
  <2>2. proc'[p].pc = "release" /\ proc'[p].ending = "completed"
    BY <1>1, <1>12, <2>1 DEF FollowUp, ProcType
  <2> QED
    BY <2>1, <2>2 DEF CountStep, Lost, Exists, Ended
<1>13. CASE RecordFailure(p)
  <2>1. /\ proc[p].pc = "record" /\ UNCHANGED <<job, monitor>> /\ monitor.failures = 0
        /\ proc[p].attempt = job.made + 1
    BY <1>1, <1>5, <1>13 DEF RecordFailure, SlotInv, AtWork, CountStep, Ended
  <2>2. /\ proc'[p].pc = IF WillRetry(p) THEN "release" ELSE "count"
        /\ proc'[p].ending = IF proc[p].blocked THEN "unrecoverable" ELSE "failed"
    BY <1>1, <1>4, <1>13 DEF RecordFailure, ProcType
  <2>3. Lost(p)' <=> ~WillRetry(p)
    BY <1>1, JobConstants, <2>1, <2>2 DEF Lost, WillRetry
  <2> QED
    BY <2>1, <2>2, <2>3 DEF CountStep, Ended
<1>14. CASE CountFailure(p)
  <2>1. /\ proc[p].pc = "count" /\ UNCHANGED <<rows, job>> /\ monitor.failures = 0 /\ Lost(p)
    BY <1>1, <1>5, <1>14 DEF CountFailure, CountStep, Ended
  <2>2. monitor'.failures = 1 /\ monitor'.status = "failing"
    BY <1>1, <1>4, <1>14, <2>1 DEF CountFailure, MonitorType
  <2>3. proc'[p].pc = "release" /\ proc'[p].ending = proc[p].ending
    BY <1>1, <1>14 DEF CountFailure, ProcType
  <2> QED
    BY <2>1, <2>2, <2>3 DEF CountStep, Lost, Ended
<1>15. CASE Release(p)
  <2>1. /\ proc[p].pc = "release" /\ UNCHANGED <<rows, job, monitor>>
    BY <1>15 DEF Release
  <2>2. proc'[p].pc = "finish" /\ proc'[p].ending = proc[p].ending
    BY <1>1, <1>15 DEF Release, ProcType
  <2> QED
    BY <1>5, <2>1, <2>2 DEF CountStep, Lost, Exists, Ended
<1>16. CASE StepFails(p)
  <2>1. /\ proc[p].pc \in Resolving \cup InTry
        /\ UNCHANGED <<rows, job, monitor>> /\ monitor.failures = 0
    BY <1>1, <1>5, <1>16 DEF StepFails, QuietFaults, CountStep, Ended, Resolving, BeforeTry, InTry, InCatch
  <2>2. CASE proc[p].pc \in Resolving
    <3>1. proc'[p].pc = "finish" /\ proc'[p].ending = "failed" /\ ~Exists(job.exec)
      BY <1>1, <1>6, <1>16, <2>2 DEF StepFails, SlotInv, Resolving, BeforeTry, InTry, InCatch, ProcType
    <3> QED
      BY <2>1, <3>1 DEF CountStep, Exists, Ended
  <2>3. CASE proc[p].pc \in InTry
    <3>1. proc'[p].pc = "record"
      BY <1>1, <1>16, <2>3 DEF StepFails, BeforeTry, InTry, InCatch, ProcType
    <3> QED
      BY <2>1, <3>1 DEF CountStep, Ended
  <2> QED
    BY <2>1, <2>2, <2>3
<1> QED
  BY <1>7, <1>8, <1>9, <1>10, <1>11, <1>12, <1>13, <1>14, <1>15, <1>16 DEF Run
(* No slot is at work, and nothing is counted yet. *)
LEMMA CountUnrun ==
  ASSUME \A p \in Processors : proc'[p].pc = "idle",
         Monitored' /\ monitor'.exists => monitor'.failures = 0,
         job'.state \notin {"completed", "failed"}
  PROVE  CInv'
<1>1. \A p \in Processors : CountStep(p)'
  BY DEF CountStep, Ended
<1> QED
  BY <1>1 DEF CInv, MonitorShowsVerdict

(* A change from outside pauses or deletes the monitor, or takes rows away. *)
LEMMA CountOutside ==
  ASSUME CInv, UNCHANGED <<trigger, job, proc>>, Exists(job.exec)' => Exists(job.exec),
         monitor'.exists => /\ monitor.exists /\ monitor'.failures = monitor.failures
                            /\ monitor'.status \in {monitor.status, "paused"}
  PROVE  CInv'
<1>1. Monitored' <=> Monitored
  BY DEF Monitored
<1>2. ASSUME NEW p \in Processors, monitor'.exists, CountStep(p) PROVE CountStep(p)'
  <2>1. Lost(p)' <=> Lost(p)
    BY DEF Lost
  <2> QED
    BY <1>2, <2>1 DEF CountStep, Ended
<1>3. MonitorShowsVerdict'
  BY <1>1 DEF CInv, MonitorShowsVerdict
<1> QED
  BY <1>1, <1>2, <1>3 DEF CInv

LEMMA CountFinish ==
  ASSUME VInv, CInv, NEW p \in Processors, Finish(p)
  PROVE  CInv'
<1>1. /\ TypeOK /\ job \in JobType /\ job.made \in Nat /\ proc[p] \in ProcType
      /\ proc[p].pc = "finish" /\ UNCHANGED <<trigger, rows, monitor>>
  BY DEF VInv, TurnInv, TInv, TypeOK, JobType, Finish
<1>2. job.owner = p /\ job.state = "active"
  BY <1>1, JobConstants DEF VInv, TurnInv, OwnerInv, TInv, JobInv
<1>3. \A q \in Processors : proc'[q].pc = "idle"
  <2>1. proc'[p].pc = "idle" /\ \A q \in Processors : q # p => proc'[q] = proc[q]
    BY <1>1, SlotIsCleared DEF Take
  <2>2. \A q \in Processors : q # p => proc[q].pc = "idle"
    BY <1>2 DEF VInv, TurnInv, OwnerInv
  <2> QED
    BY <2>1, <2>2
<1>4. /\ job'.exec = job.exec
      /\ job'.state = CASE proc[p].ending = "completed" -> "completed"
                        [] proc[p].ending = "failed" /\ job.made + 1 < MaxAttempts -> "waiting"
                        [] OTHER -> "failed"
  BY <1>1, <1>2 DEF Finish, Disown, JobType
<1>5. Lost(p) <=> job'.state = "failed"
  BY <1>1, <1>4, JobConstants DEF Lost, ProcType
<1>6. Monitored /\ monitor.exists => CountStep(p)
  BY DEF CInv
<1>7. \A q \in Processors : CountStep(q)'
  BY <1>3 DEF CountStep, Ended
<1>8. Monitored' /\ monitor'.exists /\ job'.state \in {"absent", "waiting"} => monitor'.failures = 0
  BY <1>1, <1>4, <1>5, <1>6 DEF Monitored, CountStep, Ended
<1>9. MonitorShowsVerdict'
  BY <1>1, <1>4, <1>5, <1>6 DEF Monitored, MonitorShowsVerdict, CountStep, Ended, Exists
<1> QED
  BY <1>7, <1>8, <1>9 DEF CInv

LEMMA CountKeeps == ASSUME QuietFaults, "count" \notin FailsAt, VInv, CInv, [Next]_vars PROVE CInv'
<1>1. /\ TypeOK /\ rows \in [Executions -> RowType] /\ job \in JobType /\ monitor \in MonitorType
      /\ trigger' = trigger
  BY TriggerStays DEF VInv, TurnInv, TInv, TypeOK
<1>2. \A s \in {"absent", "waiting"} : job.state = s =>
        /\ \A p \in Processors : proc[p].pc = "idle"
        /\ Monitored /\ monitor.exists => monitor.failures = 0
  BY NoneAtWork DEF VInv, CInv
<1>3. CASE RequestExecution \/ Publish \/ PublishFails \/ SchedulerFires
  <2>1. job.state = "absent" /\ UNCHANGED <<proc, monitor>>
    BY <1>3 DEF RequestExecution, Publish, PublishFails, SchedulerFires, VInv, TurnInv, TInv, JobInv
  <2>2. job'.state \in {"absent", "waiting"}
    BY <1>1, <1>3, <2>1 DEF RequestExecution, Publish, PublishFails, SchedulerFires, AddJob, JobType
  <2> QED
    BY <1>1, <1>2, <2>1, <2>2, CountUnrun DEF Monitored
<1>4. CASE Undo \/ RequestDies \/ ExpireExecution \/ UNCHANGED vars
  <2>1. UNCHANGED <<trigger, monitor, job, proc>>
    BY <1>4 DEF Undo, RequestDies, ExpireExecution, vars
  <2>2. \A e \in Executions : rows'[e] = rows[e] \/ rows'[e].status = "deleted"
    BY <1>1, <1>4, RemovedIs DEF Undo, RequestDies, ExpireExecution, vars, SetRow, Exists
  <2>3. Exists(job.exec)' => Exists(job.exec)
    BY <2>1, <2>2 DEF Exists, Absent
  <2> QED
    BY <2>1, <2>3, CountOutside
<1>5. CASE SetActive \/ DeleteMonitor
  <2>1. UNCHANGED <<trigger, job, proc>>
    BY <1>5 DEF SetActive, DeleteMonitor
  <2>2. monitor'.exists => /\ monitor.exists /\ monitor'.failures = monitor.failures
                           /\ monitor'.status \in {monitor.status, "paused"}
    BY <1>1, <1>5 DEF SetActive, DeleteMonitor, MonitorType
  <2>3. \A e \in Executions : rows'[e] = rows[e] \/ rows'[e].status = "deleted"
    BY <1>1, <1>5, RemovedIs DEF SetActive, DeleteMonitor
  <2>4. Exists(job.exec)' => Exists(job.exec)
    BY <2>1, <2>3 DEF Exists, Absent
  <2> QED
    BY <2>1, <2>2, <2>4, CountOutside
<1>6. CASE StallCheck
  BY <1>6 DEF StallCheck, VInv, QueueInv
<1>7. ASSUME NEW p \in Processors, LoseLock(p) \/ Crash(p) PROVE FALSE
  BY <1>7 DEF LoseLock, Crash, QuietFaults
<1>8. ASSUME NEW p \in Processors, Take(p) PROVE CInv'
  <2>1. job.state = "waiting" /\ UNCHANGED monitor /\ job'.state = "active"
    BY <1>1, <1>8 DEF Take, JobType
  <2>2. \A q \in Processors : q # p => proc'[q].pc = "idle"
    BY <1>1, <1>2, <1>8, <2>1, SlotIsCleared
  <2>3. proc'[p].pc \in {"select", "load"}
    BY <1>1, <1>8, SlotIsCleared
  <2>4. Monitored' /\ monitor'.exists => \A q \in Processors : CountStep(q)'
    BY <1>1, <1>2, <2>1, <2>2, <2>3 DEF CountStep, Ended, Monitored
  <2> QED
    BY <2>1, <2>4 DEF CInv, MonitorShowsVerdict
<1> QED
  BY <1>3, <1>4, <1>5, <1>6, <1>7, <1>8, CountFinish, CountRuns DEF Next, Api, Environment

(* ... and the monitor shows the same verdict, unless the user paused it in  *)
(* the meantime: a job that failed is counted once, however many attempts it *)
(* took, and a job that completed leaves no failure behind.                  *)
THEOREM VerdictIsCountedOnce == ASSUME QuietFaults, "count" \notin FailsAt PROVE Spec => []MonitorShowsVerdict
<1>1. Init => CInv
  <2> SUFFICES ASSUME Init PROVE CInv
    OBVIOUS
  <2>1. \A p \in Processors : CountStep(p)
    BY IdleVerdict DEF Init, Idle
  <2> QED
    BY <2>1 DEF Init, CInv, MonitorShowsVerdict
<1>2. CInv => MonitorShowsVerdict
  BY DEF CInv
<1> QED
  BY <1>1, <1>2, CountKeeps, VerdictHolds, PTL DEF Spec
-----------------------------------------------------------------------------
(* The queue is done with the job. *)
Settled == job.state \in {"completed", "failed"}
Unsettled == job.state \in {"waiting", "active"}

(* Only a live publication or the scheduler makes a job. *)
LEMMA MadeFromAbsent ==
  ASSUME TInv, Publish \/ PublishFails \/ SchedulerFires
  PROVE  job.state = "absent" /\ UNCHANGED proc
BY DEF Publish, PublishFails, SchedulerFires, TInv, JobInv

LEMMA TurnHolds == ASSUME ~LockLoss PROVE Spec => []TurnInv
<1>1. TurnInv /\ [Next]_vars => TurnInv'
  BY TurnKeeps
<1> QED
  BY <1>1, TurnInit, PTL DEF Spec

(* Unless a lock is lost, and whoever died: once the queue is done with a job *)
(* no processor acts for it.  What its execution and its monitor then show   *)
(* stays, but for what the owner and the retention of later jobs delete.     *)
THEOREM SettledIsFinal ==
  ASSUME ~LockLoss
  PROVE  Spec => [][Settled => /\ UNCHANGED <<job, proc>> /\ monitor'.failures = monitor.failures
                               /\ \A e \in Executions : rows'[e] = rows[e] \/ rows'[e].status = "deleted"]_vars
<1>1. ASSUME TurnInv, [Next]_vars, Settled
      PROVE  /\ UNCHANGED <<job, proc>> /\ monitor'.failures = monitor.failures
             /\ \A e \in Executions : rows'[e] = rows[e] \/ rows'[e].status = "deleted"
  <2>1. /\ TInv /\ TypeOK /\ job.state \notin {"absent", "waiting", "active"}
        /\ \A p \in Processors : proc[p].pc = "idle"
    BY <1>1, NoneAtWork DEF TurnInv, TInv, Settled
  <2>2. \A p \in Processors : ~Take(p) /\ ~Run(p) /\ ~Finish(p) /\ ~Crash(p)
    BY <2>1, RunMoves DEF Take, Finish, Crash
  <2>3. \A p \in Processors : ~LoseLock(p)
    BY DEF LoseLock
  <2>4. ~Publish /\ ~PublishFails /\ ~SchedulerFires /\ ~StallCheck
    BY <2>1, MadeFromAbsent DEF StallCheck
  <2>5. ~RequestExecution
    BY <2>1 DEF RequestExecution, TInv, JobInv
  <2>6. CASE Undo \/ DeleteMonitor \/ ExpireExecution
    <3>1. UNCHANGED <<job, proc>> /\ monitor'.failures = monitor.failures
      BY <2>1, <2>6 DEF Undo, DeleteMonitor, ExpireExecution, TypeOK, MonitorType
    <3>2. \A e \in Executions : rows'[e] = rows[e] \/ rows'[e] = Removed(rows[e])
      BY <2>1, <2>6 DEF Undo, DeleteMonitor, ExpireExecution, SetRow, TypeOK
    <3> QED
      BY <2>1, <3>1, <3>2, RemovedIs DEF TypeOK
  <2>7. CASE RequestDies \/ SetActive \/ UNCHANGED vars
    BY <2>1, <2>7 DEF RequestDies, SetActive, vars, TypeOK, MonitorType
  <2> QED
    BY <1>1, <2>2, <2>3, <2>4, <2>5, <2>6, <2>7 DEF Next, Api, Environment
<1> QED
  BY <1>1, TurnHolds, PTL DEF Spec

-----------------------------------------------------------------------------
(* The tries that are left, and in a try the steps that are left. *)
TriesLeft == (MaxAttempts - job.made) + (MaxStalled - job.stalled)

StepsLeft(step) ==
  CASE step = "select" -> 14 [] step = "insert" -> 13 [] step = "persist" -> 12 [] step = "load" -> 11
    [] step = "claim" -> 10 [] step = "lease" -> 9 [] step = "crawl" -> 8 [] step = "store" -> 7
    [] step = "commit" -> 6 [] step = "followup" -> 5 [] step = "record" -> 4 [] step = "count" -> 3
    [] step = "release" -> 2 [] step = "finish" -> 1 [] OTHER -> 0

Variant == 16 * TriesLeft + IF job.state = "waiting" THEN 15
                            ELSE IF job.owner = NoOwner THEN 0 ELSE StepsLeft(proc[job.owner].pc)

LEMMA StepsLeftRange == ASSUME NEW step PROVE StepsLeft(step) \in 0..14
BY DEF StepsLeft

LEMMA VariantRange ==
  ASSUME TInv, Unsettled PROVE Variant \in 0..(16 * (MaxAttempts + MaxStalled) + 15)
<1>1. TriesLeft \in 0..(MaxAttempts + MaxStalled)
  BY JobConstants DEF TInv, TypeOK, JobType, JobInv, Unsettled, TriesLeft
<1>2. Variant - 16 * TriesLeft \in 0..15
  BY <1>1, StepsLeftRange DEF Variant
<1> QED
  BY <1>1, <1>2, StepsLeftRange, JobConstants DEF Variant

(* The program counter of a processor only moves on. *)
LEMMA RunsForward ==
  ASSUME TypeOK, NEW p \in Processors, Run(p)
  PROVE  /\ StepsLeft(proc'[p].pc) < StepsLeft(proc[p].pc)
         /\ job'.state = job.state /\ job'.owner = job.owner
         /\ job'.made = job.made /\ job'.stalled = job.stalled
<1> USE DEF At, GoTo, End, StepsLeft
<1>1. proc \in [Processors -> ProcType] /\ proc[p] \in ProcType /\ job \in JobType
  BY DEF TypeOK
<1>2. CASE SelectMonitor(p) \/ LoadContext(p)
  BY <1>1, <1>2 DEF SelectMonitor, LoadContext, ProcType
<1>3. CASE InsertExecution(p)
  BY <1>1, <1>3 DEF InsertExecution, ProcType
<1>4. CASE PersistId(p) \/ Claim(p) \/ AcquireLease(p) \/ StoreScreenshot(p) \/ FollowUp(p)
           \/ CountFailure(p) \/ Release(p)
  BY <1>1, <1>4
  DEF PersistId, Claim, AcquireLease, StoreScreenshot, FollowUp, CountFailure, Release, ProcType, JobType
<1>5. CASE Crawl(p)
  BY <1>1, <1>5 DEF Crawl, ProcType
<1>6. CASE Commit(p)
  BY <1>1, <1>6 DEF Commit, ProcType
<1>7. CASE RecordFailure(p)
  BY <1>1, <1>7 DEF RecordFailure, ProcType
<1>8. CASE StepFails(p)
  BY <1>1, <1>8 DEF StepFails, BeforeTry, InTry, InCatch, ProcType
<1> QED
  BY <1>2, <1>3, <1>4, <1>5, <1>6, <1>7, <1>8 DEF Run

LEMMA VariantDrops ==
  ASSUME ~LockLoss, TurnInv, [Next]_vars, Unsettled, Unsettled'
  PROVE  UNCHANGED <<job, proc>> \/ Variant' < Variant
<1>1. /\ TInv /\ TypeOK /\ job \in JobType /\ job'.state # "completed" /\ job'.state # "failed"
      /\ \A p \in Processors : proc[p].pc # "idle" => job.owner = p /\ job.state = "active"
  BY JobConstants DEF TurnInv, TInv, TypeOK, JobInv, OwnerInv, Unsettled
<1>2. TriesLeft \in Nat /\ TriesLeft' \in Nat
  <2>1. TInv'
    BY TInvStep, <1>1
  <2> QED
    BY <1>1, <2>1, JobConstants DEF TInv, TypeOK, JobType, JobInv, Unsettled, TriesLeft
<1>3. ASSUME NEW p \in Processors, Take(p) PROVE Variant' < Variant
  <2>1. job.state = "waiting" /\ job'.state = "active" /\ job'.owner = p /\ TriesLeft' = TriesLeft
    BY <1>1, <1>3 DEF Take, JobType, TriesLeft
  <2> QED
    BY <1>2, <2>1, StepsLeftRange, JobConstants DEF Variant
<1>4. ASSUME NEW p \in Processors, Run(p) PROVE Variant' < Variant
  <2>1. job.owner = p /\ job.state = "active"
    BY <1>1, <1>4, RunMoves
  <2>2. StepsLeft(proc'[p].pc) < StepsLeft(proc[p].pc) /\ TriesLeft' = TriesLeft
        /\ job'.owner = p /\ job'.state = "active"
    BY <1>1, <1>4, <2>1, RunsForward DEF TriesLeft
  <2> QED
    BY <1>2, <2>1, <2>2, StepsLeftRange, JobConstants DEF Variant
<1>5. ASSUME NEW p \in Processors, Finish(p) PROVE Variant' < Variant
  <2>1. job.owner = p /\ job.state = "active" /\ proc[p].pc = "finish"
    BY <1>1, <1>5 DEF Finish
  <2>2. job'.state = "waiting" /\ job'.made = job.made + 1 /\ job'.stalled = job.stalled
    BY <1>1, <1>5, <2>1 DEF Finish, Disown, JobType
  <2>3. TriesLeft' = TriesLeft - 1
    BY <1>1, <2>2, JobConstants DEF TriesLeft, JobType
  <2> QED
    BY <1>2, <2>1, <2>2, <2>3, StepsLeftRange, JobConstants DEF Variant, StepsLeft
<1>6. ASSUME NEW p \in Processors, Crash(p) PROVE Variant' < Variant
  <2>1. job.owner = p /\ job.state = "active" /\ proc[p].pc # "idle" /\ proc[p] \in ProcType
    BY <1>1, <1>6 DEF Crash, TypeOK
  <2>2. StepsLeft(proc[p].pc) > 0
    BY <2>1 DEF StepsLeft, ProcType, Steps, BeforeTry, InTry, InCatch
  <2>3. job'.owner = NoOwner /\ job'.state = "active" /\ TriesLeft' = TriesLeft
    BY <1>1, <1>6, <2>1 DEF Crash, Disown, JobType, TriesLeft
  <2> QED
    BY <1>2, <2>1, <2>2, <2>3, StepsLeftRange, JobConstants DEF Variant
<1>7. CASE StallCheck
  <2>1. job.state = "active" /\ job.owner = NoOwner /\ job'.state = "waiting"
        /\ job'.made = job.made /\ job'.stalled = job.stalled + 1
    BY <1>1, <1>7 DEF StallCheck, JobType
  <2>2. TriesLeft' = TriesLeft - 1
    BY <1>1, <2>1, JobConstants DEF TriesLeft, JobType
  <2> QED
    BY <1>2, <2>1, <2>2 DEF Variant
<1>8. ~Publish /\ ~PublishFails /\ ~SchedulerFires /\ \A p \in Processors : ~LoseLock(p)
  BY <1>1, MadeFromAbsent DEF Unsettled, LoseLock
<1>9. CASE RequestExecution \/ Undo \/ RequestDies \/ SetActive \/ DeleteMonitor \/ ExpireExecution \/ UNCHANGED vars
  BY <1>9 DEF RequestExecution, Undo, RequestDies, SetActive, DeleteMonitor, ExpireExecution, vars
<1> QED
  BY <1>3, <1>4, <1>5, <1>6, <1>7, <1>8, <1>9 DEF Next, Api, Environment

(* Unless a lock is lost, the queue and the processors spend at most so many *)
(* steps on a job, however they fail and die: each step that leaves the job  *)
(* unsettled lowers a natural number.  It is the bound on retries behind     *)
(* JobSettles, whose other half, that a step is taken, rests on fairness.    *)
THEOREM StepsAreBounded ==
  ASSUME ~LockLoss
  PROVE  Spec => /\ [](Unsettled => Variant \in 0..(16 * (MaxAttempts + MaxStalled) + 15))
                 /\ [][Unsettled /\ Unsettled' => UNCHANGED <<job, proc>> \/ Variant' < Variant]_vars
<1>1. TurnInv => (Unsettled => Variant \in 0..(16 * (MaxAttempts + MaxStalled) + 15))
  BY VariantRange DEF TurnInv
<1>2. TurnInv /\ [Next]_vars
        => [Unsettled /\ Unsettled' => UNCHANGED <<job, proc>> \/ Variant' < Variant]_vars
  BY VariantDrops
<1> QED
  BY <1>1, <1>2, TurnHolds, PTL DEF Spec
-----------------------------------------------------------------------------
(* The turns the queue has left to give to a processor. *)
TurnsLeft == 2 * TriesLeft + IF job.state = "waiting" THEN 1 ELSE 0

LEMMA TurnsRange ==
  ASSUME TInv, Unsettled
  PROVE  TriesLeft \in 0..(MaxAttempts + MaxStalled) /\ TurnsLeft \in 0..(2 * (MaxAttempts + MaxStalled) + 1)
<1>1. TriesLeft \in 0..(MaxAttempts + MaxStalled)
  BY JobConstants DEF TInv, TypeOK, JobType, JobInv, Unsettled, TriesLeft
<1> QED
  BY <1>1, JobConstants DEF TurnsLeft

(* A slot at work only goes on, or is given a turn. *)
LEMMA SlotGoesOn ==
  ASSUME TypeOK, [Next]_vars, NEW p \in Processors
  PROVE  Take(p) \/ proc'[p] = proc[p] \/ StepsLeft(proc'[p].pc) < StepsLeft(proc[p].pc)
<1>1. ASSUME NEW q \in Processors, Take(q) \/ Finish(q) \/ Crash(q)
      PROVE  Take(p) \/ proc'[p] = proc[p] \/ StepsLeft(proc'[p].pc) < StepsLeft(proc[p].pc)
  <2>1. CASE q # p
    BY <1>1, <2>1, SlotIsCleared
  <2>2. CASE q = p /\ ~Take(p)
    <3>1. proc'[p].pc = "idle" /\ proc[p].pc # "idle" /\ proc[p] \in ProcType
      BY <1>1, <2>2, SlotIsCleared DEF Finish, Crash, TypeOK
    <3> QED
      BY <3>1 DEF StepsLeft, ProcType, Steps, BeforeTry, InTry, InCatch
  <2> QED
    BY <1>1, <2>1, <2>2
<1>2. ASSUME NEW q \in Processors, Run(q)
      PROVE  proc'[p] = proc[p] \/ StepsLeft(proc'[p].pc) < StepsLeft(proc[p].pc)
  BY <1>2, RunMoves, RunsForward
<1> QED
  BY <1>1, <1>2, SlotMoves

LEMMA TurnsDrop ==
  ASSUME TInv, TInv', [Next]_vars, Unsettled, Unsettled'
  PROVE  TurnsLeft' <= TurnsLeft /\ \A p \in Processors : Take(p) => TurnsLeft' < TurnsLeft
<1>1. TriesLeft \in Nat /\ TriesLeft' \in Nat
  <2>1. TriesLeft \in 0..(MaxAttempts + MaxStalled) /\ TriesLeft' \in 0..(MaxAttempts + MaxStalled)
    BY TurnsRange, JobConstants DEF TInv, TypeOK, JobType, JobInv, Unsettled, TriesLeft
  <2> QED
    BY <2>1, JobConstants
<1>2. job \in JobType /\ TypeOK /\ MaxAttempts \in Nat /\ MaxStalled \in Nat
  BY JobConstants DEF TInv, TypeOK
<1>3. ASSUME NEW p \in Processors, Take(p) PROVE TurnsLeft' < TurnsLeft
  <2>1. job.state = "waiting" /\ job'.state = "active" /\ TriesLeft' = TriesLeft
    BY <1>2, <1>3 DEF Take, JobType, TriesLeft
  <2> QED
    BY <1>1, <2>1 DEF TurnsLeft
<1>4. ASSUME job'.state = job.state /\ job'.made = job.made /\ job'.stalled = job.stalled
      PROVE  TurnsLeft' = TurnsLeft
  BY <1>4 DEF TurnsLeft, TriesLeft
<1>5. ASSUME NEW p \in Processors, Run(p) PROVE TurnsLeft' = TurnsLeft
  BY <1>2, <1>4, <1>5, RunsForward
<1>6. ASSUME NEW p \in Processors, LoseLock(p) \/ Crash(p) PROVE TurnsLeft' = TurnsLeft
  BY <1>2, <1>4, <1>6 DEF LoseLock, Crash, Disown, JobType
<1>7. ASSUME NEW p \in Processors, Finish(p) PROVE TurnsLeft' <= TurnsLeft
  <2>1. CASE job.owner # p
    BY <1>1, <1>4, <1>7, <2>1 DEF Finish, TurnsLeft
  <2>2. CASE job.owner = p
    <3>1. job'.made = job.made + 1 /\ job'.stalled = job.stalled
      BY <1>2, <1>7, <2>2 DEF Finish, Disown, JobType, Unsettled
    <3>2. TriesLeft' = TriesLeft - 1
      BY <1>2, <3>1 DEF TriesLeft, JobType
    <3> QED
      BY <1>1, <3>2 DEF TurnsLeft
  <2> QED
    BY <2>1, <2>2
<1>8. ASSUME StallCheck PROVE TurnsLeft' <= TurnsLeft
  <2>1. job'.made = job.made /\ job'.stalled = job.stalled + 1
    BY <1>2, <1>8 DEF StallCheck, JobType
  <2>2. TriesLeft' = TriesLeft - 1
    BY <1>2, <2>1 DEF TriesLeft, JobType
  <2> QED
    BY <1>1, <2>2 DEF TurnsLeft
<1>9. ~Publish /\ ~PublishFails /\ ~SchedulerFires
  BY MadeFromAbsent DEF Unsettled
<1>10. ASSUME job' = job PROVE TurnsLeft' = TurnsLeft
  BY <1>4, <1>10
<1>11. TurnsLeft \in Nat /\ TurnsLeft' \in Nat
  <2>1. 2 * TriesLeft \in Nat /\ 2 * TriesLeft' \in Nat
    <3>1. \A n \in Nat : 2 * n \in Nat
      OBVIOUS
    <3> QED
      BY <1>1, <3>1
  <2>2. /\ TurnsLeft = 2 * TriesLeft \/ TurnsLeft = 2 * TriesLeft + 1
        /\ TurnsLeft' = 2 * TriesLeft' \/ TurnsLeft' = 2 * TriesLeft' + 1
    BY <2>1 DEF TurnsLeft
  <2> QED
    BY <2>1, <2>2
<1>12. TurnsLeft' <= TurnsLeft
  BY <1>3, <1>5, <1>6, <1>7, <1>8, <1>9, <1>10, <1>11
  DEF Next, Api, Environment, vars, RequestExecution, Undo, RequestDies, SetActive, DeleteMonitor, ExpireExecution
<1> QED
  BY <1>3, <1>12

(* Under every fault, also when lost locks let two processors work on one   *)
(* job: each slot at work only moves forward, in at most as many steps as   *)
(* the processor has awaits, and the queue gives boundedly many turns, an   *)
(* attempt or a stall behind it for every two.  This bounds the steps that  *)
(* JobSettles speaks of where StepsAreBounded does not apply.               *)
THEOREM TurnsAreBounded ==
  Spec => /\ [](Unsettled => TurnsLeft \in 0..(2 * (MaxAttempts + MaxStalled) + 1))
          /\ [][\A p \in Processors :
                  Take(p) \/ proc'[p] = proc[p] \/ StepsLeft(proc'[p].pc) < StepsLeft(proc[p].pc)]_vars
          /\ [][Unsettled /\ Unsettled' => /\ TurnsLeft' <= TurnsLeft
                                           /\ \A p \in Processors : Take(p) => TurnsLeft' < TurnsLeft]_vars
<1>1. TInv => (Unsettled => TurnsLeft \in 0..(2 * (MaxAttempts + MaxStalled) + 1))
  BY TurnsRange
<1>2. TInv /\ [Next]_vars
        => [\A p \in Processors :
              Take(p) \/ proc'[p] = proc[p] \/ StepsLeft(proc'[p].pc) < StepsLeft(proc[p].pc)]_vars
  BY SlotGoesOn DEF TInv
<1>3. TInv /\ TInv' /\ [Next]_vars
        => [Unsettled /\ Unsettled' => /\ TurnsLeft' <= TurnsLeft
                                       /\ \A p \in Processors : Take(p) => TurnsLeft' < TurnsLeft]_vars
  BY TurnsDrop
<1>4. Spec => []TInv
  BY TInvInit, TInvStep, PTL DEF Spec
<1> QED
  BY <1>1, <1>2, <1>3, <1>4, PTL DEF Spec
-----------------------------------------------------------------------------
(* A verdict is written together with its code, and lost together with it. *)
Coded == \A e \in Executions : rows[e].status \in {"failed", "blocked"} => rows[e].error

LEMMA CodedSetRow ==
  ASSUME TypeOK, Coded, NEW e, NEW row, SetRow(e, row),
         Exists(e) => (row.status \in {"failed", "blocked"} => row.error)
  PROVE  Coded'
BY DEF TypeOK, Coded, SetRow, Exists

LEMMA CodedRuns == ASSUME TypeOK, Coded, NEW p \in Processors, Run(p) PROVE Coded'
<1> DEFINE e == proc[p].exec
<1>1. rows \in [Executions -> RowType] /\ (Exists(e) => rows[e] \in RowType)
  BY DEF TypeOK, Exists
<1>2. CASE UNCHANGED rows
  BY <1>2 DEF Coded
<1>3. CASE InsertExecution(p)
  <2>1. CASE monitor.exists
    <3>1. PICK d \in Executions : InsertRow(d)
      BY <1>3, <2>1 DEF InsertExecution
    <3>2. Fresh.status = "queued"
      BY DEF Fresh, Unused
    <3> QED
      BY <1>1, <3>1, <3>2 DEF InsertRow, Coded
  <2> QED
    BY <1>2, <1>3, <2>1 DEF InsertExecution
<1>4. CASE Claim(p)
  <2> DEFINE row == [rows[e] EXCEPT !.status = "running", !.attempt = proc[p].attempt, !.error = FALSE]
  <2>1. Exists(e) => row.status = "running"
    BY <1>1 DEF RowType
  <2>2. SetRow(e, row)
    BY <1>4 DEF Claim
  <2> HIDE DEF row
  <2> QED
    BY <2>1, <2>2, CodedSetRow
<1>5. CASE Commit(p)
  <2> DEFINE row == [rows[e] EXCEPT !.status = "succeeded", !.change = Monitored]
  <2>1. Exists(e) => row.status = "succeeded"
    BY <1>1 DEF RowType
  <2>2. SetRow(e, row) \/ UNCHANGED rows
    BY <1>5 DEF Commit
  <2> HIDE DEF row
  <2> QED
    BY <1>2, <2>1, <2>2, CodedSetRow
<1>6. CASE RecordFailure(p)
  <2> DEFINE status == IF WillRetry(p) THEN "queued" ELSE IF proc[p].blocked THEN "blocked" ELSE "failed"
             row == [rows[e] EXCEPT !.error = TRUE, !.status = status]
  <2> HIDE DEF status
  <2>1. Exists(e) => row.error
    BY <1>1 DEF RowType
  <2>2. SetRow(e, row)
    BY <1>6 DEF RecordFailure, status
  <2> HIDE DEF row
  <2> QED
    BY <2>1, <2>2, CodedSetRow
<1> QED
  BY <1>2, <1>3, <1>4, <1>5, <1>6
  DEF Run, SelectMonitor, PersistId, LoadContext, AcquireLease, Crawl, StoreScreenshot, FollowUp, CountFailure,
      Release, StepFails

LEMMA CodedKeeps == ASSUME TypeOK, Coded, [Next]_vars PROVE Coded'
<1>1. CASE RequestExecution
  <2>1. PICK e \in Executions : InsertRow(e)
    BY <1>1 DEF RequestExecution
  <2>2. Fresh.status = "queued"
    BY DEF Fresh, Unused
  <2> QED
    BY <2>1, <2>2 DEF InsertRow, Coded, TypeOK
<1>2. CASE Undo \/ DeleteMonitor \/ ExpireExecution
  <2>1. \A e \in Executions : rows'[e] = rows[e] \/ rows'[e] = Removed(rows[e])
    BY <1>2 DEF Undo, DeleteMonitor, ExpireExecution, SetRow, TypeOK
  <2> QED
    BY <2>1, RemovedIs DEF Coded, TypeOK
<1>3. ASSUME NEW p \in Processors, Run(p) PROVE Coded'
  BY <1>3, CodedRuns
<1>4. CASE UNCHANGED rows
  BY <1>4 DEF Coded
<1> QED
  BY <1>1, <1>2, <1>3, <1>4
  DEF Next, Api, Environment, vars, Publish, PublishFails, RequestDies, SchedulerFires, SetActive, StallCheck,
      Take, Finish, LoseLock, Crash

(* Under every fault of the model, an execution that shows a failure or a   *)
(* block has the code that tells the user why.                              *)
THEOREM VerdictsAreCoded == Spec => []Coded
<1>1. Init => Coded
  BY DEF Init, Coded, Unused
<1>2. TypeOK /\ Coded /\ [Next]_vars => Coded'
  BY CodedKeeps
<1> QED
  BY <1>1, <1>2, TypeCorrect, PTL DEF Spec

(* So the promise that every failure has a code, which a job that was given  *)
(* up after its workers died breaks, holds while the processor lives to      *)
(* record its verdict.                                                       *)
THEOREM FailuresAreCoded == ASSUME QuietFaults PROVE Spec => []FailureHasCode
<1>1. VerdictMatchesJob /\ Coded => FailureHasCode
  BY DEF VerdictMatchesJob, Coded, FailureHasCode, Exists
<1> QED
  BY <1>1, VerdictIsRecorded, VerdictsAreCoded, PTL
=============================================================================
