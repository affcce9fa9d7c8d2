--------------------------- MODULE ExtractionJob ---------------------------
(***************************************************************************)
(* One extraction job, from the request that creates it to its verdict:    *)
(* the API route that inserts the execution row and publishes the job, the *)
(* BullMQ job with its attempts, locks and stall checks, the processor of  *)
(* apps/worker/src/processors/extraction.ts and the rows it writes.        *)
(*                                                                         *)
(* Every await of the processor is a step of its own: other processors,    *)
(* the API and the environment act in between.  FailsAt names the steps    *)
(* whose promise may reject in a run, Crashes whether a process may die,   *)
(* LockLoss whether BullMQ may take a job from a processor that still runs *)
(* (its lock expired during a Redis partition or a blocked event loop).    *)
(***************************************************************************)
EXTENDS Naturals, FiniteSets

CONSTANTS
  Processors,   \* slots of the extraction workers (concurrency x processes)
  MaxRows,      \* bound on the execution rows the job may create
  MaxAttempts,  \* attempts of extractionJobOptions
  MaxStalled,   \* maxStalledCount of the extraction worker
  Triggers,     \* the origins a run explores
  FailsAt, Crashes, LockLoss,
  NoOwner       \* owner of a job that no slot holds

TriggerKinds == {"manual", "preview", "scheduled"}

BeforeTry == {"select", "insert", "persist", "load", "claim"}
InTry     == {"lease", "crawl", "store", "commit", "followup"}
InCatch   == {"record", "count"}
Steps     == BeforeTry \cup InTry \cup InCatch \cup {"release"}

ASSUME JobConstants ==
  /\ MaxRows \in Nat /\ MaxStalled \in Nat /\ MaxAttempts \in Nat \ {0}
  /\ Triggers \subseteq TriggerKinds
  /\ FailsAt \subseteq Steps \cup {"publish", "undo"}
  /\ Crashes \in BOOLEAN /\ LockLoss \in BOOLEAN
  /\ NoOwner \notin Processors

VARIABLES
  trigger,  \* executions.trigger of this job
  rows,     \* the executions table, with the changes row of each execution
  monitor,  \* what the job reads and writes of its monitor
  request,  \* progress of the API request that asked for the execution
  job,      \* the BullMQ job
  proc      \* the processor running in each slot

vars == <<trigger, rows, monitor, request, job, proc>>

Executions == 1..MaxRows  \* identifiers, in the order of insertion
None == 0                 \* no execution id

Monitored == trigger # "preview"
Final == {"succeeded", "failed", "blocked"}
Absent == {"unused", "deleted"}

Unused  == [status |-> "unused",  attempt |-> 0, error |-> FALSE, change |-> FALSE]
Fresh   == [Unused EXCEPT !.status = "queued"]
Removed(row) == [row EXCEPT !.status = "deleted", !.error = FALSE, !.change = FALSE]

Idle == [pc |-> "idle", exec |-> None, attempt |-> 0,
         blocked |-> FALSE, ending |-> "completed"]

Exists(e) == e \in Executions /\ rows[e].status \notin Absent

Init == /\ trigger \in Triggers
        /\ rows = [e \in Executions |-> Unused]
        /\ monitor = [exists |-> TRUE, active |-> TRUE, status |-> "pending", failures |-> 0]
        /\ request = [pc |-> "idle", exec |-> None]
        /\ job = [state |-> "absent", exec |-> None, made |-> 0, stalled |-> 0, owner |-> NoOwner]
        /\ proc = [p \in Processors |-> Idle]

(* INSERT INTO executions: the identifier is new. *)
InsertRow(e) == /\ rows[e].status = "unused"
                /\ \A d \in Executions : d < e => rows[d].status # "unused"
                /\ rows' = [rows EXCEPT ![e] = Fresh]

(* UPDATE executions ... WHERE id = e: no effect on a row that is gone. *)
SetRow(e, row) == rows' = IF Exists(e) THEN [rows EXCEPT ![e] = row] ELSE rows

-----------------------------------------------------------------------------
(* POST /api/previews and POST /api/monitors/:id/run: insert, then publish; *)
(* when the publication fails the row is removed and the caller gets a 503. *)
RequestExecution ==
  /\ request.pc = "idle" /\ trigger # "scheduled"
  /\ Monitored => monitor.exists
  /\ \E e \in Executions : /\ InsertRow(e)
                           /\ request' = [pc |-> "publish", exec |-> e]
  /\ UNCHANGED <<trigger, monitor, job, proc>>

AddJob(e) == job' = [job EXCEPT !.state = "waiting", !.exec = e]

Publish == /\ request.pc = "publish"
           /\ AddJob(request.exec)
           /\ request' = [request EXCEPT !.pc = "accepted"]
           /\ UNCHANGED <<trigger, rows, monitor, proc>>

(* The command is rejected; it may have reached Redis all the same. *)
PublishFails == /\ request.pc = "publish" /\ "publish" \in FailsAt
                /\ UNCHANGED job \/ AddJob(request.exec)
                /\ request' = [request EXCEPT !.pc = "undo"]
                /\ UNCHANGED <<trigger, rows, monitor, proc>>

Undo == /\ request.pc = "undo"
        /\ SetRow(request.exec, Removed(rows[request.exec]))
        /\ request' = [request EXCEPT !.pc = "rejected"]
        /\ UNCHANGED <<trigger, monitor, job, proc>>

(* The DELETE is rejected too, or the API process dies. *)
RequestDies == /\ \/ request.pc \in {"publish", "undo"} /\ Crashes
                  \/ request.pc = "undo" /\ "undo" \in FailsAt
               /\ request' = [request EXCEPT !.pc = "dead"]
               /\ UNCHANGED <<trigger, rows, monitor, job, proc>>

(* The monitor's job scheduler adds the job; it names no execution yet. *)
SchedulerFires == /\ trigger = "scheduled" /\ job.state = "absent"
                  /\ AddJob(None)
                  /\ UNCHANGED <<trigger, rows, monitor, request, proc>>

(* PATCH /api/monitors/:id, as far as a job sees it. *)
SetActive == /\ Monitored /\ monitor.exists
             /\ monitor' = [monitor EXCEPT !.active = ~@,
                              !.status = IF monitor.active THEN "paused" ELSE @]
             /\ UNCHANGED <<trigger, rows, request, job, proc>>

(* DELETE /api/monitors/:id: the foreign key cascades to the executions. *)
DeleteMonitor ==
  /\ Monitored /\ monitor.exists
  /\ monitor' = [monitor EXCEPT !.exists = FALSE]
  /\ rows' = [e \in Executions |-> IF Exists(e) THEN Removed(rows[e]) ELSE rows[e]]
  /\ UNCHANGED <<trigger, request, job, proc>>

(* applyRetention of a later job of the monitor: a job that waited longer   *)
(* than retentionDays loses its row.                                        *)
ExpireExecution ==
  /\ Monitored
  /\ \E e \in Executions : /\ Exists(e)
                           /\ rows' = [rows EXCEPT ![e] = Removed(@)]
  /\ UNCHANGED <<trigger, monitor, request, job, proc>>

-----------------------------------------------------------------------------
(* BullMQ. *)
Take(p) ==
  /\ job.state = "waiting" /\ proc[p].pc = "idle"
  /\ job' = [job EXCEPT !.state = "active", !.owner = p]
  /\ proc' = [proc EXCEPT ![p] =
       [Idle EXCEPT !.pc = IF job.exec = None THEN "select" ELSE "load",
                    !.exec = job.exec, !.attempt = job.made + 1]]
  /\ UNCHANGED <<trigger, rows, monitor, request>>

Disown(p) == IF job.owner = p THEN [job EXCEPT !.owner = NoOwner] ELSE job

FinishOffByOne(p) ==
  /\ proc[p].pc = "finish"
  /\ proc' = [proc EXCEPT ![p] = Idle]
  /\ job' = IF job.owner # p THEN job
            ELSE IF proc[p].ending = "completed" THEN [Disown(p) EXCEPT !.state = "completed"]
            ELSE [Disown(p) EXCEPT !.made = @ + 1,
                    !.state = IF proc[p].ending = "failed" /\ job.made + 1 <= MaxAttempts
                              THEN "waiting" ELSE "failed"]
  /\ UNCHANGED <<trigger, rows, monitor, request>>

(* The processor is over: the job moves on if the slot still holds it. *)
Finish(p) ==
  /\ proc[p].pc = "finish"
  /\ proc' = [proc EXCEPT ![p] = Idle]
  /\ job' = IF job.owner # p THEN job
            ELSE IF proc[p].ending = "completed" THEN [Disown(p) EXCEPT !.state = "completed"]
            ELSE [Disown(p) EXCEPT !.made = @ + 1,
                    !.state = IF proc[p].ending = "failed" /\ job.made + 1 < MaxAttempts
                              THEN "waiting" ELSE "failed"]
  /\ UNCHANGED <<trigger, rows, monitor, request>>

StallUncounted ==
  /\ job.state = "active" /\ job.owner = NoOwner
  /\ job' = [job EXCEPT !.state = "waiting"]
  /\ UNCHANGED <<trigger, rows, monitor, request, proc>>

(* An active job without a live lock is put back, or given up. *)
StallCheck ==
  /\ job.state = "active" /\ job.owner = NoOwner
  /\ job' = [job EXCEPT !.stalled = @ + 1,
               !.state = IF job.stalled < MaxStalled THEN "waiting" ELSE "failed"]
  /\ UNCHANGED <<trigger, rows, monitor, request, proc>>

LoseLock(p) == /\ LockLoss /\ job.owner = p
               /\ job' = Disown(p)
               /\ UNCHANGED <<trigger, rows, monitor, request, proc>>

Crash(p) == /\ Crashes /\ proc[p].pc # "idle"
            /\ proc' = [proc EXCEPT ![p] = Idle]
            /\ job' = Disown(p)
            /\ UNCHANGED <<trigger, rows, monitor, request>>

-----------------------------------------------------------------------------
(* The processor. *)
At(p, step) == proc[p].pc = step
GoTo(p, step) == proc' = [proc EXCEPT ![p].pc = step]
End(p, ending) == proc' = [proc EXCEPT ![p].pc = "finish", ![p].ending = ending]

(* resolveExecutionContext, a scheduled job without an execution yet. *)
SelectMonitor(p) == /\ At(p, "select")
                    /\ IF monitor.exists /\ monitor.active THEN GoTo(p, "insert")
                                                           ELSE End(p, "completed")
                    /\ UNCHANGED <<trigger, rows, monitor, request, job>>

(* The foreign key rejects the row of a monitor deleted meanwhile. *)
InsertExecution(p) ==
  /\ At(p, "insert")
  /\ IF monitor.exists
       THEN \E e \in Executions :
              /\ InsertRow(e)
              /\ proc' = [proc EXCEPT ![p].pc = "persist", ![p].exec = e]
       ELSE End(p, "failed") /\ UNCHANGED rows
  /\ UNCHANGED <<trigger, monitor, request, job>>

IdNotPersisted(p) == /\ At(p, "persist") /\ GoTo(p, "load")
                     /\ UNCHANGED <<trigger, rows, monitor, request, job>>

PersistId(p) == /\ At(p, "persist")
                /\ job' = [job EXCEPT !.exec = proc[p].exec]
                /\ GoTo(p, "load")
                /\ UNCHANGED <<trigger, rows, monitor, request>>

LoadWithoutSucceededCheck(p) ==
  /\ At(p, "load")
  /\ IF Exists(proc[p].exec) THEN GoTo(p, "claim") ELSE End(p, "unrecoverable")
  /\ UNCHANGED <<trigger, rows, monitor, request, job>>

LoadContext(p) ==
  /\ At(p, "load")
  /\ CASE ~Exists(proc[p].exec) -> End(p, "unrecoverable")
       [] Exists(proc[p].exec) /\ rows[proc[p].exec].status = "succeeded" -> End(p, "completed")
       [] OTHER -> GoTo(p, "claim")
  /\ UNCHANGED <<trigger, rows, monitor, request, job>>

Claim(p) ==
  /\ At(p, "claim")
  /\ SetRow(proc[p].exec, [rows[proc[p].exec] EXCEPT
       !.status = "running", !.attempt = proc[p].attempt, !.error = FALSE])
  /\ GoTo(p, "lease")
  /\ UNCHANGED <<trigger, monitor, request, job>>

AcquireLease(p) == /\ At(p, "lease") /\ GoTo(p, "crawl")
                   /\ UNCHANGED <<trigger, rows, monitor, request, job>>

(* runExtraction returns a result, or reports that the target is blocked. *)
Crawl(p) == /\ At(p, "crawl")
            /\ \/ GoTo(p, "store")
               \/ proc' = [proc EXCEPT ![p].pc = "record", ![p].blocked = TRUE]
            /\ UNCHANGED <<trigger, rows, monitor, request, job>>

StoreScreenshot(p) == /\ At(p, "store") /\ GoTo(p, "commit")
                      /\ UNCHANGED <<trigger, rows, monitor, request, job>>

(* One transaction: execution, changes row, monitor.  The foreign key of the *)
(* changes row rolls it back when the monitored execution is gone.           *)
Commit(p) ==
  LET e == proc[p].exec IN
  /\ At(p, "commit")
  /\ IF Monitored /\ ~Exists(e)
       THEN GoTo(p, "record") /\ UNCHANGED <<rows, monitor>>
       ELSE /\ SetRow(e, [rows[e] EXCEPT !.status = "succeeded", !.change = Monitored])
            /\ monitor' = IF Monitored
                            THEN [monitor EXCEPT !.status = "healthy", !.failures = 0]
                            ELSE monitor
            /\ GoTo(p, "followup")
  /\ UNCHANGED <<trigger, request, job>>

(* applyRetention and the webhook delivery, still inside the try block: what *)
(* they do is modelled elsewhere, that they may reject matters here.  Their  *)
(* failure also stands for a COMMIT whose acknowledgement was lost.          *)
FollowUp(p) == /\ At(p, "followup") /\ GoTo(p, "release")
               /\ UNCHANGED <<trigger, rows, monitor, request, job>>

RetriesOnceTooOften(p) == ~proc[p].blocked /\ proc[p].attempt <= MaxAttempts

WillRetry(p) == ~proc[p].blocked /\ proc[p].attempt < MaxAttempts

RecordCountsEveryAttempt(p) ==
  LET e == proc[p].exec IN
  /\ At(p, "record")
  /\ SetRow(e, [rows[e] EXCEPT !.error = TRUE,
       !.status = IF WillRetry(p) THEN "queued" ELSE IF proc[p].blocked THEN "blocked" ELSE "failed"])
  /\ proc' = [proc EXCEPT
       ![p].pc = IF Monitored THEN "count" ELSE "release",
       ![p].ending = IF proc[p].blocked THEN "unrecoverable" ELSE "failed"]
  /\ UNCHANGED <<trigger, monitor, request, job>>

RecordRethrowsBlocked(p) ==
  LET e == proc[p].exec IN
  /\ At(p, "record")
  /\ SetRow(e, [rows[e] EXCEPT !.error = TRUE,
       !.status = IF WillRetry(p) THEN "queued" ELSE IF proc[p].blocked THEN "blocked" ELSE "failed"])
  /\ proc' = [proc EXCEPT
       ![p].pc = IF ~WillRetry(p) /\ Monitored THEN "count" ELSE "release",
       ![p].ending = "failed"]
  /\ UNCHANGED <<trigger, monitor, request, job>>

(* The catch block: the verdict on the execution, then on the monitor. *)
RecordFailure(p) ==
  LET e == proc[p].exec IN
  /\ At(p, "record")
  /\ SetRow(e, [rows[e] EXCEPT !.error = TRUE,
       !.status = IF WillRetry(p) THEN "queued" ELSE IF proc[p].blocked THEN "blocked" ELSE "failed"])
  /\ proc' = [proc EXCEPT
       ![p].pc = IF ~WillRetry(p) /\ Monitored THEN "count" ELSE "release",
       ![p].ending = IF proc[p].blocked THEN "unrecoverable" ELSE "failed"]
  /\ UNCHANGED <<trigger, monitor, request, job>>

CountFailure(p) ==
  /\ At(p, "count")
  /\ monitor' = IF monitor.exists
                  THEN [monitor EXCEPT !.status = "failing", !.failures = @ + 1]
                  ELSE monitor
  /\ GoTo(p, "release")
  /\ UNCHANGED <<trigger, rows, request, job>>

(* The finally block. *)
Release(p) == /\ At(p, "release") /\ GoTo(p, "finish")
              /\ UNCHANGED <<trigger, rows, monitor, request, job>>

LeaseOutsideTry(p) ==
  /\ proc[p].pc \in FailsAt
  /\ \/ proc[p].pc \in BeforeTry \cup {"lease", "release"} /\ End(p, "failed")
     \/ proc[p].pc \in InTry \ {"lease"} /\ GoTo(p, "record")
     \/ proc[p].pc \in InCatch
          /\ proc' = [proc EXCEPT ![p].pc = "release", ![p].ending = "failed"]
  /\ UNCHANGED <<trigger, rows, monitor, request, job>>

(* The awaited promise of the step rejects.  Inside the try block the catch *)
(* block takes over; an error of the catch or finally block replaces the    *)
(* one that was being thrown.                                               *)
StepFails(p) ==
  /\ proc[p].pc \in FailsAt
  /\ \/ proc[p].pc \in BeforeTry \cup {"release"} /\ End(p, "failed")
     \/ proc[p].pc \in InTry /\ GoTo(p, "record")
     \/ proc[p].pc \in InCatch
          /\ proc' = [proc EXCEPT ![p].pc = "release", ![p].ending = "failed"]
  /\ UNCHANGED <<trigger, rows, monitor, request, job>>

Run(p) == \/ SelectMonitor(p) \/ InsertExecution(p) \/ PersistId(p) \/ LoadContext(p) \/ Claim(p)
          \/ AcquireLease(p) \/ Crawl(p) \/ StoreScreenshot(p) \/ Commit(p) \/ FollowUp(p)
          \/ RecordFailure(p) \/ CountFailure(p) \/ Release(p) \/ StepFails(p)

Environment == SchedulerFires \/ SetActive \/ DeleteMonitor \/ ExpireExecution
Api == RequestExecution \/ Publish \/ PublishFails \/ Undo \/ RequestDies

Next == \/ Api \/ Environment \/ StallCheck
        \/ \E p \in Processors : Take(p) \/ Run(p) \/ Finish(p) \/ LoseLock(p) \/ Crash(p)

Spec == Init /\ [][Next]_vars

(* Workers take waiting jobs, a live processor goes on (every await of it is *)
(* bounded by a timeout), and BullMQ's stall check keeps running.            *)
Fairness == /\ WF_vars(StallCheck)
            /\ WF_vars(\E p \in Processors : Take(p))
            /\ \A p \in Processors : WF_vars(Run(p) \/ Finish(p))

FairSpec == Spec /\ Fairness

-----------------------------------------------------------------------------
RowType == [status : Absent \cup Final \cup {"queued", "running"},
            attempt : 0..MaxAttempts, error : BOOLEAN, change : BOOLEAN]
JobType == [state : {"absent", "waiting", "active", "completed", "failed"},
            exec : 0..MaxRows, made : 0..MaxAttempts, stalled : 0..(MaxStalled + 1),
            owner : Processors \cup {NoOwner}]
ProcType == [pc : Steps \cup {"idle", "finish"}, exec : 0..MaxRows, attempt : 0..MaxAttempts,
             blocked : BOOLEAN,
             ending : {"completed", "failed", "unrecoverable"}]

MonitorType == [exists : BOOLEAN, active : BOOLEAN, failures : Nat,
                status : {"pending", "healthy", "failing", "paused"}]

TypeOK == /\ trigger \in Triggers
          /\ rows \in [Executions -> RowType]
          /\ monitor \in MonitorType
          /\ request \in [pc : {"idle", "publish", "undo", "accepted", "rejected", "dead"},
                          exec : 0..MaxRows]
          /\ job \in JobType
          /\ proc \in [Processors -> ProcType]

(* ARCHITECTURE.md, reliability invariants: a scheduled job creates at most *)
(* one execution.                                                           *)
OneExecutionPerJob == \A d, e \in Executions :
  rows[d].status # "unused" /\ rows[e].status # "unused" => d = e

(* Whatever rows a job created before it died, only the execution that its  *)
(* data names is ever run.                                                  *)
OnlyNamedExecutionRuns == \A e \in Executions :
  rows[e].status \in {"running"} \cup Final => e = job.exec

(* A success leaves no error code behind from an earlier attempt. *)
SuccessIsClean == \A e \in Executions : rows[e].status = "succeeded" => ~rows[e].error

(* "One row per completed monitored execution" in the changes table. *)
ChangeRowPerSuccess == \A e \in Executions :
  rows[e].change <=> Monitored /\ rows[e].status = "succeeded"

(* Once the queue is done with the job, its execution tells how it ended. *)
VerdictMatchesJob ==
  Exists(job.exec) =>
    /\ job.state = "completed" => rows[job.exec].status = "succeeded"
    /\ job.state = "failed" => rows[job.exec].status \in {"failed", "blocked"}

(* ... and the monitor shows that verdict, counted once. *)
MonitorShowsVerdict ==
  /\ Monitored /\ monitor.exists /\ Exists(job.exec)
  /\ job.state \in {"completed", "failed"}
  => /\ monitor.failures = IF job.state = "failed" THEN 1 ELSE 0
     /\ monitor.status \in {"paused", IF job.state = "failed" THEN "failing" ELSE "healthy"}

(* PRODUCT.md: every failure has a user-readable code. *)
FailureHasCode == job.state = "failed" /\ Exists(job.exec) => rows[job.exec].error

(* ARCHITECTURE.md: a succeeded execution will not run again. *)
SucceededIsFinal ==
  [][\A e \in Executions : rows[e].status = "succeeded" => rows'[e].status \in {"succeeded", "deleted"}]_rows

(* ARCHITECTURE.md: a blocked policy decision is not retried. *)
BlockedEndsJob ==
  [][\A p \in Processors :
       proc[p].pc = "finish" /\ proc[p].blocked /\ job.owner = p /\ proc'[p].pc = "idle"
         => job'.state = "failed"]_vars

(* The row keeps the promises of ExecutionLifecycle. *)
Lifecycle == INSTANCE ExecutionLifecycle WITH
  status <- [e \in Executions |-> rows[e].status],
  attempt <- [e \in Executions |-> rows[e].attempt]
RowsFollowLifecycle == Lifecycle!Spec

(* However often it fails or its workers die, the queue is done with a job  *)
(* in the end ...                                                           *)
JobSettles == job.state = "waiting" ~> job.state \in {"completed", "failed"}

(* ... and so is the execution row. *)
ExecutionSettles == \A e \in Executions :
  rows[e].status = "running" ~> rows[e].status \in Final \cup {"deleted"}
=============================================================================
