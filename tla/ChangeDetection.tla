-------------------------- MODULE ChangeDetection --------------------------
(***************************************************************************)
(* Several executions of one monitor, with a webhook: what each crawl saw, *)
(* which earlier result it was compared with, and the alert it caused      *)
(* (apps/worker/src/processors/extraction.ts from the crawl to the alert). *)
(*                                                                         *)
(* An execution is identified by its rank in the order of requestedAt.     *)
(* Its job goes through run[e].pc; ExtractionJob has the detail of how     *)
(* jobs are published, claimed and given up.  The executions of a monitor  *)
(* crawl the same host, so they meet in the lease of DomainLease, held     *)
(* from before the crawl until after the alert.  A value stands for the    *)
(* canonical form of the whole output: buildChangeSet finds a change       *)
(* exactly when two outputs differ in it.                                  *)
(***************************************************************************)
EXTENDS Naturals, FiniteSets, FiniteSetsExt

CONSTANTS
  MaxRows,      \* bound on the executions of a behaviour
  MaxAttempts,  \* attempts of extractionJobOptions
  MaxStalled,   \* maxStalledCount of the extraction worker
  MaxInFlight,  \* executions requested and not done at the same time
  Values,       \* outputs the page may have
  FailsAt,      \* steps that may reject
  Crashes,      \* workers may die
  Lapses,       \* a crawl may outlive its lease
  NoValue, Free, Orphan

None == 0
Executions == 1..MaxRows

InTry == {"crawl", "compare", "commit", "retain", "alert", "note"}
Busy == InTry \cup {"lease", "publish", "record", "release"}

ASSUME DetectionConstants ==
  /\ MaxRows \in Nat /\ MaxAttempts \in Nat \ {0} /\ MaxStalled \in Nat /\ MaxInFlight \in Nat
  /\ NoValue \notin Values
  /\ FailsAt \subseteq {"lease", "publish"} \cup InTry
  /\ Crashes \in BOOLEAN /\ Lapses \in BOOLEAN
  /\ Free # Orphan /\ Free \notin Executions /\ Orphan \notin Executions

VARIABLES
  rows,      \* executions with their changes row
  run,       \* the job of each execution with the state of its processor
  lease,     \* holder of the host's lock
  alerts,    \* alert deliveries of each execution
  seen,      \* observer: what the last committed crawl saw
  truth      \* observer: what each commit should have reported

vars == <<rows, run, lease, alerts, seen, truth>>

Unused  == [status |-> "unused", value |-> NoValue, change |-> "none", base |-> None]
Deleted == [Unused EXCEPT !.status = "deleted"]
NoAlert == [made |-> 0, status |-> "none"]
Fresh   == [pc |-> "waiting", value |-> NoValue, base |-> None, change |-> "none",
            blocked |-> FALSE, again |-> FALSE, attempt |-> 1, stalled |-> 0]

Init == /\ rows = [e \in Executions |-> Unused]
        /\ run = [e \in Executions |-> [Fresh EXCEPT !.pc = "absent"]]
        /\ lease = Free
        /\ alerts = [e \in Executions |-> NoAlert]
        /\ seen = [value |-> NoValue, by |-> None, overtaken |-> FALSE, lapsed |-> FALSE]
        /\ truth = [e \in Executions |-> "none"]

Exists(e) == rows[e].status \notin {"unused", "deleted"}
InFlight == {e \in Executions : run[e].pc \notin {"absent", "done"}}

At(e, step) == run[e].pc = step
GoTo(e, step) == run' = [run EXCEPT ![e].pc = step]
SetStatus(e, status) ==
  rows' = IF Exists(e) THEN [rows EXCEPT ![e].status = status] ELSE rows
Unseen == UNCHANGED <<seen, truth>>

-----------------------------------------------------------------------------
(* A run on demand, or the next one of the schedule. *)
Request == /\ Cardinality(InFlight) < MaxInFlight
           /\ \E e \in Executions :
                /\ rows[e].status = "unused"
                /\ \A d \in Executions : d < e => rows[d].status # "unused"
                /\ rows' = [rows EXCEPT ![e].status = "queued"]
                /\ run' = [run EXCEPT ![e] = Fresh]
           /\ UNCHANGED <<lease, alerts>> /\ Unseen

BeginAgain(e) == /\ At(e, "waiting")
                 /\ IF Exists(e) THEN GoTo(e, "lease") /\ SetStatus(e, "running")
                                 ELSE GoTo(e, "done") /\ UNCHANGED rows
                 /\ UNCHANGED <<lease, alerts>> /\ Unseen

(* A worker takes the job.  Nothing is left to do for an execution that is  *)
(* gone, or that succeeded before its worker died.                          *)
Begin(e) == /\ At(e, "waiting")
            /\ IF Exists(e) /\ rows[e].status # "succeeded"
                 THEN GoTo(e, "lease") /\ SetStatus(e, "running")
                 ELSE GoTo(e, "done") /\ UNCHANGED rows
            /\ UNCHANGED <<lease, alerts>> /\ Unseen

CrawlWithoutLease(e) == /\ At(e, "lease")
                        /\ lease' = e /\ GoTo(e, "crawl")
                        /\ UNCHANGED <<rows, alerts>> /\ Unseen

AcquireLease(e) == /\ At(e, "lease") /\ lease = Free
                   /\ lease' = e /\ GoTo(e, "crawl")
                   /\ UNCHANGED <<rows, alerts>> /\ Unseen

(* The key of a worker that died expires; that of a live one may. *)
LeaseExpires == /\ lease = Orphan \/ (lease # Free /\ Lapses)
                /\ lease' = Free
                /\ seen' = [seen EXCEPT !.lapsed = @ \/ lease # Orphan]
                /\ UNCHANGED <<rows, run, alerts, truth>>

(* runExtraction sees what the page shows by then, which may be anything and *)
(* change at any time, or reports that it is blocked.                        *)
Crawl(e) == /\ At(e, "crawl")
            /\ run' \in {[run EXCEPT ![e].pc = "compare", ![e].value = v] : v \in Values}
                       \cup {[run EXCEPT ![e].pc = "record", ![e].blocked = TRUE]}
            /\ UNCHANGED <<rows, lease, alerts>> /\ Unseen

ComparableOfAnyStatus(e) == {d \in Executions \ {e} : Exists(d)}

(* The executions of the monitor that may serve as a baseline for e. *)
Comparable(e) == {d \in Executions \ {e} : rows[d].status = "succeeded"}

(* The last one of them in the order of requestedAt. *)
Baseline(e) == IF Comparable(e) = {} THEN None ELSE Max(Comparable(e))

Compare(old, new) == CASE old = NoValue -> "baseline"
                       [] old # NoValue /\ old = new -> "same"
                       [] OTHER -> "changed"

ReadBaseline(e) ==
  LET old == IF Baseline(e) = None THEN NoValue ELSE rows[Baseline(e)].value IN
  /\ At(e, "compare")
  /\ run' = [run EXCEPT ![e].pc = "commit", ![e].base = Baseline(e),
                        ![e].change = Compare(old, run[e].value)]
  /\ UNCHANGED <<rows, lease, alerts>> /\ Unseen

(* One transaction, rolled back when the execution or its baseline is gone: *)
(* both are foreign keys of the changes row.                                *)
Commit(e) ==
  /\ At(e, "commit")
  /\ IF Exists(e) /\ (run[e].base = None \/ Exists(run[e].base))
       THEN /\ rows' = [rows EXCEPT ![e] = [status |-> "succeeded", value |-> run[e].value,
                                            change |-> run[e].change, base |-> run[e].base]]
            /\ truth' = [truth EXCEPT ![e] = Compare(seen.value, run[e].value)]
            /\ seen' = [value |-> run[e].value, by |-> e, lapsed |-> seen.lapsed,
                        overtaken |-> seen.overtaken \/ e < seen.by]
            /\ GoTo(e, "retain")
       ELSE GoTo(e, "record") /\ UNCHANGED <<rows, truth, seen>>
  /\ UNCHANGED <<lease, alerts>>

(* applyRetention: what was requested before the cutoff goes with its alerts, *)
(* except this execution; a reference to it as a baseline becomes null.       *)
Expire(e, cutoff) ==
  LET expired == {d \in Executions \ {e} : d < cutoff /\ Exists(d)} IN
  /\ rows' = [d \in Executions |-> IF d \in expired THEN Deleted
                                  ELSE [rows[d] EXCEPT !.base = IF @ \in expired THEN None ELSE @]]
  /\ alerts' = [d \in Executions |-> IF d \in expired THEN NoAlert ELSE alerts[d]]

RetainReturnsEarly(e) ==
  /\ At(e, "retain")
  /\ \E cutoff \in 1..(MaxRows + 1) :
       /\ Expire(e, cutoff)
       /\ GoTo(e, IF run[e].change = "changed" /\ cutoff > 1 THEN "alert" ELSE "release")
  /\ UNCHANGED lease /\ Unseen

(* Retention, then the alert if there is a change. *)
Retain(e) ==
  /\ At(e, "retain")
  /\ \E cutoff \in 1..(MaxRows + 1) : Expire(e, cutoff)
  /\ GoTo(e, IF run[e].change = "changed" THEN "alert" ELSE "release")
  /\ UNCHANGED lease /\ Unseen

(* The delivery is a row of its own that refers to the execution. *)
InsertAlert(e) ==
  /\ At(e, "alert")
  /\ IF Exists(e)
       THEN /\ alerts' = [alerts EXCEPT ![e] = [made |-> @.made + 1, status |-> "queued"]]
            /\ GoTo(e, "publish")
       ELSE GoTo(e, "record") /\ UNCHANGED alerts
  /\ UNCHANGED <<rows, lease>> /\ Unseen

(* enqueueWebhook, whose rejection has a catch block of its own. *)
PublishAlert(e) ==
  /\ At(e, "publish")
  /\ GoTo(e, "release") \/ ("publish" \in FailsAt /\ GoTo(e, "note"))
  /\ UNCHANGED <<rows, lease, alerts>> /\ Unseen

(* The failure is noted in the delivery and goes no further, unless this    *)
(* update rejects as well: then it is a failure of the attempt (StepFails). *)
NoteFailedPublication(e) ==
  /\ At(e, "note")
  /\ alerts' = IF Exists(e) THEN [alerts EXCEPT ![e].status = "failed"] ELSE alerts
  /\ GoTo(e, "release")
  /\ UNCHANGED <<rows, lease>> /\ Unseen

StepFails(e) == /\ run[e].pc \in FailsAt \cap (InTry \cup {"lease"})
                /\ GoTo(e, "record")
                /\ UNCHANGED <<rows, lease, alerts>> /\ Unseen

WillRetry(e) == ~run[e].blocked /\ run[e].attempt < MaxAttempts

Record(e) ==
  /\ At(e, "record")
  /\ SetStatus(e, IF WillRetry(e) THEN "queued" ELSE IF run[e].blocked THEN "blocked" ELSE "failed")
  /\ run' = [run EXCEPT ![e].pc = "release", ![e].again = WillRetry(e)]
  /\ UNCHANGED <<lease, alerts>> /\ Unseen

(* The finally block and, if the job failed with attempts left, its retry. *)
Release(e) ==
  /\ At(e, "release")
  /\ lease' = IF lease = e THEN Free ELSE lease
  /\ run' = [run EXCEPT ![e] =
       IF @.again THEN [Fresh EXCEPT !.attempt = run[e].attempt + 1, !.stalled = run[e].stalled]
                  ELSE [Fresh EXCEPT !.pc = "done", !.stalled = run[e].stalled]]
  /\ UNCHANGED <<rows, alerts>> /\ Unseen

(* The worker dies: the stalled job is put back, or given up. *)
Crash(e) ==
  /\ Crashes /\ run[e].pc \in Busy
  /\ lease' = IF lease = e THEN Orphan ELSE lease
  /\ run' = [run EXCEPT ![e] =
       [Fresh EXCEPT !.pc = IF run[e].stalled < MaxStalled THEN "waiting" ELSE "done",
                     !.attempt = run[e].attempt, !.stalled = run[e].stalled + 1]]
  /\ UNCHANGED <<rows, alerts>> /\ Unseen

Work(e) == \/ Begin(e) \/ AcquireLease(e) \/ Crawl(e) \/ ReadBaseline(e) \/ Commit(e)
           \/ Retain(e) \/ InsertAlert(e) \/ PublishAlert(e) \/ NoteFailedPublication(e)
           \/ Record(e) \/ Release(e)

Next == \/ Request \/ LeaseExpires
        \/ \E e \in Executions : Work(e) \/ StepFails(e) \/ Crash(e)

Spec == Init /\ [][Next]_vars

-----------------------------------------------------------------------------
(* The next properties say what a committed result promises.  A step that   *)
(* fails after the transaction takes the promise back: the execution is no  *)
(* longer "succeeded", and its next attempt compares with an older one.     *)
NothingFailsAfterCommit == FailsAt \cap {"retain", "alert", "note"} = {}

(* An alert that was inserted is taken back with the attempt only when its  *)
(* publication rejects and so does the update that notes it.                *)
NoteHolds == ~({"publish", "note"} \subseteq FailsAt)

(* As long as results are committed in the order of requestedAt and no crawl *)
(* has outlived its lease, each one reports a change exactly when its crawl  *)
(* saw something else than the crawl before it, whoever died and whatever    *)
(* failed before the transaction.                                            *)
ReportsAreTrue == ~seen.overtaken /\ ~seen.lapsed =>
  \A e \in Executions : rows[e].status = "succeeded" => rows[e].change = truth[e]

(* PRODUCT.md: repeated identical values do not produce change alerts. *)
RepeatedValueIsSilent == \A e \in Executions : alerts[e].made > 0 => truth[e] = "changed"

(* The changes row and the two results it relates agree, even when the      *)
(* baseline's job was restarted after the comparison.                       *)
ChangeAgreesWithBaseline == \A e \in Executions :
  LET base == rows[e].base IN
  rows[e].status = "succeeded" /\ base # None
    => rows[e].change = Compare(rows[base].value, rows[e].value)

(* A stored change has at most one alert however often its job starts       *)
(* again, and nothing else has any, unless the publication and then the     *)
(* note of its failure reject: the retry of that attempt alerts again.      *)
OneAlertPerChange == \A e \in Executions :
  alerts[e].made <= IF rows[e].change = "changed" THEN 1 ELSE 0

(* Two executions never report the same difference: a result serves as the  *)
(* baseline of one other only, although it is read before the transaction   *)
(* and nothing in the transaction checks it again.                          *)
ChangeIsReportedOnce == ~seen.overtaken /\ ~seen.lapsed =>
  \A d, e \in Executions :
    /\ d # e /\ rows[d].status = "succeeded" /\ rows[e].status = "succeeded"
    /\ rows[d].base = rows[e].base
    => rows[e].base = None

(* Between the read of the baseline and the transaction no other result of *)
(* the monitor is committed or removed: the lease covers both as long as   *)
(* no crawl outlives it.                                                   *)
BaselineIsCurrent ==
  [][\A e \in Executions :
       At(e, "commit") /\ rows'[e].status = "succeeded" /\ ~seen.lapsed => run[e].base = Baseline(e)]_vars

(* A job does not end with a committed change that has no alert, unless a   *)
(* worker died on the way, or a step failed after the transaction.          *)
ChangesAreAlerted == \A e \in Executions :
  At(e, "done") /\ rows[e].change = "changed" /\ run[e].stalled = 0 => alerts[e].made > 0
=============================================================================
