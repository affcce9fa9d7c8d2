----------------------------- MODULE MonitorApi -----------------------------
(***************************************************************************)
(* One monitor under its API (apps/api/src/routes/monitors.ts), the job    *)
(* scheduler it has in Redis (packages/queue), the executions its schedule *)
(* creates and their screenshots in the object store.  No transaction      *)
(* covers PostgreSQL, Redis and the store together: a request or a job     *)
(* writes one after the other, and others act in between.                  *)
(*                                                                         *)
(* A request goes through req[r].pc, the processor of execution e through  *)
(* job[e].pc (ExtractionJob has the life of a job in detail).  The page    *)
(* configuration is a version number for each of URL and fields: the       *)
(* request that wrote it, 0 for none.                                      *)
(***************************************************************************)
EXTENDS Naturals, FiniteSets

CONSTANTS
  MaxRequests,  \* bound on the requests of a behaviour
  MaxInFlight,  \* requests and jobs handled at the same time
  MaxRuns,      \* bound on the scheduled executions
  Bodies,       \* bodies of PATCH a run explores
  FailsAt,      \* steps of requests and jobs that may reject
  Crashes       \* processes may die

Requests == 1..MaxRequests
Executions == 1..MaxRuns
Keep == "keep"  \* a column the body of PATCH does not name

RequestSteps == {"create", "undo", "read", "check", "update", "sync", "peek", "next", "audit",
                 "keys", "objects", "unschedule", "delete"}
JobSteps == {"select", "fields", "insert", "load", "store", "commit", "record",
             "expired", "purge", "objects"}

ASSUME ApiConstants ==
  /\ MaxRequests \in Nat /\ MaxInFlight \in Nat /\ MaxRuns \in Nat
  /\ Bodies \subseteq [schedule : {Keep, "manual", "hourly"}, active : {Keep, "yes", "no"},
                       url : BOOLEAN, fields : BOOLEAN]
  /\ FailsAt \subseteq RequestSteps \cup JobSteps
  /\ Crashes \in BOOLEAN

VARIABLES
  monitor,    \* the row of monitors with its extraction_fields
  scheduler,  \* whether Redis has a job scheduler for the monitor
  req, job,   \* requests and processors
  rows,       \* executions
  objects,    \* executions with an object in the store
  alone,      \* observer: the last request to end ran alone and succeeded
  calm        \* observer: no execution failed or overlapped a deletion so far

vars == <<monitor, scheduler, req, job, rows, objects, alone, calm>>

NoMonitor == [exists |-> FALSE, schedule |-> "manual", active |-> FALSE, status |-> "pending",
              url |-> 0, fields |-> 0, next |-> FALSE]
NoRow == [status |-> "absent", url |-> 0, fields |-> 0, key |-> FALSE]
Gone == [NoRow EXCEPT !.status = "deleted"]
NoRequest == [pc |-> "idle", kind |-> "none", body |-> Keep, old |-> NoMonitor, next |-> FALSE,
              keys |-> {}, alone |-> FALSE]
NoJob == [pc |-> "absent", url |-> 0, fields |-> 0, shot |-> FALSE, old |-> {}, keys |-> {}]

Init == /\ monitor = NoMonitor /\ scheduler = FALSE
        /\ req = [r \in Requests |-> NoRequest]
        /\ job = [e \in Executions |-> NoJob]
        /\ rows = [e \in Executions |-> NoRow]
        /\ objects = {} /\ alone = TRUE /\ calm = TRUE

Exists(e) == rows[e].status \notin {"absent", "deleted"}
InFlight == {r \in Requests : req[r].pc \notin {"idle", "done"}}
At(r, step) == req[r].pc = step
GoTo(r, step) == req' = [req EXCEPT ![r].pc = step]
JobAt(e, step) == job[e].pc = step
JobGoTo(e, step) == job' = [job EXCEPT ![e].pc = step]
JobDone(e) == job' = [job EXCEPT ![e] = [NoJob EXCEPT !.pc = "done"]]
Working == {e \in Executions : job[e].pc \in JobSteps}
Room == Cardinality(InFlight) + Cardinality(Working) < MaxInFlight
Jobs == <<job, rows>>

-----------------------------------------------------------------------------
(* A request arrives.  Identifiers are known once the row is committed.     *)
Arrive(r, kind, body, first) ==
  /\ At(r, "idle") /\ \A q \in Requests : q < r => ~At(q, "idle")
  /\ Room
  /\ req' = [q \in Requests |->
       IF q = r THEN [NoRequest EXCEPT !.pc = first, !.kind = kind, !.body = body,
                                       !.alone = (InFlight = {})]
                ELSE [req[q] EXCEPT !.alone = FALSE]]
  /\ alone' = FALSE
  /\ UNCHANGED <<monitor, scheduler, Jobs, objects>>

Request(r) ==
  \/ r = 1 /\ \E s \in {"manual", "hourly"}, a \in {"yes", "no"} :
       Arrive(r, "post", [schedule |-> s, active |-> a, url |-> TRUE, fields |-> TRUE], "create")
  \/ monitor.exists /\ \E b \in Bodies : Arrive(r, "patch", b, "read")
  \/ monitor.exists /\ Arrive(r, "delete", Keep, "keys")

(* The request is answered; alone tells whether nothing interfered. *)
Answer(r, ok) == /\ req' = [req EXCEPT ![r] = [NoRequest EXCEPT !.pc = "done", !.keys = req[r].keys]]
                 /\ alone' = (ok /\ req[r].alone)

(* POST: row and fields in one transaction. *)
Create(r) == LET b == req[r].body IN
  /\ At(r, "create")
  /\ monitor' = [exists |-> TRUE, schedule |-> b.schedule, active |-> b.active = "yes",
                 status |-> IF b.active = "yes" THEN "pending" ELSE "paused",
                 url |-> r, fields |-> r, next |-> FALSE]
  /\ req' = [req EXCEPT ![r].pc = "sync", ![r].old = monitor']
  /\ UNCHANGED <<scheduler, alone, Jobs, objects>>

(* PATCH reads the row... *)
Read(r) == /\ At(r, "read")
           /\ IF monitor.exists
                THEN /\ req' = [req EXCEPT ![r].pc = "check", ![r].old = monitor]
                     /\ UNCHANGED alone
                ELSE Answer(r, FALSE)
           /\ UNCHANGED <<monitor, scheduler, Jobs, objects>>

(* ...resolves the new destinations, which takes time... *)
Check(r) == /\ At(r, "check") /\ GoTo(r, "update")
            /\ UNCHANGED <<monitor, scheduler, alone, Jobs, objects>>

Merge(new, old) == IF new = Keep THEN old ELSE new
Activity(new, old) == IF new = Keep THEN old ELSE new = "yes"

(* ...and writes every column back, the fields only when they are given.    *)
Merged(r) == LET b == req[r].body  old == req[r].old IN
  [exists |-> TRUE, schedule |-> Merge(b.schedule, old.schedule), active |-> Activity(b.active, old.active),
   status |-> IF Activity(b.active, old.active) THEN old.status ELSE "paused",
   url |-> IF b.url THEN r ELSE old.url, fields |-> IF b.fields THEN r ELSE monitor.fields,
   next |-> monitor.next]

(* Zero rows when the monitor is gone; given fields then violate their      *)
(* foreign key.                                                             *)
Update(r) == /\ At(r, "update")
             /\ IF monitor.exists
                  THEN /\ monitor' = Merged(r)
                       /\ req' = [req EXCEPT ![r].pc = "sync", ![r].old = monitor']
                       /\ UNCHANGED alone
                  ELSE Answer(r, FALSE) /\ UNCHANGED monitor
             /\ UNCHANGED <<scheduler, Jobs, objects>>

Scheduled(m) == m.active /\ m.schedule # "manual"

SyncOnlyCreates(r) == /\ At(r, "sync")
                      /\ scheduler' = (scheduler \/ Scheduled(req[r].old))
                      /\ GoTo(r, IF Scheduled(req[r].old) THEN "peek" ELSE "next")
                      /\ UNCHANGED <<monitor, alone, Jobs, objects>>

(* syncMonitorSchedule for the row as this request committed it. *)
Sync(r) == /\ At(r, "sync")
           /\ scheduler' = Scheduled(req[r].old)
           /\ GoTo(r, IF scheduler' THEN "peek" ELSE "next")
           /\ UNCHANGED <<monitor, alone, Jobs, objects>>

Peek(r) == /\ At(r, "peek")
           /\ req' = [req EXCEPT ![r].pc = "next", ![r].old = NoMonitor, ![r].next = scheduler]
           /\ UNCHANGED <<monitor, scheduler, alone, Jobs, objects>>

(* POST writes nextRunAt only when there is one. *)
SetNext(r) == /\ At(r, "next")
              /\ monitor' = IF monitor.exists /\ (req[r].kind = "patch" \/ req[r].next)
                              THEN [monitor EXCEPT !.next = req[r].next] ELSE monitor
              /\ GoTo(r, "audit")
              /\ UNCHANGED <<scheduler, alone, Jobs, objects>>

(* The audit log, and getMonitorDetail for the answer. *)
Audit(r) == /\ At(r, "audit") /\ Answer(r, TRUE)
            /\ UNCHANGED <<monitor, scheduler, Jobs, objects>>

RemoveRows == rows' = [e \in Executions |-> IF Exists(e) THEN Gone ELSE rows[e]]
Keyed == {e \in Executions : rows[e].key}

(* The failed creation is undone in PostgreSQL. *)
Undo(r) == /\ At(r, "undo")
           /\ monitor' = NoMonitor /\ RemoveRows /\ Answer(r, FALSE)
           /\ UNCHANGED <<scheduler, job, objects>>

(* DELETE: the row and the keys it has now... *)
SelectKeys(r) == /\ At(r, "keys")
                 /\ IF monitor.exists
                      THEN /\ req' = [req EXCEPT ![r].pc = "objects", ![r].keys = Keyed]
                           /\ UNCHANGED alone
                      ELSE Answer(r, FALSE)
                 /\ UNCHANGED <<monitor, scheduler, Jobs, objects>>

(* ...their objects, the scheduler... *)
DeleteObjects(r) == /\ At(r, "objects")
                    /\ objects' = objects \ req[r].keys
                    /\ GoTo(r, "unschedule")
                    /\ UNCHANGED <<monitor, scheduler, alone, Jobs>>

Unschedule(r) == /\ At(r, "unschedule")
                 /\ scheduler' = FALSE /\ GoTo(r, "delete")
                 /\ UNCHANGED <<monitor, alone, Jobs, objects>>

(* ...and the monitor, with its fields and executions. *)
DeleteRow(r) == /\ At(r, "delete")
                /\ monitor' = NoMonitor /\ RemoveRows /\ Answer(r, TRUE)
                /\ UNCHANGED <<scheduler, job, objects>>

(* A step rejects.  A command to Redis may have had its effect, and so may  *)
(* some of the deletions in the store.  Only POST undoes what it did.       *)
RequestFails(r) ==
  /\ req[r].pc \in FailsAt
  /\ scheduler' \in {scheduler} \cup (CASE At(r, "sync") -> {Scheduled(req[r].old)}
                                        [] At(r, "unschedule") -> {FALSE}
                                        [] OTHER -> {})
  /\ IF At(r, "objects") THEN \E s \in SUBSET req[r].keys : objects' = objects \ s
                         ELSE UNCHANGED objects
  /\ IF req[r].kind = "post" /\ req[r].pc \in {"sync", "peek", "next"}
       THEN GoTo(r, "undo") /\ UNCHANGED alone
       ELSE Answer(r, FALSE)
  /\ UNCHANGED <<monitor, Jobs>>

RequestDies(r) == /\ Crashes /\ r \in InFlight
                  /\ Answer(r, FALSE)
                  /\ UNCHANGED <<monitor, scheduler, Jobs, objects>>

-----------------------------------------------------------------------------
Others == UNCHANGED <<monitor, scheduler, req, alone>>
JobOnly == UNCHANGED <<rows, objects>> /\ Others

(* The scheduler adds a job; a worker takes it. *)
Fire(e) == /\ scheduler /\ Room /\ JobAt(e, "absent") /\ \A d \in Executions : d < e => ~JobAt(d, "absent")
           /\ JobGoTo(e, "select")
           /\ JobOnly

SelectMonitor(e) == /\ JobAt(e, "select")
                    /\ IF monitor.exists /\ monitor.active
                         THEN job' = [job EXCEPT ![e].pc = "fields", ![e].url = monitor.url]
                         ELSE JobDone(e)
                    /\ JobOnly

SelectFields(e) == /\ JobAt(e, "fields")
                   /\ job' = [job EXCEPT ![e].pc = "insert", ![e].fields = monitor.fields]
                   /\ JobOnly

(* The execution with its snapshot; from here on the job names it. *)
InsertWithoutForeignKey(e) ==
  /\ JobAt(e, "insert")
  /\ rows' = [rows EXCEPT ![e] = [status |-> "queued", url |-> job[e].url,
                                  fields |-> job[e].fields, key |-> FALSE]]
  /\ job' = [job EXCEPT ![e] = [NoJob EXCEPT !.pc = "store"]]
  /\ UNCHANGED objects /\ Others

Insert(e) == monitor.exists /\ InsertWithoutForeignKey(e)

(* A later attempt finds the row, unless it is gone, and runs it again,     *)
(* unless it has succeeded.                                                 *)
Load(e) == /\ JobAt(e, "load")
           /\ IF Exists(e) /\ rows[e].status # "succeeded" THEN JobGoTo(e, "store") ELSE JobDone(e)
           /\ JobOnly

(* The crawl, and the screenshot, if there is one, under the key of the     *)
(* execution.                                                               *)
StoreScreenshot(e) == /\ JobAt(e, "store")
                      /\ \E shot \in BOOLEAN :
                           /\ objects' = IF shot THEN objects \cup {e} ELSE objects
                           /\ job' = [job EXCEPT ![e].pc = "commit", ![e].shot = shot]
                      /\ UNCHANGED rows /\ Others

(* The transaction that names the key, or no key. *)
Commit(e) == /\ JobAt(e, "commit") /\ Exists(e)
             /\ rows' = [rows EXCEPT ![e].status = "succeeded", ![e].key = job[e].shot]
             /\ monitor' = [monitor EXCEPT !.status = "healthy"]
             /\ JobGoTo(e, "expired")
             /\ UNCHANGED <<objects, scheduler, req, alone>>

(* applyRetention: rows requested before the cutoff, with their keys...     *)
SelectExpired(e) ==
  /\ JobAt(e, "expired")
  /\ \E old \in SUBSET {d \in Executions \ {e} : Exists(d)} :
       IF old = {} THEN JobDone(e)
       ELSE job' = [job EXCEPT ![e].pc = "purge", ![e].old = old, ![e].keys = old \cap Keyed]
  /\ JobOnly

ObjectsBeforeRows(e) == /\ JobAt(e, "purge")
                        /\ objects' = objects \ job[e].keys /\ JobGoTo(e, "objects")
                        /\ UNCHANGED rows /\ Others

(* ...those rows, by the same condition but whatever key they have now...   *)
DeleteExpired(e) == /\ JobAt(e, "purge")
                    /\ rows' = [d \in Executions |-> IF d \in job[e].old /\ Exists(d)
                                                       THEN Gone ELSE rows[d]]
                    /\ JobGoTo(e, "objects")
                    /\ UNCHANGED objects /\ Others

RetentionKeepsObjects(e) == /\ JobAt(e, "objects") /\ JobDone(e)
                            /\ JobOnly

(* ...and the objects. *)
DeleteExpiredObjects(e) == /\ JobAt(e, "objects")
                           /\ objects' = objects \ job[e].keys
                           /\ JobDone(e)
                           /\ UNCHANGED rows /\ Others

(* A rejected deletion of an object goes unnoticed. *)
ObjectsStay(e) == /\ JobAt(e, "objects") /\ "objects" \in FailsAt
                  /\ \E kept \in SUBSET job[e].keys : objects' = objects \ (job[e].keys \ kept)
                  /\ JobDone(e)
                  /\ UNCHANGED rows /\ Others

(* Another attempt starts where the job has no row yet, or with its row; or *)
(* there is none.                                                           *)
Unnamed == {"select", "fields", "insert"}
Again(e) == \E pc \in {IF job[e].pc \in Unnamed THEN "select" ELSE "load", "done"} :
              job' = [job EXCEPT ![e] = [NoJob EXCEPT !.pc = pc]]

(* A put that rejects, or is cut short, may have had its effect. *)
Interrupted(e) == objects' \in {objects, IF JobAt(e, "store") THEN objects \cup {e} ELSE objects}

(* A step rejects: the insertion and the transaction do so when the monitor *)
(* or the row is gone (their foreign keys).  What follows the crawl, the    *)
(* retention after the commit included, is in the try: the catch takes over.*)
Refused(e) == \/ JobAt(e, "insert") /\ ~monitor.exists
              \/ JobAt(e, "commit") /\ ~Exists(e)
Tried == {"store", "commit", "expired", "purge"}

JobFails(e) ==
  /\ Refused(e) \/ job[e].pc \in (JobSteps \cap FailsAt) \ {"objects"}
  /\ IF job[e].pc \in Tried THEN job' = [job EXCEPT ![e] = [NoJob EXCEPT !.pc = "record"]]
                            ELSE Again(e)
  /\ Interrupted(e)
  /\ UNCHANGED rows /\ Others

(* The catch: row and monitor say whether there will be another attempt.    *)
Record(e) ==
  /\ JobAt(e, "record") /\ Again(e)
  /\ LET retried == job'[e].pc = "load" IN
       /\ rows' = IF Exists(e) THEN [rows EXCEPT ![e].status = IF retried THEN "queued" ELSE "failed"]
                  ELSE rows
       /\ monitor' = IF monitor.exists /\ ~retried THEN [monitor EXCEPT !.status = "failing"] ELSE monitor
  /\ UNCHANGED <<objects, scheduler, req, alone>>

(* The worker dies: the job is put back or, stalled once too often, given up. *)
JobDies(e) == /\ Crashes /\ e \in Working
              /\ Again(e) /\ Interrupted(e)
              /\ UNCHANGED rows /\ Others

Handle(r) == \/ Create(r) \/ Read(r) \/ Check(r) \/ Update(r) \/ Sync(r) \/ Peek(r) \/ SetNext(r)
             \/ Audit(r) \/ SelectKeys(r) \/ DeleteObjects(r) \/ Unschedule(r) \/ DeleteRow(r)

Work(e) == \/ SelectMonitor(e) \/ SelectFields(e) \/ Insert(e) \/ Load(e) \/ StoreScreenshot(e)
           \/ Commit(e) \/ Record(e) \/ SelectExpired(e) \/ DeleteExpired(e) \/ DeleteExpiredObjects(e)

(* An execution is under way while its monitor is being deleted, or while   *)
(* retention is about to delete its row.                                    *)
Overlap == \/ Working # {} /\ \E r \in InFlight : req[r].kind = "delete"
           \/ \E e \in Executions : JobAt(e, "purge") /\ job[e].old \cap Working # {}

Next == \/ /\ \/ \E r \in Requests : Request(r) \/ Handle(r) \/ RequestFails(r) \/ RequestDies(r)
              \/ \E e \in Executions : Fire(e) \/ Work(e)
           /\ calm' = (calm /\ ~Overlap')
        \/ /\ \/ \E r \in Requests : Undo(r)
              \/ \E e \in Executions : ObjectsStay(e) \/ JobFails(e) \/ JobDies(e)
           /\ calm' = FALSE

Spec == Init /\ [][Next]_vars

-----------------------------------------------------------------------------
TypeOK ==
  /\ monitor \in [exists : BOOLEAN, schedule : {"manual", "hourly"}, active : BOOLEAN,
                  status : {"pending", "paused", "healthy", "failing"}, url : 0..MaxRequests,
                  fields : 0..MaxRequests, next : BOOLEAN]
  /\ scheduler \in BOOLEAN /\ alone \in BOOLEAN /\ calm \in BOOLEAN
  /\ \A r \in Requests : req[r].pc \in RequestSteps \cup {"idle", "done"}
  /\ \A e \in Executions : job[e].pc \in JobSteps \cup {"absent", "done"}
  /\ rows \in [Executions -> [status : {"absent", "deleted", "queued", "failed", "succeeded"},
                              url : 0..MaxRequests, fields : 0..MaxRequests, key : BOOLEAN]]
  /\ objects \subseteq Executions

(* A request that ran alone and succeeded leaves scheduler, schedule and    *)
(* nextRunAt in agreement, whatever mess earlier overlapping, failed or     *)
(* interrupted requests left: the next update repairs it.                   *)
UpdatesRepairTheSchedule ==
  alone => /\ scheduler = (monitor.exists /\ Scheduled(monitor))
           /\ monitor.next = scheduler

(* The snapshot of an execution has at least one field, even when the       *)
(* monitor is deleted between the two queries it is taken with.             *)
SnapshotHasFields == \A e \in Executions : Exists(e) => rows[e].url > 0 /\ rows[e].fields > 0

(* A screenshot that a row names is in the store, unless a deletion of the  *)
(* monitor reached the store (it deletes objects first).                    *)
NamedScreenshotExists == \A e \in Executions :
  rows[e].key => e \in objects \/ \E r \in Requests : e \in req[r].keys

(* As long as no execution failed and none was under way while its monitor  *)
(* or its row was being deleted, no screenshot is forgotten: a row names it *)
(* or a job has it in hand, so that deleting the monitor deletes it.        *)
NoScreenshotIsForgotten == calm => \A e \in objects :
  rows[e].key \/ JobAt(e, "commit") \/ \E d \in Executions : JobAt(d, "objects") /\ e \in job[d].keys

(* docs/SECURITY_MODEL.md:55: deleting a monitor removes each associated    *)
(* screenshot; none is left once everything has come to rest.  The code     *)
(* does not keep this (see the README), so no run claims it.                *)
NothingOutlivesDeletion ==
  ~monitor.exists /\ InFlight = {} /\ Working = {} => objects = {}
=============================================================================
