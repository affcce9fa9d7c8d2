-------------------------- MODULE MonitorApiProofs --------------------------
(***************************************************************************)
(* For any number of requests and executions, with any failures and        *)
(* crashes: snapshots have fields, a named screenshot is in the store, none *)
(* is forgotten as long as nothing fails or overlaps a deletion, and an     *)
(* update that runs alone repairs the schedule.                             *)
(***************************************************************************)
EXTENDS MonitorApi, TLAPS

Body == [schedule : {Keep, "manual", "hourly"}, active : {Keep, "yes", "no"},
         url : BOOLEAN, fields : BOOLEAN]
Monitors == [exists : BOOLEAN, schedule : {"manual", "hourly"}, active : BOOLEAN,
             status : {"pending", "paused", "healthy", "failing"}, url : 0..MaxRequests,
             fields : 0..MaxRequests, next : BOOLEAN]
Row == [status : {"absent", "deleted", "queued", "failed", "succeeded"},
        url : 0..MaxRequests, fields : 0..MaxRequests, key : BOOLEAN]
Reqs == [pc : RequestSteps \cup {"idle", "done"}, kind : {"none", "post", "patch", "delete"},
         body : Body \cup {Keep}, old : Monitors, next : BOOLEAN, keys : SUBSET Executions,
         alone : BOOLEAN]
Job == [pc : JobSteps \cup {"absent", "done"}, url : 0..MaxRequests, fields : 0..MaxRequests,
        shot : BOOLEAN, old : SUBSET Executions, keys : SUBSET Executions]

Typed == /\ monitor \in Monitors
         /\ scheduler \in BOOLEAN /\ alone \in BOOLEAN
         /\ req \in [Requests -> Reqs]
         /\ job \in [Executions -> Job]
         /\ rows \in [Executions -> Row]
         /\ objects \subseteq Executions

(* What a request carries from one step to the next. *)
Carries(q) ==
  /\ q.pc = "create" => q.kind = "post" /\ q.body \in Body /\ q.body.schedule # Keep
  /\ q.pc \in {"read", "check", "update"} => q.kind = "patch" /\ q.body \in Body
  /\ q.pc \in {"sync", "peek", "next"} => q.kind \in {"post", "patch"}
  /\ q.pc \in {"check", "update"} => q.old.url > 0 /\ q.old.fields > 0
  /\ q.pc \in {"idle", "create", "read", "check", "update", "sync", "peek"} => ~q.next
  /\ q.pc \in {"idle", "keys"} => q.keys = {}
  /\ q.pc \in {"keys", "objects", "unschedule", "delete"} => q.kind = "delete"

(* There is one POST, before everything else: a monitor that is gone does   *)
(* not come back under its identifier.                                      *)
Untouched(r) == /\ ~monitor.exists /\ ~scheduler
                /\ \A e \in Executions : JobAt(e, "absent")
                /\ \A q \in Requests \ {r} : At(q, "idle")
FirstInv == \A r \in Requests : /\ At(r, "create") => r = 1 /\ Untouched(r)
                                /\ r = 1 /\ At(r, "idle") => Untouched(r)

(* The monitor has a page and fields from its creation to its deletion.     *)
Configured == monitor.exists => monitor.url > 0 /\ monitor.fields > 0

Shape == Typed /\ FirstInv /\ Configured /\ \A r \in Requests : Carries(req[r])

(* Fields that were found missing stay missing, and the insertion fails.    *)
SnapshotInv == \A e \in Executions :
  /\ job[e].pc \in {"fields", "insert"} => job[e].url > 0
  /\ job[e].pc = "insert" /\ monitor.exists => job[e].fields > 0
  /\ Exists(e) => rows[e].url > 0 /\ rows[e].fields > 0

(* A job is past its insertion once there is a row, and for good.           *)
BeforeRow == {"absent", "select", "fields", "insert"}
RowInv == \A e \in Executions : job[e].pc \in BeforeRow => rows[e].status = "absent"

(* What a row names, or is about to name, is in the store or on the list of *)
(* a deletion of the monitor.  Retention deletes objects after their rows.  *)
Found(e) == e \in objects \/ \E r \in Requests : e \in req[r].keys
NamedInv ==
  /\ \A e \in Executions :
       /\ rows[e].key => Exists(e) /\ Found(e)
       /\ JobAt(e, "commit") /\ job[e].shot => Found(e) \/ ~Exists(e)
       /\ JobAt(e, "purge") => /\ job[e].keys \subseteq job[e].old
                               /\ \A x \in job[e].old : rows[x].status # "absent"
       /\ JobAt(e, "objects") => \A x \in job[e].keys : rows[x].status = "deleted"

(* While it is calm, the lists that deletions work from are complete.       *)
InHand(x) == rows[x].key \/ JobAt(x, "commit") \/ \E d \in Executions : JobAt(d, "objects") /\ x \in job[d].keys
Deleting == {"objects", "unschedule", "delete"}
NotStored == BeforeRow \cup {"load", "store", "record"}
CalmInv == calm =>
  /\ ~Overlap
  /\ \A x \in objects : /\ InHand(x) /\ job[x].pc \notin NotStored
                        /\ JobAt(x, "commit") => job[x].shot
  /\ \A r \in Requests : /\ req[r].pc \in Deleting => Keyed \subseteq req[r].keys
                         /\ req[r].pc \in {"unschedule", "delete"} => req[r].keys \cap objects = {}
  /\ \A e \in Executions : JobAt(e, "purge") => job[e].old \cap Keyed \subseteq job[e].keys

(* A request that is still alone sees its own writes. *)
Flying(r) == req[r].pc \notin {"idle", "done"}
Follows(r) ==
  /\ At(r, "sync") => monitor.exists /\ Scheduled(req[r].old) = Scheduled(monitor)
  /\ req[r].pc \in {"peek", "next", "audit"} => monitor.exists /\ scheduler = Scheduled(monitor)
  /\ At(r, "next") => req[r].next = scheduler
  /\ At(r, "audit") => monitor.next = scheduler
  /\ req[r].pc \in {"sync", "peek", "next"} /\ req[r].kind = "post" => ~monitor.next
  /\ At(r, "delete") => ~scheduler
RepairInv ==
  /\ \A r \in Requests : req[r].alone => Follows(r) /\ \A q \in Requests \ {r} : ~Flying(q)
  /\ alone => UpdatesRepairTheSchedule /\ \A r \in Requests : ~Flying(r)

IInv == calm \in BOOLEAN /\ Shape /\ SnapshotInv /\ RowInv /\ NamedInv /\ CalmInv /\ RepairInv

-----------------------------------------------------------------------------
LEMMA Records ==
  /\ NoMonitor \in Monitors /\ ~NoMonitor.exists /\ ~NoMonitor.next /\ ~NoMonitor.active
  /\ NoRow \in Row /\ NoRow.status = "absent" /\ ~NoRow.key
  /\ NoRequest \in Reqs /\ NoRequest.pc = "idle" /\ NoRequest.keys = {} /\ ~NoRequest.alone
  /\ ~NoRequest.next /\ NoRequest.old = NoMonitor
  /\ NoJob \in Job /\ NoJob.pc = "absent" /\ NoJob.keys = {} /\ NoJob.old = {} /\ ~NoJob.shot
<1>1. 0 \in 0..MaxRequests /\ {} \in SUBSET Executions
  BY ApiConstants
<1> QED
  BY <1>1 DEF NoMonitor, NoRow, NoRequest, NoJob, Monitors, Row, Reqs, Job

LEMMA GoneIs == Gone \in Row /\ Gone.status = "deleted" /\ ~Gone.key
BY Records DEF Gone, Row

(* How a step changes the request, the job or the rows it is about. *)
Same(r) == \A q \in Requests \ {r} : req'[q] = req[q]
SameJobs(e) == \A d \in Executions \ {e} : job'[d] = job[d]

LEMMA GoToIs ==
  ASSUME Typed, NEW r \in Requests, NEW p \in RequestSteps, GoTo(r, p)
  PROVE  /\ req' \in [Requests -> Reqs] /\ Same(r) /\ req'[r].pc = p
         /\ req'[r].kind = req[r].kind /\ req'[r].body = req[r].body /\ req'[r].old = req[r].old
         /\ req'[r].next = req[r].next /\ req'[r].keys = req[r].keys /\ req'[r].alone = req[r].alone
BY DEF Typed, GoTo, Same, Reqs

LEMMA AnswerIs ==
  ASSUME Typed, NEW r \in Requests, NEW ok \in BOOLEAN, Answer(r, ok)
  PROVE  /\ req' \in [Requests -> Reqs] /\ Same(r) /\ req'[r].pc = "done"
         /\ req'[r].keys = req[r].keys /\ ~req'[r].alone /\ alone' \in BOOLEAN
         /\ alone' => ok /\ req[r].alone
<1> DEFINE q == [NoRequest EXCEPT !.pc = "done", !.keys = req[r].keys]
<1>1. req[r].keys \in SUBSET Executions /\ req[r].alone \in BOOLEAN
  BY DEF Typed, Reqs
<1>2. q \in Reqs /\ q.pc = "done" /\ q.keys = req[r].keys /\ ~q.alone
  BY <1>1, Records DEF Reqs
<1>3. req' = [req EXCEPT ![r] = q] /\ alone' = (ok /\ req[r].alone)
  BY DEF Answer
<1> HIDE DEF q
<1>4. req' \in [Requests -> Reqs] /\ Same(r) /\ req'[r] = q
  BY <1>2, <1>3 DEF Typed, Same
<1> QED
  BY <1>1, <1>2, <1>3, <1>4

(* What the arrival of r makes of the requests. *)
Arrived(r, kind, body, first) ==
  /\ req' \in [Requests -> Reqs] /\ alone' = FALSE
  /\ req[r].pc = "idle" /\ req'[r].pc = first /\ req'[r].kind = kind /\ req'[r].body = body
  /\ req'[r].keys = {} /\ ~req'[r].next
  /\ req'[r].alone => \A q \in Requests : ~Flying(q)
  /\ \A q \in Requests : q < r => req[q].pc # "idle"
  /\ \A q \in Requests \ {r} :
       /\ req'[q].pc = req[q].pc /\ req'[q].kind = req[q].kind /\ req'[q].body = req[q].body
       /\ req'[q].old = req[q].old /\ req'[q].next = req[q].next /\ req'[q].keys = req[q].keys
       /\ ~req'[q].alone

LEMMA ArriveIs ==
  ASSUME Typed, NEW r \in Requests, NEW kind \in {"post", "patch", "delete"},
         NEW body \in Body \cup {Keep}, NEW first \in RequestSteps, Arrive(r, kind, body, first)
  PROVE  Arrived(r, kind, body, first)
<1> DEFINE new == [NoRequest EXCEPT !.pc = first, !.kind = kind, !.body = body,
                                    !.alone = (InFlight = {})]
           old(q) == [req[q] EXCEPT !.alone = FALSE]
<1>1. /\ new \in Reqs /\ new.pc = first /\ new.kind = kind /\ new.body = body /\ new.keys = {}
      /\ ~new.next /\ new.alone = (InFlight = {})
  BY Records DEF Reqs
<1>2. ASSUME NEW q \in Requests
      PROVE  /\ old(q) \in Reqs /\ old(q).pc = req[q].pc /\ old(q).kind = req[q].kind
             /\ old(q).body = req[q].body /\ old(q).old = req[q].old /\ old(q).next = req[q].next
             /\ old(q).keys = req[q].keys /\ ~old(q).alone
  BY DEF Typed, Reqs
<1>3. req' = [q \in Requests |-> IF q = r THEN new ELSE old(q)] /\ alone' = FALSE
      /\ At(r, "idle") /\ \A q \in Requests : q < r => ~At(q, "idle")
  BY DEF Arrive
<1>4. InFlight = {} => \A q \in Requests : ~Flying(q)
  BY DEF InFlight, Flying
<1> HIDE DEF new, old
<1> QED
  BY <1>1, <1>2, <1>3, <1>4 DEF At, Arrived

LEMMA JobGoToIs ==
  ASSUME Typed, NEW e \in Executions, NEW p \in JobSteps, JobGoTo(e, p)
  PROVE  /\ job' \in [Executions -> Job] /\ SameJobs(e) /\ job'[e].pc = p
         /\ job'[e].url = job[e].url /\ job'[e].fields = job[e].fields /\ job'[e].keys = job[e].keys
         /\ job'[e].shot = job[e].shot /\ job'[e].old = job[e].old
BY DEF Typed, JobGoTo, SameJobs, Job

(* A job that starts over, ends, or has its failure recorded. *)
LEMMA FreshIs ==
  ASSUME Typed, NEW e \in Executions, NEW p \in JobSteps \cup {"done"},
         job' = [job EXCEPT ![e] = [NoJob EXCEPT !.pc = p]]
  PROVE  /\ job' \in [Executions -> Job] /\ SameJobs(e) /\ job'[e].pc = p
         /\ job'[e].keys = {} /\ job'[e].old = {} /\ ~job'[e].shot
<1> DEFINE j == [NoJob EXCEPT !.pc = p]
<1>1. j \in Job /\ j.pc = p /\ j.keys = {} /\ j.old = {} /\ ~j.shot
  BY Records DEF Job
<1>2. job' = [job EXCEPT ![e] = j]
  OBVIOUS
<1> HIDE DEF j
<1> QED
  BY <1>1, <1>2 DEF Typed, SameJobs

LEMMA JobDoneIs ==
  ASSUME Typed, NEW e \in Executions, JobDone(e)
  PROVE  /\ job' \in [Executions -> Job] /\ SameJobs(e) /\ job'[e].pc = "done"
         /\ job'[e].keys = {} /\ job'[e].old = {} /\ ~job'[e].shot
BY FreshIs DEF JobDone

LEMMA AgainIs ==
  ASSUME Typed, NEW e \in Executions, Again(e)
  PROVE  /\ job' \in [Executions -> Job] /\ SameJobs(e)
         /\ job'[e].keys = {} /\ job'[e].old = {} /\ ~job'[e].shot
         /\ job'[e].pc \in {"select", "load", "done"}
         /\ job'[e].pc = "select" => job[e].pc \in Unnamed
<1>1. PICK p \in {IF job[e].pc \in Unnamed THEN "select" ELSE "load", "done"} :
        job' = [job EXCEPT ![e] = [NoJob EXCEPT !.pc = p]]
  BY DEF Again
<1>2. p \in JobSteps \cup {"done"}
  BY DEF JobSteps
<1> QED
  BY <1>1, <1>2, FreshIs

LEMMA RemoveRowsIs ==
  ASSUME Typed, RemoveRows
  PROVE  /\ rows' \in [Executions -> Row]
         /\ \A e \in Executions : IF Exists(e) THEN rows'[e] = Gone ELSE rows'[e] = rows[e]
BY GoneIs DEF Typed, RemoveRows

(* The steps with a shape of their own. *)
LEMMA CreateIs ==
  ASSUME Shape, NEW r \in Requests, Create(r)
  PROVE  /\ monitor' \in Monitors /\ monitor'.exists /\ monitor'.url > 0 /\ monitor'.fields > 0
         /\ ~monitor'.next /\ ~monitor.exists
         /\ req' \in [Requests -> Reqs] /\ Same(r) /\ req[r].pc = "create" /\ req'[r].pc = "sync"
         /\ req'[r].old = monitor' /\ req'[r].kind = "post" /\ req'[r].keys = req[r].keys
         /\ ~req'[r].next /\ req'[r].alone = req[r].alone
         /\ UNCHANGED <<scheduler, alone, Jobs, objects>>
<1>1. /\ req[r] \in Reqs /\ req[r].pc = "create" /\ req[r].kind = "post" /\ req[r].body \in Body
      /\ req[r].body.schedule # Keep /\ ~req[r].next /\ Typed /\ Untouched(r)
  BY DEF Shape, Typed, Carries, Create, At, FirstInv
<1> DEFINE b == req[r].body
           m == [exists |-> TRUE, schedule |-> b.schedule, active |-> b.active = "yes",
                 status |-> IF b.active = "yes" THEN "pending" ELSE "paused",
                 url |-> r, fields |-> r, next |-> FALSE]
<1>2. m \in Monitors /\ m.exists /\ m.url > 0 /\ m.fields > 0 /\ ~m.next /\ monitor' = m
  BY <1>1, ApiConstants DEF Create, Body, Monitors, Requests
<1> HIDE DEF m
<1>3. req' = [req EXCEPT ![r].pc = "sync", ![r].old = m]
  BY <1>2 DEF Create
<1>4. req' \in [Requests -> Reqs] /\ req'[r].pc = "sync" /\ req'[r].old = m /\ Same(r)
      /\ req'[r].kind = req[r].kind /\ req'[r].keys = req[r].keys /\ req'[r].next = req[r].next
      /\ req'[r].alone = req[r].alone
  BY <1>1, <1>2, <1>3 DEF Typed, Reqs, Same, RequestSteps
<1> QED
  BY <1>1, <1>2, <1>4 DEF Create, Untouched

LEMMA ReadIs ==
  ASSUME Shape, NEW r \in Requests, Read(r), monitor.exists
  PROVE  /\ req' \in [Requests -> Reqs] /\ Same(r) /\ req'[r].pc = "check"
         /\ req'[r].old = monitor /\ req'[r].kind = "patch" /\ req'[r].body \in Body
         /\ req'[r].keys = req[r].keys /\ ~req'[r].next /\ req'[r].alone = req[r].alone
         /\ alone' = alone
<1>1. /\ req[r] \in Reqs /\ req[r].pc = "read" /\ req[r].kind = "patch" /\ req[r].body \in Body
      /\ ~req[r].next /\ Typed
  BY DEF Shape, Typed, Carries, Read, At
<1>2. req' = [req EXCEPT ![r].pc = "check", ![r].old = monitor] /\ alone' = alone
  BY DEF Read
<1> QED
  BY <1>1, <1>2 DEF Typed, Reqs, Same, RequestSteps

LEMMA UpdateIs ==
  ASSUME Shape, NEW r \in Requests, Update(r), monitor.exists
  PROVE  /\ monitor' \in Monitors /\ monitor'.exists /\ monitor'.url > 0
         /\ monitor.fields > 0 => monitor'.fields > 0
         /\ monitor'.next = monitor.next
         /\ req' \in [Requests -> Reqs] /\ Same(r) /\ req'[r].pc = "sync" /\ req'[r].old = monitor'
         /\ req'[r].kind = "patch" /\ req'[r].keys = req[r].keys /\ ~req'[r].next
         /\ req'[r].alone = req[r].alone /\ alone' = alone
<1>1. /\ req[r] \in Reqs /\ req[r].pc = "update" /\ req[r].kind = "patch" /\ req[r].body \in Body
      /\ ~req[r].next /\ Typed /\ req[r].old \in Monitors /\ req[r].old.url > 0 /\ monitor \in Monitors
  BY DEF Shape, Typed, Carries, Update, At, Reqs
<1> DEFINE m == Merged(r)
<1>2. /\ Merge(req[r].body.schedule, req[r].old.schedule) \in {"manual", "hourly"}
      /\ Activity(req[r].body.active, req[r].old.active) \in BOOLEAN
  BY <1>1 DEF Merge, Activity, Body, Monitors
<1>3. m \in Monitors /\ m.exists /\ m.url > 0 /\ (monitor.fields > 0 => m.fields > 0)
      /\ m.next = monitor.next
  BY <1>1, <1>2, ApiConstants DEF Merged, Monitors, Body, Requests
<1> HIDE DEF m
<1>4. monitor' = m /\ req' = [req EXCEPT ![r].pc = "sync", ![r].old = m] /\ alone' = alone
  BY DEF Update, m
<1>5. req' \in [Requests -> Reqs] /\ req'[r].pc = "sync" /\ req'[r].old = m /\ Same(r)
      /\ req'[r].kind = req[r].kind /\ req'[r].keys = req[r].keys /\ req'[r].next = req[r].next
      /\ req'[r].alone = req[r].alone
  BY <1>1, <1>3, <1>4 DEF Typed, Reqs, Same, RequestSteps
<1> QED
  BY <1>1, <1>3, <1>4, <1>5

LEMMA PeekIs ==
  ASSUME Shape, NEW r \in Requests, Peek(r)
  PROVE  /\ req' \in [Requests -> Reqs] /\ Same(r) /\ req[r].pc = "peek" /\ req'[r].pc = "next"
         /\ req'[r].next = scheduler /\ req'[r].kind = req[r].kind /\ req'[r].keys = req[r].keys
         /\ req'[r].alone = req[r].alone
<1> DEFINE q == [req[r] EXCEPT !.pc = "next", !.old = NoMonitor, !.next = scheduler]
<1>1. req[r] \in Reqs /\ scheduler \in BOOLEAN /\ req \in [Requests -> Reqs]
  BY DEF Shape, Typed
<1>2. /\ q \in Reqs /\ q.pc = "next" /\ q.next = scheduler /\ q.kind = req[r].kind
      /\ q.keys = req[r].keys /\ q.alone = req[r].alone
  BY <1>1, Records DEF Reqs, RequestSteps
<1>3. req' = [req EXCEPT ![r] = q] /\ req[r].pc = "peek"
  BY <1>1 DEF Peek, At
<1> HIDE DEF q
<1> QED
  BY <1>1, <1>2, <1>3 DEF Same

LEMMA SelectKeysIs ==
  ASSUME Shape, NEW r \in Requests, SelectKeys(r), monitor.exists
  PROVE  /\ req' \in [Requests -> Reqs] /\ Same(r) /\ req[r].pc = "keys" /\ req'[r].pc = "objects"
         /\ req'[r].keys = Keyed /\ req[r].keys = {} /\ req'[r].alone = req[r].alone /\ alone' = alone
         /\ req'[r].kind = "delete" /\ req[r].kind = "delete"
BY DEF Shape, Typed, Carries, SelectKeys, At, Reqs, Same, RequestSteps, Keyed

(* Once someone is past the creation, the monitor has one life only. *)
LEMMA FirstStays ==
  ASSUME FirstInv, NEW r \in Requests, req[r].pc # "idle", Same(r), req'[r].pc \notin {"idle", "create"}
  PROVE  FirstInv'
BY DEF FirstInv, Untouched, At, Same

LEMMA FirstStaysInJobs ==
  ASSUME FirstInv, UNCHANGED req, scheduler \/ \E e \in Executions : ~JobAt(e, "absent")
  PROVE  FirstInv'
BY DEF FirstInv, Untouched, At

(* A step of one request keeps the shape of them all. *)
LEMMA ShapeStays ==
  ASSUME Shape, NEW r \in Requests, req[r].pc # "idle", Same(r), req'[r].pc \notin {"idle", "create"},
         Carries(req'[r]), Typed', Configured'
  PROVE  Shape'
<1>1. FirstInv'
  BY FirstStays DEF Shape
<1>2. \A q \in Requests : Carries(req[q])'
  BY DEF Shape, Same
<1> QED
  BY <1>1, <1>2 DEF Shape

LEMMA RequestShape == ASSUME Shape, NEW r \in Requests, Request(r) PROVE Shape'
<1>1. Typed /\ FirstInv /\ Configured /\ \A q \in Requests : Carries(req[q])
  BY DEF Shape
<1>2. ASSUME NEW kind \in {"post", "patch", "delete"}, NEW body \in Body \cup {Keep},
             NEW first \in RequestSteps, Arrive(r, kind, body, first),
             first = "create" => r = 1 /\ kind = "post" /\ body \in Body /\ body.schedule # Keep,
             first # "create" => monitor.exists,
             first = "read" => kind = "patch" /\ body \in Body,
             first = "keys" => kind = "delete",
             first \in {"create", "read", "keys"}
      PROVE  Shape'
  <2>0. UNCHANGED <<monitor, scheduler, job, rows, objects>>
    BY <1>2 DEF Arrive, Jobs
  <2>4. Arrived(r, kind, body, first)
    BY <1>1, <1>2, ArriveIs
  <2>1. Typed' /\ Configured'
    BY <1>1, <2>0, <2>4 DEF Typed, Configured, Arrived
  <2>5. /\ req[r].pc = "idle" /\ req'[r].pc = first
        /\ \A q \in Requests : q < r => req[q].pc # "idle"
        /\ \A q \in Requests \ {r} : req'[q].pc = req[q].pc
    BY <2>4 DEF Arrived
  <2>6. /\ req'[r].kind = kind /\ req'[r].body = body /\ req'[r].keys = {} /\ ~req'[r].next
        /\ \A q \in Requests \ {r} :
             /\ req'[q].kind = req[q].kind /\ req'[q].body = req[q].body /\ req'[q].old = req[q].old
             /\ req'[q].next = req[q].next /\ req'[q].keys = req[q].keys
    BY <2>4 DEF Arrived
  <2>7. Carries(req'[r])
    BY <1>2, <2>5, <2>6 DEF Carries
  <2>8. ASSUME NEW q \in Requests \ {r} PROVE Carries(req'[q])
    BY <1>1, <2>5, <2>6 DEF Carries
  <2>2. \A q \in Requests : Carries(req[q])'
    BY <2>7, <2>8
  <2>3. FirstInv'
    <3>1. CASE first = "create"
      <4>1. Untouched(r) /\ r = 1
        BY <1>1, <1>2, <2>5, <3>1 DEF FirstInv, At
      <4> QED
        BY <2>0, <2>5, <3>1, <4>1 DEF FirstInv, Untouched, At, JobAt
    <3>2. CASE first # "create"
      BY <1>1, <1>2, <2>5, <3>2 DEF FirstInv, Untouched, At
    <3> QED
      BY <3>1, <3>2
  <2> QED
    BY <2>1, <2>2, <2>3 DEF Shape
<1>3. ASSUME NEW s \in {"manual", "hourly"}, NEW a \in {"yes", "no"}
      PROVE  LET b == [schedule |-> s, active |-> a, url |-> TRUE, fields |-> TRUE]
             IN b \in Body /\ b.schedule # Keep
  BY DEF Body, Keep
<1>4. \A b \in Bodies : b \in Body
  BY ApiConstants DEF Body
<1> QED
  BY <1>2, <1>3, <1>4 DEF Request, RequestSteps

LEMMA AnswerShape ==
  ASSUME Shape, NEW r \in Requests, NEW ok \in BOOLEAN, Answer(r, ok), req[r].pc # "idle",
         monitor' \in Monitors, scheduler' \in BOOLEAN, job' = job, rows' \in [Executions -> Row],
         objects' \subseteq Executions, Configured'
  PROVE  Shape'
<1>1. Typed
  BY DEF Shape
<1>2. Typed'
  BY <1>1, AnswerIs DEF Typed
<1>3. Same(r) /\ req'[r].pc = "done"
  BY <1>1, AnswerIs
<1>4. Carries(req'[r])
  BY <1>3 DEF Carries
<1> QED
  BY <1>2, <1>3, <1>4, ShapeStays

(* A step that only moves on. *)
LEMMA GoToShape ==
  ASSUME Shape, NEW r \in Requests, NEW p \in RequestSteps, GoTo(r, p), req[r].pc # "idle",
         p \in {"audit", "undo"} \/ (p \in {"unschedule", "delete"} /\ req[r].pc \in {"objects", "unschedule"})
           \/ (req[r].pc = "check" /\ p = "update") \/ (req[r].pc = "sync" /\ p \in {"peek", "next"}),
         monitor' \in Monitors, scheduler' \in BOOLEAN, alone' = alone, job' = job, rows' = rows,
         objects' \subseteq Executions, Configured'
  PROVE  Shape'
<1>1. Typed /\ Carries(req[r])
  BY DEF Shape
<1>2. Typed'
  BY <1>1, GoToIs DEF Typed
<1>3. /\ Same(r) /\ req'[r].pc = p /\ p \notin {"idle", "create"}
      /\ req'[r].kind = req[r].kind /\ req'[r].body = req[r].body /\ req'[r].old = req[r].old
      /\ req'[r].next = req[r].next /\ req'[r].keys = req[r].keys
  BY <1>1, GoToIs DEF RequestSteps
<1>4. Carries(req'[r])
  BY <1>1, <1>3 DEF Carries, RequestSteps
<1> QED
  BY <1>2, <1>3, <1>4, ShapeStays

LEMMA HandleShape == ASSUME Shape, NEW r \in Requests, Handle(r) \/ Undo(r) PROVE Shape'
<1> USE DEF Jobs, Configured
<1>1. Typed /\ Configured /\ req[r] \in Reqs /\ Carries(req[r])
  BY DEF Shape, Typed
<1>0. /\ monitor \in Monitors /\ scheduler \in BOOLEAN /\ rows \in [Executions -> Row]
      /\ objects \subseteq Executions /\ NoMonitor \in Monitors /\ ~NoMonitor.exists
      /\ TRUE \in BOOLEAN /\ FALSE \in BOOLEAN /\ Keyed \subseteq Executions
  BY <1>1, Records DEF Typed, Keyed
<1>20. UNCHANGED monitor => Configured'
  BY <1>1
<1>2. CASE Create(r)
  <2>1. Typed' /\ Carries(req'[r])
    BY <1>1, <1>2, CreateIs DEF Typed, Carries
  <2> QED
    BY <1>2, <2>1, CreateIs, ShapeStays
<1>3. CASE Read(r)
  <2>1. CASE monitor.exists
    <3>1. Typed' /\ Carries(req'[r])
      BY <1>1, <1>3, <2>1, ReadIs DEF Read, Typed, Carries
    <3> QED
      BY <1>1, <1>3, <2>1, <3>1, ReadIs, ShapeStays DEF Read, At
  <2>2. CASE ~monitor.exists
    BY <1>0, <1>3, <2>2, AnswerShape DEF Read, At
  <2> QED
    BY <2>1, <2>2
<1>4. CASE Check(r)
  BY <1>0, <1>20, <1>4, GoToShape DEF Check, At, RequestSteps
<1>5. CASE Update(r)
  <2>1. CASE monitor.exists
    <3>1. Typed' /\ Carries(req'[r])
      BY <1>1, <1>5, <2>1, UpdateIs DEF Update, Typed, Carries
    <3> QED
      BY <1>1, <1>5, <2>1, <3>1, UpdateIs, ShapeStays DEF Update, At
  <2>2. CASE ~monitor.exists
    BY <1>0, <1>5, <2>2, AnswerShape DEF Update, At
  <2> QED
    BY <2>1, <2>2
<1>6. CASE Sync(r)
  <2>1. Scheduled(req[r].old) \in BOOLEAN
    BY DEF Scheduled
  <2> QED
    BY <1>0, <1>20, <1>6, <2>1, GoToShape DEF Sync, At, RequestSteps
<1>7. CASE Peek(r)
  <2>1. Typed' /\ Carries(req'[r])
    BY <1>1, <1>7, PeekIs DEF Peek, Typed, Carries
  <2> QED
    BY <1>20, <1>7, <2>1, PeekIs, ShapeStays DEF Peek
<1>8. CASE SetNext(r)
  <2>1. monitor' \in Monitors /\ Configured'
    BY <1>0, <1>1, <1>8 DEF SetNext, Monitors, Reqs
  <2> QED
    BY <1>0, <1>8, <2>1, GoToShape DEF SetNext, At, RequestSteps
<1>9. CASE Audit(r)
  BY <1>0, <1>20, <1>9, AnswerShape DEF Audit, At
<1>10. CASE Undo(r) \/ DeleteRow(r)
  <2>1. rows' \in [Executions -> Row]
    BY <1>0, <1>1, <1>10, RemoveRowsIs DEF Undo, DeleteRow
  <2> QED
    BY <1>0, <1>10, <2>1, AnswerShape DEF Undo, DeleteRow, At
<1>11. CASE SelectKeys(r)
  <2>1. CASE monitor.exists
    <3>1. Typed' /\ Carries(req'[r])
      BY <1>1, <1>11, <2>1, SelectKeysIs DEF SelectKeys, Typed, Carries
    <3> QED
      BY <1>20, <1>11, <2>1, <3>1, SelectKeysIs, ShapeStays DEF SelectKeys
  <2>2. CASE ~monitor.exists
    BY <1>0, <1>11, <2>2, AnswerShape DEF SelectKeys, At
  <2> QED
    BY <2>1, <2>2
<1>12. CASE DeleteObjects(r) \/ Unschedule(r)
  <2>1. objects' \subseteq Executions /\ scheduler' \in BOOLEAN
    BY <1>0, <1>12 DEF DeleteObjects, Unschedule
  <2> QED
    BY <1>0, <1>20, <1>12, <2>1, GoToShape DEF DeleteObjects, Unschedule, At, RequestSteps
<1> QED
  BY <1>2, <1>3, <1>4, <1>5, <1>6, <1>7, <1>8, <1>9, <1>10, <1>11, <1>12 DEF Handle

LEMMA RequestEndsShape ==
  ASSUME Shape, NEW r \in Requests, RequestFails(r) \/ RequestDies(r)
  PROVE  Shape'
<1> USE DEF Jobs, Configured
<1>1. /\ Typed /\ monitor \in Monitors /\ scheduler \in BOOLEAN /\ rows \in [Executions -> Row]
      /\ objects \subseteq Executions /\ FALSE \in BOOLEAN
  BY DEF Shape, Typed
<1>2. UNCHANGED monitor => Configured'
  BY DEF Shape
<1>3. CASE RequestFails(r)
  <2>1. UNCHANGED <<monitor, job, rows>>
    BY <1>3 DEF RequestFails
  <2>2. req[r].pc # "idle"
    BY <1>3, ApiConstants DEF RequestFails, RequestSteps, JobSteps
  <2>3. scheduler' \in BOOLEAN
    <3>1. Scheduled(req[r].old) \in BOOLEAN
      BY DEF Scheduled
    <3>2. scheduler' \in {scheduler, Scheduled(req[r].old), FALSE}
      BY <1>3 DEF RequestFails
    <3> QED
      BY <1>1, <3>1, <3>2
  <2>4. objects' \subseteq Executions
    BY <1>1, <1>3 DEF RequestFails
  <2>5. CASE req[r].kind = "post" /\ req[r].pc \in {"sync", "peek", "next"}
    <3>1. GoTo(r, "undo") /\ alone' = alone
      BY <1>3, <2>5 DEF RequestFails
    <3>2. "undo" \in RequestSteps
      BY DEF RequestSteps
    <3> QED
      BY <1>1, <1>2, <2>1, <2>2, <2>3, <2>4, <3>1, <3>2, GoToShape
  <2>6. CASE ~(req[r].kind = "post" /\ req[r].pc \in {"sync", "peek", "next"})
    <3>1. Answer(r, FALSE)
      BY <1>3, <2>6 DEF RequestFails
    <3> QED
      BY <1>1, <1>2, <2>1, <2>2, <2>3, <2>4, <3>1, AnswerShape
  <2> QED
    BY <2>5, <2>6
<1>4. CASE RequestDies(r)
  BY <1>1, <1>2, <1>4, AnswerShape DEF RequestDies, InFlight
<1> QED
  BY <1>3, <1>4

(* A step of a job leaves the requests alone. *)
LEMMA JobShape ==
  ASSUME Shape, UNCHANGED <<scheduler, req, alone>>,
         scheduler \/ \E e \in Executions : ~JobAt(e, "absent"),
         monitor' \in Monitors, Configured', job' \in [Executions -> Job],
         rows' \in [Executions -> Row], objects' \subseteq Executions
  PROVE  Shape'
<1>1. FirstInv'
  BY FirstStaysInJobs DEF Shape
<1>2. Typed'
  BY DEF Shape, Typed
<1>3. \A q \in Requests : Carries(req[q])'
  BY DEF Shape
<1> QED
  BY <1>1, <1>2, <1>3 DEF Shape

LEMMA SelectMonitorIs ==
  ASSUME Typed, NEW e \in Executions, SelectMonitor(e), monitor.exists, monitor.active
  PROVE  /\ job' \in [Executions -> Job] /\ SameJobs(e) /\ job'[e].pc = "fields"
         /\ job'[e].url = monitor.url /\ job'[e].keys = job[e].keys
BY DEF Typed, SelectMonitor, Job, JobSteps, Monitors, SameJobs

LEMMA SelectFieldsIs ==
  ASSUME Typed, NEW e \in Executions, SelectFields(e)
  PROVE  /\ job' \in [Executions -> Job] /\ SameJobs(e) /\ job'[e].pc = "insert"
         /\ job'[e].url = job[e].url /\ job'[e].fields = monitor.fields /\ job'[e].keys = job[e].keys
<1>1. job' = [job EXCEPT ![e].pc = "insert", ![e].fields = monitor.fields]
  BY DEF SelectFields
<1>2. job \in [Executions -> Job] /\ monitor.fields \in 0..MaxRequests /\ "insert" \in JobSteps
  BY DEF Typed, Monitors, JobSteps
<1>3. [job[e] EXCEPT !.pc = "insert", !.fields = monitor.fields] \in Job
  <2>1. job[e] \in Job
    BY <1>2
  <2> QED
    BY <1>2, <2>1 DEF Job
<1>4. job' \in [Executions -> Job]
  BY <1>1, <1>2, <1>3
<1> QED
  BY <1>1, <1>2, <1>4 DEF Job, SameJobs

LEMMA InsertIs ==
  ASSUME Typed, NEW e \in Executions, Insert(e)
  PROVE  /\ job' \in [Executions -> Job] /\ SameJobs(e) /\ job'[e].pc = "store" /\ job'[e].keys = {}
         /\ rows' \in [Executions -> Row] /\ rows'[e].status = "queued" /\ ~rows'[e].key
         /\ rows'[e].url = job[e].url /\ rows'[e].fields = job[e].fields
         /\ \A d \in Executions \ {e} : rows'[d] = rows[d]
<1> DEFINE row == [status |-> "queued", url |-> job[e].url, fields |-> job[e].fields, key |-> FALSE]
<1>1. row \in Row /\ row.status = "queued" /\ ~row.key /\ row.url = job[e].url /\ row.fields = job[e].fields
  BY DEF Typed, Job, Row
<1>2. job' \in [Executions -> Job] /\ SameJobs(e) /\ job'[e].pc = "store" /\ job'[e].keys = {}
  BY FreshIs DEF Insert, InsertWithoutForeignKey, JobSteps
<1>3. rows' = [rows EXCEPT ![e] = row]
  BY DEF Insert, InsertWithoutForeignKey
<1> HIDE DEF row
<1> QED
  BY <1>1, <1>2, <1>3 DEF Typed

LEMMA StoreIs ==
  ASSUME Typed, NEW e \in Executions, StoreScreenshot(e)
  PROVE  /\ job' \in [Executions -> Job] /\ SameJobs(e) /\ job'[e].pc = "commit"
         /\ job[e].pc = "store" /\ UNCHANGED <<monitor, rows, req, scheduler, alone>>
         /\ \/ job'[e].shot /\ objects' = objects \cup {e}
            \/ ~job'[e].shot /\ objects' = objects
<1>1. PICK shot \in BOOLEAN : /\ objects' = IF shot THEN objects \cup {e} ELSE objects
                              /\ job' = [job EXCEPT ![e].pc = "commit", ![e].shot = shot]
  BY DEF StoreScreenshot
<1>2. [job[e] EXCEPT !.pc = "commit", !.shot = shot] \in Job
  <2>1. job[e] \in Job /\ "commit" \in JobSteps
    BY DEF Typed, JobSteps
  <2> QED
    BY <2>1 DEF Job
<1>3. job' \in [Executions -> Job] /\ SameJobs(e)
  BY <1>1, <1>2 DEF Typed, SameJobs
<1>4. job'[e].pc = "commit" /\ job'[e].shot = shot
  BY <1>1 DEF Typed, Job
<1> QED
  BY <1>1, <1>3, <1>4 DEF StoreScreenshot, JobAt, Others

LEMMA CommitIs ==
  ASSUME Typed, NEW e \in Executions, Commit(e)
  PROVE  /\ job' \in [Executions -> Job] /\ SameJobs(e) /\ job'[e].pc = "expired"
         /\ job'[e].keys = job[e].keys
         /\ rows' \in [Executions -> Row] /\ rows'[e].status = "succeeded" /\ rows'[e].key = job[e].shot
         /\ rows'[e].url = rows[e].url /\ rows'[e].fields = rows[e].fields
         /\ \A d \in Executions \ {e} : rows'[d] = rows[d]
         /\ monitor' \in Monitors /\ monitor'.exists = monitor.exists /\ monitor'.url = monitor.url
         /\ monitor'.fields = monitor.fields /\ monitor'.schedule = monitor.schedule
         /\ monitor'.active = monitor.active /\ monitor'.next = monitor.next
<1>1. JobGoTo(e, "expired") /\ "expired" \in JobSteps
  BY DEF Commit, JobSteps
<1>2. rows' = [rows EXCEPT ![e].status = "succeeded", ![e].key = job[e].shot]
      /\ monitor' = [monitor EXCEPT !.status = "healthy"]
  BY DEF Commit
<1> QED
  <2>1. /\ job' \in [Executions -> Job] /\ SameJobs(e) /\ job'[e].pc = "expired"
        /\ job'[e].keys = job[e].keys
    BY <1>1, JobGoToIs
  <2>2. /\ rows' \in [Executions -> Row] /\ rows'[e].status = "succeeded" /\ rows'[e].key = job[e].shot
        /\ rows'[e].url = rows[e].url /\ rows'[e].fields = rows[e].fields
        /\ \A d \in Executions \ {e} : rows'[d] = rows[d]
    <3>1. job[e].shot \in BOOLEAN /\ rows[e] \in Row
      BY DEF Typed, Job
    <3>2. [rows[e] EXCEPT !.status = "succeeded", !.key = job[e].shot] \in Row
      BY <3>1 DEF Row
    <3> QED
      BY <1>2, <3>1, <3>2 DEF Typed, Row
  <2>3. /\ monitor' \in Monitors /\ monitor'.exists = monitor.exists /\ monitor'.url = monitor.url
        /\ monitor'.fields = monitor.fields /\ monitor'.schedule = monitor.schedule
        /\ monitor'.active = monitor.active /\ monitor'.next = monitor.next
    BY <1>2 DEF Typed, Monitors
  <2> QED
    BY <2>1, <2>2, <2>3

LEMMA RecordIs ==
  ASSUME Typed, NEW e \in Executions, Record(e)
  PROVE  /\ job' \in [Executions -> Job] /\ SameJobs(e) /\ job'[e].pc \in {"load", "done"}
         /\ job'[e].keys = {} /\ job'[e].old = {} /\ ~job'[e].shot /\ job[e].pc = "record"
         /\ rows' \in [Executions -> Row] /\ \A d \in Executions \ {e} : rows'[d] = rows[d]
         /\ rows'[e].url = rows[e].url /\ rows'[e].fields = rows[e].fields /\ rows'[e].key = rows[e].key
         /\ (rows'[e] = rows[e]) \/ (Exists(e) /\ rows'[e].status \in {"queued", "failed"})
         /\ monitor' \in Monitors /\ monitor'.exists = monitor.exists /\ monitor'.url = monitor.url
         /\ monitor'.fields = monitor.fields /\ monitor'.schedule = monitor.schedule
         /\ monitor'.active = monitor.active /\ monitor'.next = monitor.next
         /\ UNCHANGED <<objects, scheduler, req, alone>>
<1>1. job[e].pc = "record" /\ Again(e) /\ UNCHANGED <<objects, scheduler, req, alone>>
  BY DEF Record, JobAt
<1>2. /\ job' \in [Executions -> Job] /\ SameJobs(e) /\ job'[e].pc \in {"load", "done"}
      /\ job'[e].keys = {} /\ job'[e].old = {} /\ ~job'[e].shot
  BY <1>1, AgainIs DEF Unnamed
<1>3. PICK st \in {"queued", "failed"} :
        rows' = IF Exists(e) THEN [rows EXCEPT ![e].status = st] ELSE rows
  BY DEF Record
<1>4. /\ rows' \in [Executions -> Row] /\ \A d \in Executions \ {e} : rows'[d] = rows[d]
      /\ rows'[e].url = rows[e].url /\ rows'[e].fields = rows[e].fields /\ rows'[e].key = rows[e].key
      /\ (rows'[e] = rows[e]) \/ (Exists(e) /\ rows'[e].status \in {"queued", "failed"})
  BY <1>3 DEF Typed, Row
<1>5. monitor' = [monitor EXCEPT !.status = "failing"] \/ monitor' = monitor
  BY DEF Record
<1>6. /\ monitor' \in Monitors /\ monitor'.exists = monitor.exists /\ monitor'.url = monitor.url
      /\ monitor'.fields = monitor.fields /\ monitor'.schedule = monitor.schedule
      /\ monitor'.active = monitor.active /\ monitor'.next = monitor.next
  BY <1>5 DEF Typed, Monitors
<1> QED
  BY <1>1, <1>2, <1>4, <1>6

LEMMA LoadIs ==
  ASSUME Typed, NEW e \in Executions, Load(e)
  PROVE  /\ job' \in [Executions -> Job] /\ SameJobs(e) /\ job'[e].pc \in {"store", "done"}
         /\ job[e].pc = "load" /\ UNCHANGED <<monitor, rows, objects, req, scheduler, alone>>
<1>1. JobGoTo(e, "store") \/ JobDone(e)
  BY DEF Load
<1>2. job' \in [Executions -> Job] /\ SameJobs(e) /\ job'[e].pc \in {"store", "done"}
  BY <1>1, JobGoToIs, JobDoneIs DEF JobSteps
<1> QED
  BY <1>2 DEF Load, JobAt, JobOnly, Others

LEMMA SelectExpiredIs ==
  ASSUME Typed, NEW e \in Executions, SelectExpired(e), ~JobDone(e)
  PROVE  /\ job' \in [Executions -> Job] /\ SameJobs(e) /\ job'[e].pc = "purge"
         /\ job'[e].keys = job'[e].old \cap Keyed /\ e \notin job'[e].old
         /\ \A d \in job'[e].old : Exists(d)
<1>1. PICK old \in SUBSET {d \in Executions \ {e} : Exists(d)} :
        job' = [job EXCEPT ![e].pc = "purge", ![e].old = old, ![e].keys = old \cap Keyed]
  BY DEF SelectExpired
<1>2. /\ [job[e] EXCEPT !.pc = "purge", !.old = old, !.keys = old \cap Keyed] \in Job
      /\ job[e] \in Job
  <2>1. job[e] \in Job /\ "purge" \in JobSteps /\ old \in SUBSET Executions
        /\ old \cap Keyed \in SUBSET Executions
    BY DEF Typed, JobSteps
  <2> QED
    BY <2>1 DEF Job
<1>3. job'[e] = [job[e] EXCEPT !.pc = "purge", !.old = old, !.keys = old \cap Keyed]
  BY <1>1 DEF Typed
<1>4. job'[e].pc = "purge" /\ job'[e].old = old /\ job'[e].keys = old \cap Keyed
  BY <1>2, <1>3 DEF Job
<1>5. job' \in [Executions -> Job] /\ SameJobs(e)
  BY <1>1, <1>2 DEF Typed, SameJobs
<1> QED
  BY <1>4, <1>5

LEMMA DeleteExpiredIs ==
  ASSUME Typed, NEW e \in Executions, DeleteExpired(e)
  PROVE  /\ rows' \in [Executions -> Row]
         /\ \A d \in Executions : \/ d \in job[e].old /\ Exists(d) /\ rows'[d] = Gone
                                  \/ ~(d \in job[e].old /\ Exists(d)) /\ rows'[d] = rows[d]
BY GoneIs DEF Typed, DeleteExpired

(* The steps that go wrong. *)
Disturbs(e) == ObjectsStay(e) \/ JobFails(e) \/ JobDies(e)

LEMMA DisturbsIs ==
  ASSUME Typed, NEW e \in Executions, Disturbs(e)
  PROVE  /\ job' \in [Executions -> Job] /\ SameJobs(e)
         /\ job'[e].keys = {} /\ job'[e].old = {} /\ ~job'[e].shot
         /\ job'[e].pc \in {"select", "load", "record", "done"}
         /\ job'[e].pc = "select" => job[e].pc \in Unnamed
         /\ job[e].pc \in JobSteps /\ UNCHANGED <<monitor, rows, req, scheduler, alone>>
         /\ \/ objects' \in {objects, objects \cup {e}}
            \/ JobAt(e, "objects") /\ \E kept \in SUBSET job[e].keys : objects' = objects \ (job[e].keys \ kept)
<1> USE DEF Others
<1>1. CASE ObjectsStay(e)
  <2>1. JobDone(e) /\ JobAt(e, "objects") /\ UNCHANGED <<monitor, rows, req, scheduler, alone>>
        /\ \E kept \in SUBSET job[e].keys : objects' = objects \ (job[e].keys \ kept)
    BY <1>1 DEF ObjectsStay
  <2> QED
    BY <2>1, JobDoneIs DEF JobAt, JobSteps
<1>2. CASE JobFails(e)
  <2>1. UNCHANGED <<monitor, rows, req, scheduler, alone>> /\ objects' \in {objects, objects \cup {e}}
    BY <1>2 DEF JobFails, Interrupted
  <2>2. job[e].pc \in JobSteps
    BY <1>2 DEF JobFails, Refused, JobAt, JobSteps
  <2>3. Again(e) \/ job' = [job EXCEPT ![e] = [NoJob EXCEPT !.pc = "record"]]
    BY <1>2 DEF JobFails
  <2>4. CASE Again(e)
    BY <2>1, <2>2, <2>4, AgainIs
  <2>5. CASE job' = [job EXCEPT ![e] = [NoJob EXCEPT !.pc = "record"]]
    <3>1. /\ job' \in [Executions -> Job] /\ SameJobs(e) /\ job'[e].pc = "record"
          /\ job'[e].keys = {} /\ job'[e].old = {} /\ ~job'[e].shot
      BY <2>5, FreshIs DEF JobSteps
    <3> QED
      BY <2>1, <2>2, <3>1
  <2> QED
    BY <2>3, <2>4, <2>5
<1>3. CASE JobDies(e)
  <2>1. UNCHANGED <<monitor, rows, req, scheduler, alone>> /\ objects' \in {objects, objects \cup {e}}
    BY <1>3 DEF JobDies, Interrupted
  <2>2. job[e].pc \in JobSteps /\ Again(e)
    BY <1>3 DEF JobDies, Working
  <2> QED
    BY <2>1, <2>2, AgainIs
<1> QED
  BY <1>1, <1>2, <1>3 DEF Disturbs

LEMMA WorkShape ==
  ASSUME Shape, NEW e \in Executions, Fire(e) \/ Work(e) \/ Disturbs(e)
  PROVE  Shape'
<1> USE DEF Jobs, Configured, Others, JobOnly
<1>1. /\ Typed /\ Configured /\ monitor \in Monitors /\ job \in [Executions -> Job]
      /\ rows \in [Executions -> Row] /\ objects \subseteq Executions
      /\ job[e].keys \subseteq Executions /\ Keyed \subseteq Executions
  BY DEF Shape, Typed, Job, Keyed
<1>2. UNCHANGED monitor => Configured'
  BY <1>1
<1>3. CASE Fire(e)
  <2>1. job' \in [Executions -> Job]
    BY <1>1, <1>3, JobGoToIs DEF Fire, JobSteps
  <2> QED
    BY <1>1, <1>2, <1>3, <2>1, JobShape DEF Fire
<1>4. CASE SelectMonitor(e) \/ SelectFields(e)
  <2>1. job' \in [Executions -> Job]
    BY <1>1, <1>4, SelectMonitorIs, SelectFieldsIs, JobDoneIs DEF SelectMonitor
  <2> QED
    BY <1>1, <1>2, <1>4, <2>1, JobShape DEF SelectMonitor, SelectFields, JobAt
<1>5. CASE Insert(e)
  <2>1. job' \in [Executions -> Job] /\ rows' \in [Executions -> Row]
    BY <1>1, <1>5, InsertIs
  <2> QED
    BY <1>1, <1>2, <1>5, <2>1, JobShape DEF Insert, InsertWithoutForeignKey, JobAt
<1>6. CASE StoreScreenshot(e)
  <2>1. /\ job' \in [Executions -> Job] /\ job[e].pc = "store" /\ UNCHANGED <<monitor, rows, req, scheduler, alone>>
        /\ objects' \subseteq Executions
    BY <1>1, <1>6, StoreIs
  <2> QED
    BY <1>1, <1>2, <2>1, JobShape DEF JobAt
<1>12. CASE Load(e)
  BY <1>1, <1>2, <1>12, LoadIs, JobShape DEF JobAt
<1>13. CASE Record(e)
  <2>1. /\ job' \in [Executions -> Job] /\ job[e].pc = "record" /\ rows' \in [Executions -> Row]
        /\ monitor' \in Monitors /\ Configured' /\ UNCHANGED <<objects, scheduler, req, alone>>
    BY <1>1, <1>13, RecordIs
  <2> QED
    BY <1>1, <2>1, JobShape DEF JobAt
<1>7. CASE Commit(e)
  <2>1. /\ job' \in [Executions -> Job] /\ rows' \in [Executions -> Row]
        /\ monitor' \in Monitors /\ Configured'
    BY <1>1, <1>7, CommitIs
  <2> QED
    BY <1>1, <1>7, <2>1, JobShape DEF Commit, JobAt
<1>8. CASE SelectExpired(e)
  <2>1. job' \in [Executions -> Job]
    BY <1>1, <1>8, SelectExpiredIs, JobDoneIs
  <2> QED
    BY <1>1, <1>2, <1>8, <2>1, JobShape DEF SelectExpired, JobAt
<1>9. CASE DeleteExpired(e)
  <2>1. job' \in [Executions -> Job]
    BY <1>1, <1>9, JobGoToIs DEF DeleteExpired, JobSteps
  <2> QED
    BY <1>1, <1>2, <1>9, <2>1, DeleteExpiredIs, JobShape DEF DeleteExpired, JobAt
<1>10. CASE DeleteExpiredObjects(e)
  <2>1. job' \in [Executions -> Job] /\ objects' \subseteq Executions
    BY <1>1, <1>10, JobDoneIs DEF DeleteExpiredObjects
  <2> QED
    BY <1>1, <1>2, <1>10, <2>1, JobShape DEF DeleteExpiredObjects, JobAt
<1>11. CASE Disturbs(e)
  <2>1. /\ job' \in [Executions -> Job] /\ job[e].pc \in JobSteps /\ UNCHANGED <<monitor, rows, req, scheduler, alone>>
        /\ objects' \subseteq Executions
    BY <1>1, <1>11, DisturbsIs
  <2>2. ~JobAt(e, "absent")
    BY <2>1 DEF JobAt, JobSteps
  <2> QED
    BY <1>1, <1>2, <2>1, <2>2, JobShape
<1> QED
  BY <1>3, <1>4, <1>5, <1>6, <1>7, <1>8, <1>9, <1>10, <1>11, <1>12, <1>13 DEF Work

-----------------------------------------------------------------------------
(* The snapshots.  Requests only take rows away. *)
LEMMA RequestsKeepSnapshots ==
  ASSUME SnapshotInv, job' = job,
         monitor'.exists => monitor.exists \/ \A e \in Executions : JobAt(e, "absent"),
         \A e \in Executions : rows'[e] = rows[e] \/ rows'[e] = Gone
  PROVE  SnapshotInv'
<1>1. ASSUME NEW e \in Executions, Exists(e)' PROVE Exists(e) /\ rows'[e] = rows[e]
  BY <1>1, GoneIs DEF Exists
<1> QED
  BY <1>1 DEF SnapshotInv, JobAt

LEMMA RequestSnapshot ==
  ASSUME Shape, SnapshotInv, NEW r \in Requests,
         Request(r) \/ Handle(r) \/ Undo(r) \/ RequestFails(r) \/ RequestDies(r)
  PROVE  SnapshotInv'
<1> USE DEF Jobs
<1>1. Typed /\ \A e \in Executions : rows[e] \in Row
  BY DEF Shape, Typed
<1>2. CASE Create(r)
  <2>1. \A e \in Executions : JobAt(e, "absent")
    BY <1>2 DEF Shape, FirstInv, Untouched, Create
  <2> QED
    BY <1>2, <2>1, RequestsKeepSnapshots DEF Create
<1>3. CASE Undo(r) \/ DeleteRow(r)
  <2>1. \A e \in Executions : rows'[e] = rows[e] \/ rows'[e] = Gone
    BY <1>1, <1>3, RemoveRowsIs DEF Undo, DeleteRow
  <2>2. ~monitor'.exists /\ job' = job
    BY <1>3, Records DEF Undo, DeleteRow
  <2> QED
    BY <2>1, <2>2, RequestsKeepSnapshots
<1>4. CASE SetNext(r)
  <2>1. monitor'.exists = monitor.exists /\ UNCHANGED <<job, rows>>
    BY <1>4 DEF SetNext, Shape, Typed, Monitors
  <2> QED
    BY <2>1, RequestsKeepSnapshots
<1>5. CASE Update(r)
  <2>1. UNCHANGED <<job, rows>>
    BY <1>5 DEF Update
  <2>2. monitor'.exists => monitor.exists
    BY <1>5 DEF Update
  <2> QED
    BY <2>1, <2>2, RequestsKeepSnapshots
<1>6. ASSUME UNCHANGED <<monitor, job, rows>> PROVE SnapshotInv'
  BY <1>6, RequestsKeepSnapshots
<1>7. CASE Request(r)
  BY <1>6, <1>7 DEF Request, Arrive
<1>8. CASE RequestFails(r) \/ RequestDies(r)
  BY <1>6, <1>8 DEF RequestFails, RequestDies
<1>9. CASE Read(r) \/ Check(r) \/ Sync(r) \/ Peek(r) \/ Audit(r) \/ SelectKeys(r) \/ DeleteObjects(r)
           \/ Unschedule(r)
  BY <1>6, <1>9 DEF Read, Check, Sync, Peek, Audit, SelectKeys, DeleteObjects, Unschedule
<1> QED
  BY <1>2, <1>3, <1>4, <1>5, <1>7, <1>8, <1>9 DEF Handle

(* A job that ends, or moves on without a snapshot to insert. *)
LEMMA JobsKeepSnapshots ==
  ASSUME SnapshotInv, NEW e \in Executions, SameJobs(e), job'[e].pc \notin {"fields", "insert"},
         monitor'.exists = monitor.exists,
         \A d \in Executions : Exists(d)' => Exists(d) /\ rows'[d].url = rows[d].url
                                                      /\ rows'[d].fields = rows[d].fields
  PROVE  SnapshotInv'
BY DEF SnapshotInv, SameJobs

LEMMA WorkSnapshot ==
  ASSUME Shape, SnapshotInv, NEW e \in Executions, Fire(e) \/ Work(e) \/ Disturbs(e)
  PROVE  SnapshotInv'
<1> USE DEF Jobs, Others, JobOnly
<1>1. Typed /\ Configured /\ \A d \in Executions : rows[d] \in Row
  BY DEF Shape, Typed
<1>2. UNCHANGED rows => \A d \in Executions : Exists(d)' = Exists(d)
  BY DEF Exists
<1>3. CASE Fire(e)
  <2>1. SameJobs(e) /\ job'[e].pc = "select"
    BY <1>1, <1>3, JobGoToIs DEF Fire, JobSteps
  <2> QED
    BY <1>2, <1>3, <2>1, JobsKeepSnapshots DEF Fire
<1>4. CASE SelectMonitor(e)
  <2>1. CASE monitor.exists /\ monitor.active
    <3>1. SameJobs(e) /\ job'[e].pc = "fields" /\ job'[e].url = monitor.url
      BY <1>1, <1>4, <2>1, SelectMonitorIs
    <3>2. UNCHANGED <<rows, monitor>>
      BY <1>4 DEF SelectMonitor
    <3> QED
      BY <1>1, <1>2, <2>1, <3>1, <3>2 DEF SnapshotInv, SameJobs, Configured
  <2>2. CASE ~(monitor.exists /\ monitor.active)
    BY <1>1, <1>2, <1>4, <2>2, JobDoneIs, JobsKeepSnapshots DEF SelectMonitor
  <2> QED
    BY <2>1, <2>2
<1>5. CASE SelectFields(e)
  <2>1. /\ SameJobs(e) /\ job'[e].pc = "insert" /\ job'[e].url = job[e].url
        /\ job'[e].fields = monitor.fields
    BY <1>1, <1>5, SelectFieldsIs
  <2>2. UNCHANGED <<rows, monitor>> /\ job[e].pc = "fields"
    BY <1>5 DEF SelectFields, JobAt
  <2> QED
    BY <1>1, <1>2, <2>1, <2>2 DEF SnapshotInv, SameJobs, Configured
<1>6. CASE Insert(e)
  <2>1. /\ SameJobs(e) /\ job'[e].pc = "store"
        /\ rows'[e].url = job[e].url /\ rows'[e].fields = job[e].fields
        /\ \A d \in Executions \ {e} : rows'[d] = rows[d]
    BY <1>1, <1>6, InsertIs
  <2>2. UNCHANGED monitor /\ job[e].pc = "insert" /\ job[e].url > 0 /\ job[e].fields > 0
    BY <1>6 DEF Insert, InsertWithoutForeignKey, JobAt, SnapshotInv
  <2> QED
    BY <2>1, <2>2 DEF SnapshotInv, SameJobs, Exists
<1>7. CASE StoreScreenshot(e)
  BY <1>1, <1>2, <1>7, StoreIs, JobsKeepSnapshots
<1>12. CASE Load(e)
  BY <1>1, <1>2, <1>12, LoadIs, JobsKeepSnapshots
<1>13. CASE Record(e)
  <2>1. /\ SameJobs(e) /\ job'[e].pc \in {"load", "done"} /\ monitor'.exists = monitor.exists
        /\ rows'[e].url = rows[e].url /\ rows'[e].fields = rows[e].fields
        /\ \A d \in Executions \ {e} : rows'[d] = rows[d]
        /\ (rows'[e] = rows[e]) \/ Exists(e)
    BY <1>1, <1>13, RecordIs
  <2>2. \A d \in Executions : Exists(d)' => Exists(d) /\ rows'[d].url = rows[d].url
                                                    /\ rows'[d].fields = rows[d].fields
    BY <2>1 DEF Exists
  <2> QED
    BY <2>1, <2>2, JobsKeepSnapshots
<1>8. CASE Commit(e)
  <2>1. /\ SameJobs(e) /\ job'[e].pc = "expired" /\ monitor'.exists = monitor.exists
        /\ rows'[e].url = rows[e].url /\ rows'[e].fields = rows[e].fields
        /\ \A d \in Executions \ {e} : rows'[d] = rows[d]
    BY <1>1, <1>8, CommitIs
  <2>2. \A d \in Executions : Exists(d)' => Exists(d) /\ rows'[d].url = rows[d].url
                                                    /\ rows'[d].fields = rows[d].fields
    BY <1>8, <2>1 DEF Exists, Commit
  <2> QED
    BY <2>1, <2>2, JobsKeepSnapshots
<1>9. CASE SelectExpired(e)
  <2>1. SameJobs(e) /\ job'[e].pc \in {"purge", "done"}
    BY <1>1, <1>9, SelectExpiredIs, JobDoneIs
  <2> QED
    BY <1>2, <1>9, <2>1, JobsKeepSnapshots DEF SelectExpired
<1>10. CASE DeleteExpired(e)
  <2>1. SameJobs(e) /\ job'[e].pc = "objects"
    BY <1>1, <1>10, JobGoToIs DEF DeleteExpired, JobSteps
  <2>2. \A d \in Executions : Exists(d)' => Exists(d) /\ rows'[d].url = rows[d].url
                                                    /\ rows'[d].fields = rows[d].fields
    BY <1>1, <1>10, DeleteExpiredIs, GoneIs DEF Exists
  <2> QED
    BY <1>10, <2>1, <2>2, JobsKeepSnapshots DEF DeleteExpired
<1>11. CASE DeleteExpiredObjects(e)
  BY <1>1, <1>2, <1>11, JobDoneIs, JobsKeepSnapshots DEF DeleteExpiredObjects
<1>14. CASE Disturbs(e)
  BY <1>1, <1>2, <1>14, DisturbsIs, JobsKeepSnapshots
<1> QED
  BY <1>3, <1>4, <1>5, <1>6, <1>7, <1>8, <1>9, <1>10, <1>11, <1>12, <1>13, <1>14 DEF Work

-----------------------------------------------------------------------------
(* The schedule.  A request that moves is in flight, so that no other one   *)
(* is alone.                                                                *)
LEMMA RepairStays ==
  ASSUME RepairInv, NEW r \in Requests, Flying(r), Same(r),
         req'[r].alone => req[r].alone /\ Follows(r)',
         alone' => alone \/ (req[r].alone /\ UpdatesRepairTheSchedule' /\ ~Flying(r)')
  PROVE  RepairInv'
<1>1. ~alone
  BY DEF RepairInv
<1>2. \A q \in Requests \ {r} : ~req'[q].alone /\ (Flying(q)' <=> Flying(q))
  BY DEF RepairInv, Same, Flying
<1>3. req[r].alone => \A q \in Requests \ {r} : ~Flying(q)
  BY DEF RepairInv
<1> QED
  BY <1>1, <1>2, <1>3 DEF RepairInv

LEMMA AnswerRepair ==
  ASSUME Typed, RepairInv, NEW r \in Requests, NEW ok \in BOOLEAN, Answer(r, ok), Flying(r),
         ok /\ req[r].alone => UpdatesRepairTheSchedule'
  PROVE  RepairInv'
<1>1. Same(r) /\ req'[r].pc = "done" /\ ~req'[r].alone /\ (alone' => ok /\ req[r].alone)
  BY AnswerIs
<1> QED
  BY <1>1, RepairStays DEF Flying

LEMMA GoToRepair ==
  ASSUME Typed, RepairInv, NEW r \in Requests, NEW p \in RequestSteps, GoTo(r, p), Flying(r),
         alone' = alone, req[r].alone => Follows(r)'
  PROVE  RepairInv'
<1>1. Same(r) /\ req'[r].alone = req[r].alone
  BY GoToIs
<1> QED
  BY <1>1, RepairStays

LEMMA HandleRepair ==
  ASSUME Shape, RepairInv, NEW r \in Requests, Handle(r) \/ Undo(r)
  PROVE  RepairInv'
<1> USE DEF Jobs
<1>1. Typed /\ req[r] \in Reqs /\ monitor \in Monitors /\ Carries(req[r]) /\ (req[r].alone => Follows(r))
      /\ TRUE \in BOOLEAN /\ FALSE \in BOOLEAN
  BY DEF Shape, Typed, RepairInv
<1>2. CASE Create(r)
  <2>1. /\ Same(r) /\ req[r].pc = "create" /\ req'[r].pc = "sync" /\ req'[r].old = monitor'
        /\ req'[r].alone = req[r].alone /\ monitor'.exists /\ ~monitor'.next /\ alone' = alone
    BY <1>2, CreateIs
  <2>2. Follows(r)'
    BY <2>1 DEF Follows, At
  <2> QED
    BY <2>1, <2>2, RepairStays DEF Flying
<1>3. CASE Read(r)
  <2>0. req[r].pc = "read"
    BY <1>3 DEF Read, At
  <2>1. CASE monitor.exists
    <3>1. Same(r) /\ req'[r].pc = "check" /\ req'[r].alone = req[r].alone /\ alone' = alone
      BY <1>3, <2>1, ReadIs
    <3> QED
      BY <2>0, <3>1, RepairStays DEF Flying, Follows, At
  <2>2. CASE ~monitor.exists
    BY <1>1, <1>3, <2>0, <2>2, AnswerRepair DEF Read, Flying
  <2> QED
    BY <2>1, <2>2
<1>4. CASE Check(r)
  <2>1. req[r].pc = "check" /\ GoTo(r, "update") /\ alone' = alone /\ "update" \in RequestSteps
    BY <1>4 DEF Check, At, RequestSteps
  <2>2. req'[r].pc = "update"
    BY <1>1, <2>1, GoToIs
  <2> QED
    BY <1>1, <2>1, <2>2, GoToRepair DEF Flying, Follows, At
<1>5. CASE Update(r)
  <2>0. req[r].pc = "update"
    BY <1>5 DEF Update, At
  <2>1. CASE monitor.exists
    <3>1. /\ Same(r) /\ req'[r].pc = "sync" /\ req'[r].alone = req[r].alone /\ alone' = alone
          /\ monitor'.exists /\ req'[r].old = monitor' /\ req'[r].kind = "patch"
      BY <1>5, <2>1, UpdateIs
    <3>2. Follows(r)'
      BY <3>1 DEF Follows, At
    <3> QED
      BY <2>0, <3>1, <3>2, RepairStays DEF Flying
  <2>2. CASE ~monitor.exists
    BY <1>1, <1>5, <2>0, <2>2, AnswerRepair DEF Update, Flying
  <2> QED
    BY <2>1, <2>2
<1>6. CASE Sync(r)
  <2>1. /\ req[r].pc = "sync" /\ scheduler' = Scheduled(req[r].old) /\ alone' = alone
        /\ GoTo(r, IF scheduler' THEN "peek" ELSE "next") /\ monitor' = monitor
    BY <1>6 DEF Sync, At
  <2> DEFINE p == IF scheduler' THEN "peek" ELSE "next"
  <2>2. p \in RequestSteps /\ GoTo(r, p)
    BY <2>1 DEF RequestSteps
  <2>3. p \in {"peek", "next"} /\ (p = "next" => scheduler' = FALSE)
    BY <2>1 DEF Scheduled
  <2> HIDE DEF p
  <2>4. req'[r].pc = p /\ req'[r].next = req[r].next /\ req'[r].kind = req[r].kind
    BY <1>1, <2>2, GoToIs
  <2>5. ~req[r].next
    BY <1>1, <2>1 DEF Carries
  <2>6. req[r].next = FALSE
    BY <1>1, <2>5 DEF Reqs
  <2>7. ASSUME req[r].alone PROVE Follows(r)'
    BY <1>1, <2>1, <2>3, <2>4, <2>6, <2>7 DEF Follows, At
  <2> QED
    BY <1>1, <2>1, <2>2, <2>7, GoToRepair DEF Flying
<1>7. CASE Peek(r)
  <2>1. /\ Same(r) /\ req[r].pc = "peek" /\ req'[r].pc = "next" /\ req'[r].next = scheduler
        /\ req'[r].kind = req[r].kind /\ req'[r].alone = req[r].alone
    BY <1>7, PeekIs
  <2>2. UNCHANGED <<monitor, scheduler, alone>>
    BY <1>7 DEF Peek
  <2>3. ASSUME req[r].alone PROVE Follows(r)'
    BY <1>1, <2>1, <2>2, <2>3 DEF Follows, At
  <2> QED
    BY <2>1, <2>2, <2>3, RepairStays DEF Flying
<1>8. CASE SetNext(r)
  <2>1. req[r].pc = "next" /\ GoTo(r, "audit") /\ UNCHANGED <<scheduler, alone>> /\ "audit" \in RequestSteps
        /\ monitor' = IF monitor.exists /\ (req[r].kind = "patch" \/ req[r].next)
                        THEN [monitor EXCEPT !.next = req[r].next] ELSE monitor
    BY <1>8 DEF SetNext, At, RequestSteps
  <2>2. req'[r].pc = "audit"
    BY <1>1, <2>1, GoToIs
  <2>3. /\ monitor'.exists = monitor.exists /\ monitor'.active = monitor.active
        /\ monitor'.schedule = monitor.schedule
    BY <1>1, <2>1 DEF Monitors
  <2>4. ASSUME req[r].alone PROVE monitor'.next = scheduler
    <3>1. monitor.exists /\ req[r].next = scheduler /\ (req[r].kind = "post" => monitor.next = FALSE)
      BY <1>1, <2>1, <2>4 DEF Follows, At, Monitors
    <3>2. req[r].kind \in {"post", "patch"}
      BY <1>1, <2>1 DEF Carries
    <3>3. CASE req[r].kind = "patch" \/ req[r].next
      BY <1>1, <2>1, <3>1, <3>3 DEF Monitors
    <3>4. CASE ~(req[r].kind = "patch" \/ req[r].next)
      <4>1. monitor'.next = FALSE
        BY <2>1, <3>1, <3>2, <3>4
      <4>2. req[r].next = FALSE
        BY <1>1, <3>4 DEF Reqs
      <4> QED
        BY <3>1, <4>1, <4>2
    <3> QED
      BY <3>3, <3>4
  <2>5. ASSUME req[r].alone PROVE Follows(r)'
    <3>1. monitor.exists /\ scheduler = Scheduled(monitor)
      BY <1>1, <2>1, <2>5 DEF Follows, At
    <3>2. Scheduled(monitor') = Scheduled(monitor)
      BY <2>3 DEF Scheduled
    <3> QED
      BY <2>1, <2>2, <2>3, <2>4, <2>5, <3>1, <3>2 DEF Follows, At
  <2> QED
    BY <1>1, <2>1, <2>5, GoToRepair DEF Flying
<1>9. CASE Audit(r)
  <2>1. req[r].pc = "audit" /\ Answer(r, TRUE) /\ UNCHANGED <<monitor, scheduler>>
    BY <1>9 DEF Audit, At
  <2>2. ASSUME req[r].alone PROVE UpdatesRepairTheSchedule'
    <3>1. monitor.exists /\ scheduler = Scheduled(monitor) /\ monitor.next = scheduler
      BY <1>1, <2>1, <2>2 DEF Follows, At
    <3>2. scheduler = (monitor.exists /\ Scheduled(monitor))
      BY <3>1 DEF Scheduled
    <3>3. scheduler' = (monitor'.exists /\ Scheduled(monitor)') /\ monitor'.next = scheduler'
      BY <2>1, <3>1, <3>2 DEF Scheduled
    <3> QED
      BY <3>3 DEF UpdatesRepairTheSchedule
  <2> QED
    BY <1>1, <2>1, <2>2, AnswerRepair DEF Flying
<1>10. CASE Undo(r)
  BY <1>1, <1>10, AnswerRepair DEF Undo, At, Flying
<1>11. CASE SelectKeys(r)
  <2>0. req[r].pc = "keys"
    BY <1>11 DEF SelectKeys, At
  <2>1. CASE monitor.exists
    <3>1. Same(r) /\ req'[r].pc = "objects" /\ req'[r].alone = req[r].alone /\ alone' = alone
      BY <1>11, <2>1, SelectKeysIs
    <3> QED
      BY <2>0, <3>1, RepairStays DEF Flying, Follows, At
  <2>2. CASE ~monitor.exists
    BY <1>1, <1>11, <2>0, <2>2, AnswerRepair DEF SelectKeys, Flying
  <2> QED
    BY <2>1, <2>2
<1>12. CASE DeleteObjects(r)
  <2>1. req[r].pc = "objects" /\ GoTo(r, "unschedule") /\ alone' = alone /\ "unschedule" \in RequestSteps
    BY <1>12 DEF DeleteObjects, At, RequestSteps
  <2>2. req'[r].pc = "unschedule"
    BY <1>1, <2>1, GoToIs
  <2> QED
    BY <1>1, <2>1, <2>2, GoToRepair DEF Flying, Follows, At
<1>13. CASE Unschedule(r)
  <2>1. /\ req[r].pc = "unschedule" /\ GoTo(r, "delete") /\ alone' = alone /\ "delete" \in RequestSteps
        /\ scheduler' = FALSE
    BY <1>13 DEF Unschedule, At, RequestSteps
  <2>2. req'[r].pc = "delete"
    BY <1>1, <2>1, GoToIs
  <2> QED
    BY <1>1, <2>1, <2>2, GoToRepair DEF Flying, Follows, At
<1>14. CASE DeleteRow(r)
  <2>1. req[r].pc = "delete" /\ Answer(r, TRUE) /\ UNCHANGED scheduler /\ monitor' = NoMonitor
    BY <1>14 DEF DeleteRow, At
  <2>2. req[r].alone => UpdatesRepairTheSchedule'
    BY <1>1, <2>1, Records DEF Follows, At, UpdatesRepairTheSchedule, Shape, Typed, Monitors
  <2> QED
    BY <1>1, <2>1, <2>2, AnswerRepair DEF Flying
<1> QED
  BY <1>2, <1>3, <1>4, <1>5, <1>6, <1>7, <1>8, <1>9, <1>10, <1>11, <1>12, <1>13, <1>14 DEF Handle

LEMMA RequestRepair ==
  ASSUME Shape, RepairInv, NEW r \in Requests, Request(r)
  PROVE  RepairInv'
<1>1. ASSUME NEW kind \in {"post", "patch", "delete"}, NEW body \in Body \cup {Keep},
             NEW first \in RequestSteps, Arrive(r, kind, body, first),
             first \in {"create", "read", "keys"}
      PROVE  RepairInv'
  <2>1. Typed
    BY DEF Shape
  <2>2. Arrived(r, kind, body, first)
    BY <1>1, <2>1, ArriveIs
  <2>3. /\ alone' = FALSE /\ req'[r].pc = first
        /\ req'[r].alone => \A q \in Requests : ~Flying(q)
        /\ \A q \in Requests \ {r} : req'[q].pc = req[q].pc /\ ~req'[q].alone
    BY <2>2 DEF Arrived
  <2>4. Follows(r)'
    BY <1>1, <2>3 DEF Follows, At
  <2>5. \A q \in Requests \ {r} : Flying(q)' <=> Flying(q)
    BY <2>3 DEF Flying
  <2> QED
    BY <2>3, <2>4, <2>5 DEF RepairInv
<1>2. ASSUME NEW s \in {"manual", "hourly"}, NEW a \in {"yes", "no"}
      PROVE  [schedule |-> s, active |-> a, url |-> TRUE, fields |-> TRUE] \in Body
  BY DEF Body
<1>3. \A b \in Bodies : b \in Body
  BY ApiConstants DEF Body
<1> QED
  BY <1>1, <1>2, <1>3 DEF Request, RequestSteps

LEMMA RequestEndsRepair ==
  ASSUME Shape, RepairInv, NEW r \in Requests, RequestFails(r) \/ RequestDies(r)
  PROVE  RepairInv'
<1>1. Typed /\ FALSE \in BOOLEAN /\ "undo" \in RequestSteps
  BY DEF Shape, RequestSteps
<1>2. CASE RequestFails(r)
  <2>1. Flying(r)
    BY <1>2, ApiConstants DEF RequestFails, RequestSteps, JobSteps, Flying
  <2>2. CASE req[r].kind = "post" /\ req[r].pc \in {"sync", "peek", "next"}
    <3>1. GoTo(r, "undo") /\ alone' = alone
      BY <1>2, <2>2 DEF RequestFails
    <3>2. req'[r].pc = "undo"
      BY <1>1, <3>1, GoToIs
    <3>3. Follows(r)'
      BY <3>2 DEF Follows, At
    <3> QED
      BY <1>1, <2>1, <3>1, <3>3, GoToRepair
  <2>3. CASE ~(req[r].kind = "post" /\ req[r].pc \in {"sync", "peek", "next"})
    <3>1. Answer(r, FALSE)
      BY <1>2, <2>3 DEF RequestFails
    <3> QED
      BY <1>1, <2>1, <3>1, AnswerRepair
  <2> QED
    BY <2>2, <2>3
<1>3. CASE RequestDies(r)
  BY <1>1, <1>3, AnswerRepair DEF RequestDies, InFlight, Flying
<1> QED
  BY <1>2, <1>3

(* The transaction of a job writes the status of the monitor and no more.   *)
LEMMA WorkRepair ==
  ASSUME Shape, RepairInv, NEW e \in Executions, Fire(e) \/ Work(e) \/ Disturbs(e)
  PROVE  RepairInv'
<1> USE DEF Jobs, Others, JobOnly
<1>0. Typed
  BY DEF Shape
<1>1. UNCHANGED <<scheduler, req, alone>>
  <2>1. CASE Disturbs(e)
    BY <1>0, <2>1, DisturbsIs
  <2> QED
    BY <2>1 DEF Fire, Work, SelectMonitor, SelectFields, Insert, InsertWithoutForeignKey, Load,
                StoreScreenshot, Commit, Record, SelectExpired, DeleteExpired, DeleteExpiredObjects
<1>2. /\ monitor'.exists = monitor.exists /\ monitor'.schedule = monitor.schedule
      /\ monitor'.active = monitor.active /\ monitor'.next = monitor.next
  <2>1. CASE Commit(e)
    BY <1>0, <2>1, CommitIs
  <2>2. CASE Record(e)
    BY <1>0, <2>2, RecordIs
  <2>3. CASE Disturbs(e)
    BY <1>0, <2>3, DisturbsIs
  <2>4. CASE ~Commit(e) /\ ~Record(e) /\ ~Disturbs(e)
    BY <2>4 DEF Fire, Work, SelectMonitor, SelectFields, Insert, InsertWithoutForeignKey, Load,
                StoreScreenshot, SelectExpired, DeleteExpired, DeleteExpiredObjects
  <2> QED
    BY <2>1, <2>2, <2>3, <2>4
<1>3. Scheduled(monitor') = Scheduled(monitor)
  BY <1>2 DEF Scheduled
<1>4. \A r \in Requests : (Follows(r)' <=> Follows(r)) /\ (Flying(r)' <=> Flying(r))
  BY <1>1, <1>2, <1>3 DEF Follows, At, Flying
<1>5. UpdatesRepairTheSchedule' <=> UpdatesRepairTheSchedule
  BY <1>1, <1>2, <1>3 DEF UpdatesRepairTheSchedule
<1> QED
  BY <1>1, <1>4, <1>5 DEF RepairInv

-----------------------------------------------------------------------------

-----------------------------------------------------------------------------
(* What a request can do to rows, keys and objects.                         *)
Effect(r) ==
  /\ job' = job /\ objects' \subseteq objects /\ objects \ objects' \subseteq req[r].keys
  /\ \A e \in Executions : \/ rows'[e] = rows[e]
                           \/ Exists(e) /\ rows'[e] = Gone
  /\ \A q \in Requests \ {r} : req'[q].pc = req[q].pc /\ req'[q].keys = req[q].keys
  /\ req[r].keys \subseteq req'[r].keys
  /\ req'[r].pc \in Deleting => \/ req[r].pc \in Deleting /\ req'[r].keys = req[r].keys
                                \/ req'[r].keys = Keyed
  /\ req'[r].pc \in {"unschedule", "delete"} =>
       /\ req'[r].keys = req[r].keys /\ req[r].pc \in Deleting
       /\ req[r].pc \in {"unschedule", "delete"} \/ objects' = objects \ req[r].keys
  /\ rows' = rows \/ DeleteRow(r) \/ Undo(r)

LEMMA AnswerEffect ==
  ASSUME Typed, NEW r \in Requests, NEW ok \in BOOLEAN, Answer(r, ok), UNCHANGED <<rows, job>>,
         objects' \subseteq objects, objects \ objects' \subseteq req[r].keys
  PROVE  Effect(r)
<1>1. Same(r) /\ req'[r].pc = "done" /\ req'[r].keys = req[r].keys
  BY AnswerIs
<1> QED
  BY <1>1 DEF Effect, Same, Deleting

LEMMA MoveEffect ==
  ASSUME NEW r \in Requests, Same(r), req'[r].keys = req[r].keys, UNCHANGED <<rows, objects, job>>,
         req'[r].pc \in {"unschedule", "delete"} => req[r].pc \in {"unschedule", "delete"},
         req'[r].pc # "objects"
  PROVE  Effect(r)
BY DEF Effect, Same, Deleting

LEMMA HandleEffect ==
  ASSUME Shape, NEW r \in Requests, Handle(r) \/ Undo(r)
  PROVE  Effect(r)
<1> USE DEF Jobs
<1>1. Typed /\ TRUE \in BOOLEAN /\ FALSE \in BOOLEAN
  BY DEF Shape
<1>2. CASE Create(r)
  BY <1>2, CreateIs, MoveEffect
<1>3. CASE Read(r)
  <2>1. CASE monitor.exists
    <3>1. Same(r) /\ req'[r].pc = "check" /\ req'[r].keys = req[r].keys
      BY <1>3, <2>1, ReadIs
    <3> QED
      BY <1>3, <3>1, MoveEffect DEF Read
  <2>2. CASE ~monitor.exists
    BY <1>1, <1>3, <2>2, AnswerEffect DEF Read
  <2> QED
    BY <2>1, <2>2
<1>4. CASE Check(r)
  <2>1. Same(r) /\ req'[r].pc = "update" /\ req'[r].keys = req[r].keys
    BY <1>1, <1>4, GoToIs DEF Check, RequestSteps
  <2> QED
    BY <1>4, <2>1, MoveEffect DEF Check
<1>5. CASE Update(r)
  <2>1. CASE monitor.exists
    <3>1. Same(r) /\ req'[r].pc = "sync" /\ req'[r].keys = req[r].keys
      BY <1>5, <2>1, UpdateIs
    <3> QED
      BY <1>5, <3>1, MoveEffect DEF Update
  <2>2. CASE ~monitor.exists
    BY <1>1, <1>5, <2>2, AnswerEffect DEF Update
  <2> QED
    BY <2>1, <2>2
<1>6. CASE Sync(r)
  <2>1. Same(r) /\ req'[r].pc \in {"peek", "next"} /\ req'[r].keys = req[r].keys
    BY <1>1, <1>6, GoToIs DEF Sync, RequestSteps
  <2> QED
    BY <1>6, <2>1, MoveEffect DEF Sync
<1>7. CASE Peek(r)
  <2>1. Same(r) /\ req'[r].pc = "next" /\ req'[r].keys = req[r].keys
    BY <1>7, PeekIs
  <2> QED
    BY <1>7, <2>1, MoveEffect DEF Peek
<1>8. CASE SetNext(r)
  <2>1. Same(r) /\ req'[r].pc = "audit" /\ req'[r].keys = req[r].keys
    BY <1>1, <1>8, GoToIs DEF SetNext, RequestSteps
  <2> QED
    BY <1>8, <2>1, MoveEffect DEF SetNext
<1>9. CASE Audit(r)
  BY <1>1, <1>9, AnswerEffect DEF Audit
<1>10. CASE Undo(r) \/ DeleteRow(r)
  <2>1. Same(r) /\ req'[r].pc = "done" /\ req'[r].keys = req[r].keys
    BY <1>1, <1>10, AnswerIs DEF Undo, DeleteRow
  <2>2. \A e \in Executions : \/ rows'[e] = rows[e]
                              \/ Exists(e) /\ rows'[e] = Gone
    BY <1>1, <1>10, RemoveRowsIs DEF Undo, DeleteRow
  <2> QED
    BY <1>10, <2>1, <2>2 DEF Undo, DeleteRow, Effect, Same, Deleting
<1>11. CASE SelectKeys(r)
  <2>1. CASE monitor.exists
    <3>1. Same(r) /\ req'[r].pc = "objects" /\ req'[r].keys = Keyed /\ req[r].keys = {}
      BY <1>11, <2>1, SelectKeysIs
    <3> QED
      BY <1>11, <3>1 DEF SelectKeys, Effect, Same
  <2>2. CASE ~monitor.exists
    BY <1>1, <1>11, <2>2, AnswerEffect DEF SelectKeys
  <2> QED
    BY <2>1, <2>2
<1>12. CASE DeleteObjects(r)
  <2>1. Same(r) /\ req'[r].pc = "unschedule" /\ req'[r].keys = req[r].keys
    BY <1>1, <1>12, GoToIs DEF DeleteObjects, RequestSteps
  <2>2. req[r].pc = "objects" /\ objects' = objects \ req[r].keys /\ UNCHANGED <<job, rows>>
    BY <1>12 DEF DeleteObjects, At
  <2> QED
    BY <2>1, <2>2 DEF Effect, Same, Deleting
<1>13. CASE Unschedule(r)
  <2>1. Same(r) /\ req'[r].pc = "delete" /\ req'[r].keys = req[r].keys /\ req[r].pc = "unschedule"
    BY <1>1, <1>13, GoToIs DEF Unschedule, RequestSteps, At
  <2> QED
    BY <1>13, <2>1, MoveEffect DEF Unschedule
<1> QED
  BY <1>2, <1>3, <1>4, <1>5, <1>6, <1>7, <1>8, <1>9, <1>10, <1>11, <1>12, <1>13 DEF Handle

LEMMA RequestEffect ==
  ASSUME Shape, NEW r \in Requests, Request(r)
  PROVE  Effect(r)
<1>1. ASSUME NEW kind \in {"post", "patch", "delete"}, NEW body \in Body \cup {Keep},
             NEW first \in RequestSteps, Arrive(r, kind, body, first),
             first \in {"create", "read", "keys"}
      PROVE  Effect(r)
  <2>1. Typed
    BY DEF Shape
  <2>2. Arrived(r, kind, body, first)
    BY <1>1, <2>1, ArriveIs
  <2>3. req[r].pc = "idle" /\ req'[r].pc = first /\ req'[r].keys = {}
    BY <2>2 DEF Arrived
  <2>4. req[r].keys = {}
    BY <2>3 DEF Shape, Carries
  <2>5. \A q \in Requests \ {r} : req'[q].pc = req[q].pc /\ req'[q].keys = req[q].keys
    BY <2>2 DEF Arrived
  <2>6. UNCHANGED <<rows, objects, job>>
    BY <1>1 DEF Arrive, Jobs
  <2> QED
    BY <1>1, <2>3, <2>4, <2>5, <2>6 DEF Effect, Deleting
<1>2. ASSUME NEW s \in {"manual", "hourly"}, NEW a \in {"yes", "no"}
      PROVE  [schedule |-> s, active |-> a, url |-> TRUE, fields |-> TRUE] \in Body
  BY DEF Body
<1>3. \A b \in Bodies : b \in Body
  BY ApiConstants DEF Body
<1> QED
  BY <1>1, <1>2, <1>3 DEF Request, RequestSteps

LEMMA RequestEndsEffect ==
  ASSUME Shape, NEW r \in Requests, RequestFails(r) \/ RequestDies(r)
  PROVE  Effect(r)
<1> USE DEF Jobs
<1>1. Typed /\ FALSE \in BOOLEAN
  BY DEF Shape
<1>2. CASE RequestFails(r)
  <2>1. UNCHANGED <<rows, job>> /\ objects' \subseteq objects /\ objects \ objects' \subseteq req[r].keys
    BY <1>2 DEF RequestFails
  <2>2. CASE Answer(r, FALSE)
    BY <1>1, <2>1, <2>2, AnswerEffect
  <2>3. CASE ~Answer(r, FALSE)
    <3>1. GoTo(r, "undo") /\ objects' = objects
      BY <1>2, <2>3 DEF RequestFails, At
    <3>2. Same(r) /\ req'[r].pc = "undo" /\ req'[r].keys = req[r].keys
      BY <1>1, <3>1, GoToIs DEF RequestSteps
    <3> QED
      BY <2>1, <3>1, <3>2, MoveEffect
  <2> QED
    BY <2>2, <2>3
<1>3. CASE RequestDies(r)
  BY <1>1, <1>3, AnswerEffect DEF RequestDies
<1> QED
  BY <1>2, <1>3

(* The screenshots under a step of a request. *)
LEMMA RequestNamed ==
  ASSUME Typed, RowInv, NamedInv, NEW r \in Requests, Effect(r)
  PROVE  RowInv' /\ NamedInv'
<1>1. \A e \in Executions : \/ rows'[e] = rows[e]
                            \/ Exists(e) /\ rows'[e].status = "deleted" /\ ~rows'[e].key
  BY GoneIs DEF Effect
<1>2. job' = job /\ \A e \in Executions : /\ Exists(e)' => Exists(e) /\ rows'[e] = rows[e]
                                          /\ rows[e].status = "deleted" => rows'[e].status = "deleted"
                                          /\ rows[e].status # "absent" => rows'[e].status # "absent"
                                          /\ rows'[e].key => rows[e].key /\ rows'[e] = rows[e]
  BY <1>1 DEF Effect, Exists
<1>3. \A e \in Executions : Found(e) => Found(e)'
  <2>1. \A q \in Requests : req[q].keys \subseteq req'[q].keys
    BY DEF Effect
  <2> QED
    BY <2>1 DEF Effect, Found
<1>4. RowInv'
  BY <1>1, <1>2 DEF RowInv, Exists
<1>5. ASSUME NEW e \in Executions PROVE rows'[e].key => Exists(e)' /\ Found(e)'
  BY <1>2, <1>3 DEF NamedInv, Exists
<1>6. ASSUME NEW e \in Executions PROVE (JobAt(e, "commit") /\ job[e].shot)' => Found(e)' \/ ~Exists(e)'
  BY <1>2, <1>3 DEF NamedInv, JobAt
<1>7. ASSUME NEW e \in Executions
      PROVE  /\ JobAt(e, "purge")' => /\ job'[e].keys \subseteq job'[e].old
                                      /\ \A x \in job'[e].old : rows'[x].status # "absent"
             /\ JobAt(e, "objects")' => \A x \in job'[e].keys : rows'[x].status = "deleted"
  <2>1. job[e].keys \subseteq Executions /\ job[e].old \subseteq Executions
    BY DEF Typed, Job
  <2> QED
    BY <1>2, <2>1 DEF NamedInv, JobAt
<1> QED
  BY <1>4, <1>5, <1>6, <1>7 DEF NamedInv

(* Deletions work from complete lists; a failed creation disturbs the calm. *)
LEMMA RequestCalm ==
  ASSUME Typed, NamedInv, CalmInv, NEW r \in Requests, Effect(r),
         calm' => calm /\ ~Overlap', calm' => (rows' = rows) \/ DeleteRow(r)
  PROVE  CalmInv'
<1> SUFFICES ASSUME calm'
             PROVE  /\ \A x \in objects' : /\ InHand(x)' /\ job'[x].pc \notin NotStored
                                           /\ JobAt(x, "commit")' => job'[x].shot
                    /\ \A q \in Requests :
                         /\ req'[q].pc \in Deleting => Keyed' \subseteq req'[q].keys
                         /\ req'[q].pc \in {"unschedule", "delete"} => req'[q].keys \cap objects' = {}
                    /\ \A e \in Executions : JobAt(e, "purge")' => job'[e].old \cap Keyed' \subseteq job'[e].keys
  BY DEF CalmInv
<1>1. /\ calm /\ job' = job /\ objects' \subseteq objects
      /\ \A x \in objects : InHand(x) /\ job[x].pc \notin NotStored /\ (JobAt(x, "commit") => job[x].shot)
      /\ \A q \in Requests : /\ req[q].pc \in Deleting => Keyed \subseteq req[q].keys
                             /\ req[q].pc \in {"unschedule", "delete"} => req[q].keys \cap objects = {}
      /\ \A e \in Executions : JobAt(e, "purge") => job[e].old \cap Keyed \subseteq job[e].keys
  BY DEF CalmInv, Effect
<1>2. \A e \in Executions : \/ rows'[e] = rows[e]
                            \/ Exists(e) /\ ~rows'[e].key
  BY GoneIs DEF Effect
<1>3. Keyed' \subseteq Keyed
  BY <1>2 DEF Keyed
<1>4. \A x \in objects' : InHand(x)'
  <2>1. SUFFICES ASSUME NEW x \in objects' PROVE InHand(x)'
    OBVIOUS
  <2>2. x \in objects /\ x \in Executions
    BY <1>1 DEF Typed
  <2>3. CASE rows' = rows
    BY <1>1, <2>2, <2>3 DEF InHand, JobAt
  <2>4. CASE DeleteRow(r)
    <3>1. ~rows[x].key
      BY <1>1, <2>2, <2>4 DEF DeleteRow, At, Deleting, Keyed
    <3> QED
      BY <1>1, <2>2, <3>1 DEF InHand, JobAt
  <2> QED
    BY <2>3, <2>4
<1>5. ASSUME NEW q \in Requests
      PROVE  /\ req'[q].pc \in Deleting => Keyed' \subseteq req'[q].keys
             /\ req'[q].pc \in {"unschedule", "delete"} => req'[q].keys \cap objects' = {}
  <2>1. CASE q # r
    BY <1>1, <1>3, <2>1 DEF Effect
  <2>2. CASE q = r
    BY <1>1, <1>3, <2>2 DEF Effect
  <2> QED
    BY <2>1, <2>2
<1> QED
  BY <1>1, <1>3, <1>4, <1>5 DEF JobAt

(* The screenshots under a step of job e: what it has to show for itself.   *)
LEMMA JobNamed ==
  ASSUME Typed, NamedInv, NEW e \in Executions, job' \in [Executions -> Job], SameJobs(e), req' = req,
         \A x \in Executions \ {e} : \/ rows'[x] = rows[x]
                                     \/ rows'[x].status = "deleted" /\ ~rows'[x].key /\ Exists(x),
         rows[e].status # "absent" => rows'[e].status # "absent",
         rows[e].status = "deleted" => rows'[e].status = "deleted",
         \A x \in objects \ objects' : x \in Executions /\ rows'[x].status = "deleted",
         rows'[e].key => Exists(e)' /\ (rows[e].key \/ Found(e)'),
         (JobAt(e, "commit") /\ job[e].shot)' => Found(e)',
         JobAt(e, "purge")' => /\ job'[e].keys \subseteq job'[e].old
                               /\ \A x \in job'[e].old : rows'[x].status # "absent",
         JobAt(e, "objects")' => \A x \in job'[e].keys : rows'[x].status = "deleted"
  PROVE  NamedInv'
<1>1. \A x \in Executions : Found(x) => Found(x)' \/ rows'[x].status = "deleted"
  BY DEF Found
<1>2. ASSUME NEW x \in Executions PROVE rows'[x].key => Exists(x)' /\ Found(x)'
  <2>1. CASE x = e
    BY <1>1, <2>1 DEF NamedInv, Exists
  <2>2. CASE x # e
    BY <1>1, <2>2 DEF NamedInv, Exists
  <2> QED
    BY <2>1, <2>2
<1>3. ASSUME NEW x \in Executions PROVE (JobAt(x, "commit") /\ job[x].shot)' => Found(x)' \/ ~Exists(x)'
  <2>1. CASE x # e
    <3>1. job'[x] = job[x] /\ (Exists(x)' => Exists(x))
      BY <2>1 DEF SameJobs, Exists
    <3>2. ASSUME (JobAt(x, "commit") /\ job[x].shot)' PROVE Found(x)' \/ ~Exists(x)'
      <4>1. Found(x) \/ ~Exists(x)
        BY <3>1, <3>2 DEF NamedInv, JobAt
      <4> QED
        BY <1>1, <3>1, <4>1 DEF Exists
    <3> QED
      BY <3>2
  <2> QED
    BY <2>1
<1>4. ASSUME NEW d \in Executions
      PROVE  /\ JobAt(d, "purge")' => /\ job'[d].keys \subseteq job'[d].old
                                      /\ \A x \in job'[d].old : rows'[x].status # "absent"
             /\ JobAt(d, "objects")' => \A x \in job'[d].keys : rows'[x].status = "deleted"
  <2>1. CASE d # e
    <3>1. job'[d] = job[d] /\ job[d].keys \subseteq Executions /\ job[d].old \subseteq Executions
      BY <2>1 DEF SameJobs, Typed, Job
    <3>2. \A x \in Executions : /\ rows[x].status # "absent" => rows'[x].status # "absent"
                                /\ rows[x].status = "deleted" => rows'[x].status = "deleted"
      BY DEF Exists
    <3> QED
      BY <3>1, <3>2 DEF NamedInv, JobAt
  <2> QED
    BY <2>1
<1> QED
  BY <1>2, <1>3, <1>4 DEF NamedInv

LEMMA JobRows ==
  ASSUME RowInv, NEW e \in Executions, SameJobs(e),
         \A x \in Executions \ {e} : rows'[x] = rows[x] \/ Exists(x),
         job'[e].pc \in BeforeRow => job[e].pc \in BeforeRow /\ rows'[e] = rows[e]
  PROVE  RowInv'
BY DEF RowInv, SameJobs, Exists

LEMMA WorkNamed ==
  ASSUME Shape, RowInv, NamedInv, NEW e \in Executions, Fire(e) \/ Work(e) \/ Disturbs(e)
  PROVE  RowInv' /\ NamedInv'
<1> USE DEF JobOnly, Others
<1>1. Typed
  BY DEF Shape
<1>2. ASSUME job' \in [Executions -> Job], SameJobs(e), UNCHANGED <<rows, objects, req>>,
             job'[e].pc \in BeforeRow => job[e].pc \in BeforeRow,
             ~JobAt(e, "commit")', ~JobAt(e, "purge")', ~JobAt(e, "objects")'
      PROVE  RowInv' /\ NamedInv'
  <2>1. RowInv'
    BY <1>2, JobRows
  <2>2. rows'[e].key => Exists(e)' /\ (rows[e].key \/ Found(e)')
    BY <1>2 DEF NamedInv, Exists
  <2> QED
    BY <1>1, <1>2, <2>1, <2>2, JobNamed
<1>3. ASSUME JobDone(e), UNCHANGED <<rows, objects, req>> PROVE RowInv' /\ NamedInv'
  <2>1. job' \in [Executions -> Job] /\ SameJobs(e) /\ job'[e].pc = "done"
    BY <1>1, <1>3, JobDoneIs
  <2> QED
    BY <1>2, <1>3, <2>1 DEF BeforeRow, JobAt
<1>4. CASE Fire(e)
  <2>1. job' \in [Executions -> Job] /\ SameJobs(e) /\ job'[e].pc = "select"
    BY <1>1, <1>4, JobGoToIs DEF Fire, JobSteps
  <2> QED
    BY <1>2, <1>4, <2>1 DEF Fire, BeforeRow, JobAt
<1>5. CASE SelectMonitor(e)
  <2>1. CASE monitor.exists /\ monitor.active
    <3>1. job' \in [Executions -> Job] /\ SameJobs(e) /\ job'[e].pc = "fields"
      BY <1>1, <1>5, <2>1, SelectMonitorIs
    <3> QED
      BY <1>2, <1>5, <3>1 DEF SelectMonitor, BeforeRow, JobAt
  <2>2. CASE ~(monitor.exists /\ monitor.active)
    BY <1>3, <1>5, <2>2 DEF SelectMonitor
  <2> QED
    BY <2>1, <2>2
<1>6. CASE SelectFields(e)
  <2>1. job' \in [Executions -> Job] /\ SameJobs(e) /\ job'[e].pc = "insert"
    BY <1>1, <1>6, SelectFieldsIs
  <2> QED
    BY <1>2, <1>6, <2>1 DEF SelectFields, BeforeRow, JobAt
<1>7. CASE Insert(e)
  <2>1. /\ job' \in [Executions -> Job] /\ SameJobs(e) /\ job'[e].pc = "store"
        /\ rows'[e].status = "queued" /\ ~rows'[e].key /\ \A d \in Executions \ {e} : rows'[d] = rows[d]
    BY <1>1, <1>7, InsertIs
  <2>2. UNCHANGED <<objects, req>> /\ rows[e].status = "absent"
    BY <1>7 DEF Insert, InsertWithoutForeignKey, RowInv, JobAt, BeforeRow
  <2>3. RowInv'
    BY <2>1, JobRows DEF BeforeRow
  <2>4. ~JobAt(e, "commit")' /\ ~JobAt(e, "purge")' /\ ~JobAt(e, "objects")'
    BY <2>1 DEF JobAt
  <2> QED
    BY <1>1, <2>1, <2>2, <2>3, <2>4, JobNamed
<1>8. CASE Load(e)
  <2>1. job' \in [Executions -> Job] /\ SameJobs(e) /\ job'[e].pc \in {"store", "done"}
        /\ UNCHANGED <<rows, objects, req>>
    BY <1>1, <1>8, LoadIs
  <2> QED
    BY <1>2, <2>1 DEF BeforeRow, JobAt
<1>9. CASE StoreScreenshot(e)
  <2>1. /\ job' \in [Executions -> Job] /\ SameJobs(e) /\ job'[e].pc = "commit" /\ UNCHANGED <<rows, req>>
        /\ \/ job'[e].shot /\ objects' = objects \cup {e}
           \/ ~job'[e].shot /\ objects' = objects
    BY <1>1, <1>9, StoreIs
  <2>2. RowInv'
    BY <2>1, JobRows DEF BeforeRow
  <2>3. ~JobAt(e, "purge")' /\ ~JobAt(e, "objects")' /\ objects \subseteq objects'
        /\ (job'[e].shot => Found(e)')
    BY <2>1 DEF JobAt, Found
  <2>4. rows'[e].key => Exists(e)' /\ (rows[e].key \/ Found(e)')
    BY <2>1 DEF NamedInv, Exists
  <2> QED
    BY <1>1, <2>1, <2>2, <2>3, <2>4, JobNamed
<1>10. CASE Commit(e)
  <2>1. /\ job' \in [Executions -> Job] /\ SameJobs(e) /\ job'[e].pc = "expired"
        /\ rows'[e].status = "succeeded" /\ rows'[e].key = job[e].shot
        /\ \A d \in Executions \ {e} : rows'[d] = rows[d]
    BY <1>1, <1>10, CommitIs
  <2>2. UNCHANGED <<objects, req>> /\ JobAt(e, "commit") /\ Exists(e)
    BY <1>10 DEF Commit
  <2>3. RowInv'
    BY <2>1, JobRows DEF BeforeRow
  <2>4. ~JobAt(e, "commit")' /\ ~JobAt(e, "purge")' /\ ~JobAt(e, "objects")'
    BY <2>1 DEF JobAt
  <2>5. rows'[e].key => Exists(e)' /\ Found(e)'
    BY <2>1, <2>2 DEF NamedInv, Found, Exists
  <2>6. rows[e].status # "deleted"
    BY <2>2 DEF Exists
  <2> QED
    BY <1>1, <2>1, <2>2, <2>3, <2>4, <2>5, <2>6, JobNamed
<1>11. CASE Record(e)
  <2>1. /\ job' \in [Executions -> Job] /\ SameJobs(e) /\ job'[e].pc \in {"load", "done"}
        /\ \A d \in Executions \ {e} : rows'[d] = rows[d]
        /\ rows'[e].key = rows[e].key /\ UNCHANGED <<objects, req>>
        /\ (rows'[e] = rows[e]) \/ (Exists(e) /\ rows'[e].status \in {"queued", "failed"})
    BY <1>1, <1>11, RecordIs
  <2>2. RowInv'
    BY <2>1, JobRows DEF BeforeRow
  <2>3. ~JobAt(e, "commit")' /\ ~JobAt(e, "purge")' /\ ~JobAt(e, "objects")'
    BY <2>1 DEF JobAt
  <2>4. rows'[e].key => Exists(e)' /\ (rows[e].key \/ Found(e)')
    BY <2>1 DEF NamedInv, Exists
  <2>5. /\ rows[e].status # "absent" => rows'[e].status # "absent"
        /\ rows[e].status = "deleted" => rows'[e].status = "deleted"
    BY <2>1 DEF Exists
  <2> QED
    BY <1>1, <2>1, <2>2, <2>3, <2>4, <2>5, JobNamed
<1>12. CASE SelectExpired(e)
  <2>1. CASE JobDone(e)
    BY <1>3, <1>12, <2>1 DEF SelectExpired
  <2>2. CASE ~JobDone(e)
    <3>1. /\ job' \in [Executions -> Job] /\ SameJobs(e) /\ job'[e].pc = "purge"
          /\ job'[e].keys = job'[e].old \cap Keyed /\ \A d \in job'[e].old : Exists(d)
      BY <1>1, <1>12, <2>2, SelectExpiredIs
    <3>2. UNCHANGED <<rows, objects, req>>
      BY <1>12 DEF SelectExpired
    <3>3. RowInv'
      BY <3>1, <3>2, JobRows DEF BeforeRow
    <3>4. ~JobAt(e, "commit")' /\ ~JobAt(e, "objects")' /\ job'[e].keys \subseteq job'[e].old
          /\ \A x \in job'[e].old : rows'[x].status # "absent"
      BY <3>1, <3>2 DEF JobAt, Exists
    <3>5. rows'[e].key => Exists(e)' /\ (rows[e].key \/ Found(e)')
      BY <3>2 DEF NamedInv, Exists
    <3> QED
      BY <1>1, <3>1, <3>2, <3>3, <3>4, <3>5, JobNamed
  <2> QED
    BY <2>1, <2>2
<1>13. CASE DeleteExpired(e)
  <2>1. JobGoTo(e, "objects") /\ JobAt(e, "purge") /\ UNCHANGED <<objects, req>>
    BY <1>13 DEF DeleteExpired
  <2>2. job' \in [Executions -> Job] /\ SameJobs(e) /\ job'[e].pc = "objects" /\ job'[e].keys = job[e].keys
    BY <1>1, <2>1, JobGoToIs DEF JobSteps
  <2>3. \A d \in Executions : \/ d \in job[e].old /\ Exists(d) /\ rows'[d].status = "deleted" /\ ~rows'[d].key
                              \/ ~(d \in job[e].old /\ Exists(d)) /\ rows'[d] = rows[d]
    BY <1>1, <1>13, DeleteExpiredIs, GoneIs
  <2>4. RowInv'
    BY <2>2, <2>3, JobRows DEF BeforeRow
  <2>5. ~JobAt(e, "commit")' /\ ~JobAt(e, "purge")'
    BY <2>2 DEF JobAt
  <2>6. \A x \in job'[e].keys : rows'[x].status = "deleted"
    <3>1. \A x \in job[e].keys : x \in job[e].old /\ x \in Executions /\ rows[x].status # "absent"
      BY <1>1, <2>1 DEF NamedInv, Typed, Job
    <3> QED
      BY <2>2, <2>3, <3>1 DEF Exists
  <2>7. /\ rows[e].status # "absent" => rows'[e].status # "absent"
        /\ rows[e].status = "deleted" => rows'[e].status = "deleted"
        /\ rows'[e].key => Exists(e)' /\ rows[e].key
    BY <2>3 DEF Exists, NamedInv
  <2> QED
    BY <1>1, <2>1, <2>2, <2>3, <2>4, <2>5, <2>6, <2>7, JobNamed
<1>14. ASSUME NEW gone \in SUBSET Executions, \A x \in gone : rows[x].status = "deleted",
              objects' = objects \ gone, UNCHANGED <<rows, req>>,
              job' \in [Executions -> Job], SameJobs(e), job'[e].pc = "done"
       PROVE  RowInv' /\ NamedInv'
  <2>1. RowInv'
    BY <1>14, JobRows DEF BeforeRow
  <2>2. ~JobAt(e, "commit")' /\ ~JobAt(e, "purge")' /\ ~JobAt(e, "objects")'
    BY <1>14 DEF JobAt
  <2>3. rows'[e].key => Exists(e)' /\ (rows[e].key \/ Found(e)')
    BY <1>14 DEF NamedInv, Exists
  <2> QED
    BY <1>1, <1>14, <2>1, <2>2, <2>3, JobNamed
<1>15. CASE DeleteExpiredObjects(e) \/ ObjectsStay(e)
  <2>1. JobAt(e, "objects") /\ JobDone(e) /\ UNCHANGED <<rows, req>>
        /\ \E kept \in SUBSET job[e].keys : objects' = objects \ (job[e].keys \ kept)
    BY <1>15 DEF DeleteExpiredObjects, ObjectsStay
  <2>2. job' \in [Executions -> Job] /\ SameJobs(e) /\ job'[e].pc = "done"
    BY <1>1, <2>1, JobDoneIs
  <2>3. PICK kept \in SUBSET job[e].keys : objects' = objects \ (job[e].keys \ kept)
    BY <2>1
  <2>4. job[e].keys \subseteq Executions /\ \A x \in job[e].keys : rows[x].status = "deleted"
    BY <1>1, <2>1 DEF NamedInv, Typed, Job
  <2> QED
    BY <1>14, <2>1, <2>2, <2>3, <2>4
<1>16. CASE JobFails(e) \/ JobDies(e)
  <2>1. /\ job' \in [Executions -> Job] /\ SameJobs(e)
        /\ job'[e].pc \in {"select", "load", "record", "done"}
        /\ job'[e].pc = "select" => job[e].pc \in Unnamed
        /\ UNCHANGED <<rows, req>>
    BY <1>1, <1>16, DisturbsIs DEF Disturbs
  <2>2. objects' \in {objects, objects \cup {e}}
    BY <1>16 DEF JobFails, JobDies, Interrupted
  <2>3. RowInv'
    BY <2>1, JobRows DEF BeforeRow, Unnamed
  <2>4. ~JobAt(e, "commit")' /\ ~JobAt(e, "purge")' /\ ~JobAt(e, "objects")'
    BY <2>1 DEF JobAt
  <2>5. rows'[e].key => Exists(e)' /\ (rows[e].key \/ Found(e)')
    BY <2>1 DEF NamedInv, Exists
  <2> QED
    BY <1>1, <2>1, <2>2, <2>3, <2>4, <2>5, JobNamed
<1> QED
  BY <1>4, <1>5, <1>6, <1>7, <1>8, <1>9, <1>10, <1>11, <1>12, <1>13, <1>15, <1>16 DEF Work, Disturbs

(* While it is calm, a job under way excludes a deletion, and its row is on *)
(* no list of retention.                                                    *)
LEMMA JobCalm ==
  ASSUME Shape, CalmInv, NEW e \in Executions, SameJobs(e), req' = req,
         job[e].pc \in JobSteps \/ job'[e].pc \in JobSteps, calm' => calm /\ ~Overlap',
         \A x \in Executions \ {e} : rows'[x].key => rows[x].key,
         calm => \A x \in objects' : /\ InHand(x)' /\ job'[x].pc \notin NotStored
                                     /\ JobAt(x, "commit")' => job'[x].shot,
         JobAt(e, "purge")' => job'[e].old \cap Keyed' \subseteq job'[e].keys
  PROVE  CalmInv'
<1> SUFFICES ASSUME calm'
             PROVE  /\ \A q \in Requests : req'[q].pc \notin Deleting
                    /\ \A d \in Executions : JobAt(d, "purge")' => job'[d].old \cap Keyed' \subseteq job'[d].keys
  BY DEF CalmInv, Deleting
<1>1. calm /\ ~Overlap /\ ~Overlap'
  BY DEF CalmInv
<1>2. ASSUME NEW q \in Requests, req[q].pc \in Deleting PROVE FALSE
  <2>1. q \in InFlight /\ req[q].kind = "delete"
    BY <1>2 DEF Shape, Carries, InFlight, Deleting
  <2>2. e \in Working \/ e \in Working'
    BY DEF Working
  <2>3. q \in InFlight' /\ req'[q].kind = "delete"
    BY <2>1 DEF InFlight
  <2> QED
    BY <1>1, <2>1, <2>2, <2>3 DEF Overlap
<1>3. ASSUME NEW d \in Executions, d # e, JobAt(d, "purge")'
      PROVE  job'[d].old \cap Keyed' \subseteq job'[d].keys
  <2>1. job'[d] = job[d] /\ JobAt(d, "purge")
    BY <1>3 DEF SameJobs, JobAt
  <2>2. e \notin job[d].old
    <3>1. e \in Working \/ e \in Working'
      BY DEF Working
    <3> QED
      BY <1>1, <1>3, <2>1, <3>1 DEF Overlap
  <2>3. job[d].old \cap Keyed \subseteq job[d].keys
    BY <1>1, <2>1 DEF CalmInv
  <2> QED
    BY <2>1, <2>2, <2>3 DEF Keyed
<1> QED
  BY <1>2, <1>3

(* A step that leaves the rows of the others alone. *)
LEMMA OthersInHand ==
  ASSUME Typed, CalmInv, calm, NEW e \in Executions, SameJobs(e), ~JobAt(e, "objects"),
         NEW x \in objects, x # e, rows'[x].key = rows[x].key
  PROVE  InHand(x)' /\ job'[x].pc \notin NotStored /\ (JobAt(x, "commit")' => job'[x].shot)
<1>1. x \in Executions /\ job'[x] = job[x]
  BY DEF Typed, SameJobs
<1>2. InHand(x) /\ job[x].pc \notin NotStored /\ (JobAt(x, "commit") => job[x].shot)
  BY DEF CalmInv
<1>3. \A d \in Executions : JobAt(d, "objects") => job'[d] = job[d]
  BY DEF SameJobs
<1> QED
  BY <1>1, <1>2, <1>3 DEF InHand, JobAt

LEMMA WorkCalm ==
  ASSUME Shape, NamedInv, CalmInv, NEW e \in Executions, Fire(e) \/ Work(e),
         calm' => calm /\ ~Overlap'
  PROVE  CalmInv'
<1> USE DEF JobOnly, Others
<1>1. Typed /\ objects \subseteq Executions
  BY DEF Shape, Typed
<1>2. ASSUME SameJobs(e), UNCHANGED <<objects, req>>, \A d \in Executions \ {e} : rows'[d] = rows[d],
             job[e].pc \in NotStored,
             job[e].pc \in JobSteps \/ job'[e].pc \in JobSteps, ~JobAt(e, "purge")'
      PROVE  CalmInv'
  <2>1. ASSUME calm, NEW x \in objects'
        PROVE  InHand(x)' /\ job'[x].pc \notin NotStored /\ (JobAt(x, "commit")' => job'[x].shot)
    <3>1. x \in objects /\ x # e
      BY <1>2, <2>1 DEF CalmInv
    <3>2. ~JobAt(e, "objects")
      BY <1>2 DEF JobAt, NotStored, BeforeRow
    <3> QED
      BY <1>1, <1>2, <2>1, <3>1, <3>2, OthersInHand
  <2> QED
    BY <1>2, <2>1, JobCalm
<1>4. CASE Fire(e)
  <2>1. SameJobs(e) /\ job'[e].pc = "select" /\ UNCHANGED <<rows, objects, req>> /\ job[e].pc = "absent"
    BY <1>1, <1>4, JobGoToIs DEF Fire, JobSteps, JobAt
  <2> QED
    BY <1>2, <2>1 DEF NotStored, BeforeRow, JobSteps, JobAt
<1>5. CASE SelectMonitor(e)
  <2>1. SameJobs(e) /\ job'[e].pc \in {"fields", "done"}
    BY <1>1, <1>5, SelectMonitorIs, JobDoneIs DEF SelectMonitor
  <2>2. UNCHANGED <<rows, objects, req>> /\ job[e].pc = "select"
    BY <1>5 DEF SelectMonitor, JobAt
  <2> QED
    BY <1>2, <2>1, <2>2 DEF NotStored, BeforeRow, JobSteps, JobAt
<1>6. CASE SelectFields(e)
  <2>1. SameJobs(e) /\ job'[e].pc = "insert" /\ UNCHANGED <<rows, objects, req>> /\ job[e].pc = "fields"
    BY <1>1, <1>6, SelectFieldsIs DEF SelectFields, JobAt
  <2> QED
    BY <1>2, <2>1 DEF NotStored, BeforeRow, JobSteps, JobAt
<1>7. CASE Load(e)
  <2>1. SameJobs(e) /\ job'[e].pc \in {"store", "done"} /\ UNCHANGED <<rows, objects, req>> /\ job[e].pc = "load"
    BY <1>1, <1>7, LoadIs
  <2> QED
    BY <1>2, <2>1 DEF NotStored, BeforeRow, JobSteps, JobAt
<1>8. CASE Insert(e) \/ Record(e)
  <2>1. CASE Insert(e)
    <3>1. SameJobs(e) /\ job'[e].pc = "store" /\ ~rows'[e].key /\ \A d \in Executions \ {e} : rows'[d] = rows[d]
      BY <1>1, <2>1, InsertIs
    <3>2. UNCHANGED <<objects, req>> /\ job[e].pc = "insert"
      BY <2>1 DEF Insert, InsertWithoutForeignKey, JobAt
    <3> QED
      BY <1>2, <3>1, <3>2 DEF NotStored, BeforeRow, JobSteps, JobAt
  <2>2. CASE Record(e)
    <3>1. /\ SameJobs(e) /\ job'[e].pc \in {"load", "done"} /\ \A d \in Executions \ {e} : rows'[d] = rows[d]
          /\ UNCHANGED <<objects, req>> /\ job[e].pc = "record"
      BY <1>1, <2>2, RecordIs
    <3> QED
      BY <1>2, <3>1 DEF NotStored, BeforeRow, JobSteps, JobAt
  <2> QED
    BY <1>8, <2>1, <2>2
<1>10. CASE StoreScreenshot(e)
  <2>1. /\ SameJobs(e) /\ job'[e].pc = "commit" /\ job[e].pc = "store" /\ UNCHANGED <<rows, req>>
        /\ \/ job'[e].shot /\ objects' = objects \cup {e}
           \/ ~job'[e].shot /\ objects' = objects
    BY <1>1, <1>10, StoreIs
  <2>2. ASSUME calm, NEW x \in objects'
        PROVE  InHand(x)' /\ job'[x].pc \notin NotStored /\ (JobAt(x, "commit")' => job'[x].shot)
    <3>1. CASE x # e
      <4>1. x \in objects /\ ~JobAt(e, "objects")
        BY <2>1, <2>2, <3>1 DEF JobAt
      <4> QED
        BY <1>1, <2>1, <2>2, <3>1, <4>1, OthersInHand
    <3>2. CASE x = e
      <4>1. e \notin objects
        BY <2>1, <2>2 DEF CalmInv, NotStored
      <4> QED
        BY <2>1, <2>2, <3>2, <4>1 DEF InHand, JobAt, NotStored, BeforeRow
    <3> QED
      BY <3>1, <3>2
  <2> QED
    BY <2>1, <2>2, JobCalm DEF JobSteps, JobAt
<1>11. CASE Commit(e)
  <2>1. /\ SameJobs(e) /\ job'[e].pc = "expired" /\ rows'[e].key = job[e].shot
        /\ \A d \in Executions \ {e} : rows'[d] = rows[d]
    BY <1>1, <1>11, CommitIs
  <2>2. UNCHANGED <<objects, req>> /\ job[e].pc = "commit"
    BY <1>11 DEF Commit, JobAt
  <2>3. ASSUME calm, NEW x \in objects'
        PROVE  InHand(x)' /\ job'[x].pc \notin NotStored /\ (JobAt(x, "commit")' => job'[x].shot)
    <3>1. CASE x # e
      <4>1. x \in objects /\ ~JobAt(e, "objects") /\ x \in Executions
        BY <1>1, <2>2, <2>3, <3>1 DEF JobAt
      <4> QED
        BY <1>1, <2>1, <2>3, <3>1, <4>1, OthersInHand
    <3>2. CASE x = e
      <4>1. job[e].shot
        BY <2>2, <2>3, <3>2 DEF CalmInv, JobAt
      <4> QED
        BY <2>1, <3>2, <4>1 DEF InHand, JobAt, NotStored, BeforeRow
    <3> QED
      BY <3>1, <3>2
  <2> QED
    BY <2>1, <2>2, <2>3, JobCalm DEF JobSteps, JobAt
<1>12. CASE SelectExpired(e)
  <2>0. UNCHANGED <<rows, objects, req>> /\ job[e].pc = "expired"
    BY <1>12 DEF SelectExpired, JobAt
  <2>1. /\ SameJobs(e) /\ job'[e].pc \in {"purge", "done"}
        /\ job'[e].pc = "purge" => job'[e].keys = job'[e].old \cap Keyed
    BY <1>1, <1>12, SelectExpiredIs, JobDoneIs
  <2>2. ASSUME calm, NEW x \in objects'
        PROVE  InHand(x)' /\ job'[x].pc \notin NotStored /\ (JobAt(x, "commit")' => job'[x].shot)
    <3>0. x \in objects /\ x \in Executions /\ ~JobAt(e, "objects")
      BY <1>1, <2>0, <2>2 DEF JobAt
    <3>1. CASE x # e
      BY <1>1, <2>0, <2>1, <2>2, <3>0, <3>1, OthersInHand
    <3>2. CASE x = e
      <4>1. InHand(e) /\ \A d \in Executions : JobAt(d, "objects") => job'[d] = job[d]
        BY <2>1, <2>2, <3>0, <3>2 DEF CalmInv, SameJobs
      <4> QED
        BY <2>0, <2>1, <3>2, <4>1 DEF InHand, JobAt, NotStored, BeforeRow
    <3> QED
      BY <3>1, <3>2
  <2> QED
    BY <2>0, <2>1, <2>2, JobCalm DEF JobSteps, JobAt, Keyed
<1>13. CASE DeleteExpired(e)
  <2>1. JobGoTo(e, "objects") /\ job[e].pc = "purge" /\ UNCHANGED <<objects, req>>
    BY <1>13 DEF DeleteExpired, JobAt
  <2>2. SameJobs(e) /\ job'[e].pc = "objects" /\ job'[e].keys = job[e].keys
    BY <1>1, <2>1, JobGoToIs DEF JobSteps
  <2>3. \A d \in Executions : \/ d \in job[e].old /\ ~rows'[d].key
                              \/ rows'[d] = rows[d]
    BY <1>1, <1>13, DeleteExpiredIs, GoneIs
  <2>4. ASSUME calm, NEW x \in objects'
        PROVE  InHand(x)' /\ job'[x].pc \notin NotStored /\ (JobAt(x, "commit")' => job'[x].shot)
    <3>0. x \in objects /\ x \in Executions /\ ~JobAt(e, "objects") /\ job[e].old \cap Keyed \subseteq job[e].keys
          /\ InHand(x) /\ job[x].pc \notin NotStored /\ (JobAt(x, "commit") => job[x].shot)
      BY <1>1, <2>1, <2>4 DEF JobAt, CalmInv
    <3>1. CASE rows'[x].key = rows[x].key /\ x # e
      BY <1>1, <2>2, <2>4, <3>0, <3>1, OthersInHand
    <3>2. CASE rows'[x].key # rows[x].key
      <4>1. x \in job[e].old /\ rows[x].key
        <5>1. rows[x] \in Row /\ rows'[x] \in Row
          BY <1>1, <1>13, <3>0, DeleteExpiredIs DEF Typed
        <5>2. rows[x].key \in BOOLEAN /\ rows'[x].key \in BOOLEAN
          BY <5>1 DEF Row
        <5> QED
          BY <2>3, <3>0, <3>2, <5>2
      <4>2. x \in job'[e].keys /\ JobAt(e, "objects")'
        BY <2>2, <3>0, <4>1 DEF Keyed, JobAt
      <4>3. x # e
        <5>1. e \in Working
          BY <2>1 DEF Working, JobSteps
        <5> QED
          BY <2>1, <2>4, <4>1, <5>1 DEF CalmInv, Overlap, JobAt
      <4> QED
        BY <2>2, <3>0, <4>2, <4>3 DEF InHand, SameJobs, JobAt
    <3>3. CASE rows'[x].key = rows[x].key /\ x = e
      <4>1. \A d \in Executions : JobAt(d, "objects") => job'[d] = job[d]
        BY <2>1, <2>2 DEF SameJobs, JobAt
      <4> QED
        BY <2>1, <2>2, <3>0, <3>3, <4>1 DEF InHand, JobAt, NotStored, BeforeRow
    <3> QED
      BY <3>1, <3>2, <3>3
  <2> QED
    BY <2>1, <2>2, <2>3, <2>4, JobCalm DEF JobSteps, JobAt
<1>14. CASE DeleteExpiredObjects(e)
  <2>1. JobDone(e) /\ job[e].pc = "objects" /\ UNCHANGED <<rows, req>> /\ objects' = objects \ job[e].keys
    BY <1>14 DEF DeleteExpiredObjects, JobAt
  <2>2. SameJobs(e) /\ job'[e].pc = "done"
    BY <1>1, <2>1, JobDoneIs
  <2>4. ASSUME calm, NEW x \in objects'
        PROVE  InHand(x)' /\ job'[x].pc \notin NotStored /\ (JobAt(x, "commit")' => job'[x].shot)
    <3>0. x \in objects /\ x \in Executions /\ x \notin job[e].keys
          /\ InHand(x) /\ job[x].pc \notin NotStored /\ (JobAt(x, "commit") => job[x].shot)
      BY <1>1, <2>1, <2>4 DEF CalmInv
    <3>1. InHand(x)'
      BY <2>1, <2>2, <3>0 DEF InHand, JobAt, SameJobs
    <3>2. CASE x # e
      BY <2>2, <3>0, <3>1, <3>2 DEF SameJobs, JobAt
    <3>3. CASE x = e
      BY <2>2, <3>1, <3>3 DEF JobAt, NotStored, BeforeRow
    <3> QED
      BY <3>2, <3>3
  <2> QED
    BY <2>1, <2>2, <2>4, JobCalm DEF JobSteps, JobAt
<1> QED
  BY <1>4, <1>5, <1>6, <1>7, <1>8, <1>10, <1>11, <1>12, <1>13, <1>14 DEF Work

-----------------------------------------------------------------------------
LEMMA Initially == ASSUME Init PROVE IInv
<1> USE Records DEF Init
<1>1. Typed
  BY DEF Typed
<1>2. FirstInv /\ Configured
  BY DEF FirstInv, Untouched, At, JobAt, Configured
<1>3. \A r \in Requests : Carries(req[r])
  BY DEF Carries
<1>4. SnapshotInv
  BY DEF SnapshotInv, Exists
<1>5. RowInv /\ NamedInv
  BY DEF RowInv, NamedInv, JobAt
<1>7. CalmInv
  BY DEF CalmInv, Overlap, Working, JobSteps, JobAt, Deleting
<1>8. calm \in BOOLEAN
  OBVIOUS
<1>6. RepairInv
  BY DEF RepairInv, UpdatesRepairTheSchedule, Flying, Monitors
<1> QED
  BY <1>1, <1>2, <1>3, <1>4, <1>5, <1>6, <1>7, <1>8 DEF IInv, Shape

LEMMA Stutter == ASSUME IInv, UNCHANGED vars PROVE IInv'
<1> USE DEF IInv, vars
<1>1. Shape'
  BY DEF Shape, Typed, FirstInv, Untouched, At, JobAt, Configured
<1>2. SnapshotInv'
  BY DEF SnapshotInv, Exists
<1>3. RowInv' /\ NamedInv'
  BY DEF RowInv, NamedInv, Found, Exists, JobAt
<1>5. CalmInv'
  BY DEF CalmInv, Overlap, Working, InFlight, InHand, Keyed, JobAt
<1>4. RepairInv'
  BY DEF RepairInv, UpdatesRepairTheSchedule, Flying, Follows, At
<1> QED
  BY <1>1, <1>2, <1>3, <1>4, <1>5

LEMMA Inductive == ASSUME IInv, [Next]_vars PROVE IInv'
<1> USE DEF IInv
<1>1. ASSUME NEW r \in Requests, Request(r), calm' = (calm /\ ~Overlap') PROVE IInv'
  <2>1. Typed /\ Effect(r) /\ rows' = rows
    BY <1>1, RequestEffect DEF Shape, Request, Arrive, Jobs
  <2> QED
    BY <1>1, <2>1, RequestShape, RequestSnapshot, RequestNamed, RequestCalm, RequestRepair
<1>2. ASSUME NEW r \in Requests, Handle(r), calm' = (calm /\ ~Overlap') PROVE IInv'
  <2>1. Typed /\ Effect(r) /\ ((rows' = rows) \/ DeleteRow(r))
    BY <1>2, HandleEffect DEF Shape, Handle, Create, Read, Check, Update, Sync, Peek, SetNext, Audit,
       SelectKeys, DeleteObjects, Unschedule, Jobs
  <2> QED
    BY <1>2, <2>1, HandleShape, RequestSnapshot, RequestNamed, RequestCalm, HandleRepair
<1>3. ASSUME NEW r \in Requests, RequestFails(r) \/ RequestDies(r), calm' = (calm /\ ~Overlap') PROVE IInv'
  <2>1. Typed /\ Effect(r) /\ rows' = rows
    BY <1>3, RequestEndsEffect DEF Shape, RequestFails, RequestDies, Jobs
  <2> QED
    BY <1>3, <2>1, RequestEndsShape, RequestSnapshot, RequestNamed, RequestCalm, RequestEndsRepair
<1>4. ASSUME NEW e \in Executions, Fire(e) \/ Work(e), calm' = (calm /\ ~Overlap') PROVE IInv'
  BY <1>4, WorkShape, WorkSnapshot, WorkNamed, WorkCalm, WorkRepair
<1>5. ASSUME NEW r \in Requests, Undo(r), calm' = FALSE PROVE IInv'
  <2>1. Typed /\ Effect(r)
    BY <1>5, HandleEffect DEF Shape
  <2> QED
    BY <1>5, <2>1, HandleShape, RequestSnapshot, RequestNamed, HandleRepair DEF CalmInv
<1>6. ASSUME NEW e \in Executions, Disturbs(e), calm' = FALSE PROVE IInv'
  BY <1>6, WorkShape, WorkSnapshot, WorkNamed, WorkRepair DEF CalmInv
<1> QED
  BY <1>1, <1>2, <1>3, <1>4, <1>5, <1>6, Stutter DEF Next, Disturbs

LEMMA Invariant == Spec => []IInv
BY Initially, Inductive, PTL DEF Spec

(* Every variable keeps its type, whatever fails and whoever dies. *)
THEOREM Typing == Spec => []TypeOK
<1>1. IInv => TypeOK
  BY DEF IInv, Shape, Typed, TypeOK, Monitors, Row, Reqs, Job
<1> QED
  BY <1>1, Invariant, PTL

(* The two queries a snapshot is taken with may straddle an update or the   *)
(* deletion of the monitor; what is inserted has a page and fields.         *)
THEOREM SnapshotsAreWhole == Spec => []SnapshotHasFields
<1>1. IInv => SnapshotHasFields
  BY DEF IInv, SnapshotInv, SnapshotHasFields
<1> QED
  BY <1>1, Invariant, PTL

(* No interleaving of executions, retention and deletions of the monitor    *)
(* leaves a row that names a screenshot which is not in the store, except   *)
(* for a deletion of the monitor under way or interrupted.                  *)
THEOREM ScreenshotsExist == Spec => []NamedScreenshotExists
<1>1. IInv => NamedScreenshotExists
  BY DEF IInv, NamedInv, Found, NamedScreenshotExists
<1> QED
  BY <1>1, Invariant, PTL

(* Unless an execution fails or overlaps the deletion of its monitor or row, *)
(* every screenshot in the store is named by a row or in the hands of a job. *)
THEOREM NoneIsForgotten == Spec => []NoScreenshotIsForgotten
<1>1. IInv => NoScreenshotIsForgotten
  BY DEF IInv, CalmInv, InHand, NoScreenshotIsForgotten
<1> QED
  BY <1>1, Invariant, PTL

(* One update that runs alone and succeeds brings scheduler, row and        *)
(* nextRunAt back in agreement, whatever happened before.                   *)
THEOREM ScheduleIsRepaired == Spec => []UpdatesRepairTheSchedule
<1>1. IInv => UpdatesRepairTheSchedule
  BY DEF IInv, RepairInv, UpdatesRepairTheSchedule
<1> QED
  BY <1>1, Invariant, PTL
=============================================================================
