-------------------------- MODULE WebhookDelivery --------------------------
(***************************************************************************)
(* The alerts of one monitor from the insertion of the delivery row to the *)
(* destination: apps/worker/src/processors/extraction.ts publishes,        *)
(* processors/webhook.ts delivers.  Meanwhile the owner may remove the     *)
(* webhook or the monitor, and retention the execution of an alert.        *)
(*                                                                         *)
(* A URL is a model value.  What assertPublicHttpUrl says of one depends on *)
(* the answers of the resolver, which differ from one moment to the next:  *)
(* each check may accept or refuse, and nothing is said here of where the  *)
(* request then leads, for which fetch asks the resolver again.            *)
(* The processor of a job goes through job[d].pc; BullMQ waits between     *)
(* attempts and puts a stalled job back once (maxStalledCount of a worker  *)
(* that sets none).                                                        *)
(***************************************************************************)
EXTENDS Naturals, FiniteSets

CONSTANTS
  Deliveries,    \* alerts of a behaviour, one for each changed execution
  Urls,          \* URLs
  Hooks,         \* destinations the monitor may have
  MaxRedirects,  \* default of postWithSafeRedirects
  MaxAttempts,   \* attempts of alertJobOptions
  MaxStalled,    \* maxStalledCount of the webhook worker
  FailsAt,       \* queries and publications that may reject
  Crashes,       \* workers may die
  NoUrl

ASSUME DeliveryConstants ==
  /\ Hooks \subseteq Urls /\ NoUrl \notin Urls
  /\ MaxRedirects \in Nat /\ MaxAttempts \in Nat \ {0} /\ MaxStalled \in Nat
  /\ FailsAt \subseteq {"publish", "load", "loadMonitor", "skip", "settle", "record"}
  /\ Crashes \in BOOLEAN

VARIABLES
  hook,      \* webhookUrl of the monitor, NoUrl without one
  monitor,   \* whether the monitor exists
  row,       \* status and attempt of each delivery row
  publisher, \* the extraction processor of each alert
  job,       \* job of each alert with the state of its processor
  accepted,  \* observer: how often the destination answered 2xx
  held       \* observer: the destinations the monitor had during the current try

vars == <<hook, monitor, row, publisher, job, accepted, held>>

Fresh(pc, attempt, stalled, silent) ==
  [pc |-> pc, url |-> NoUrl, redirects |-> 0, found |-> FALSE,
   attempt |-> attempt, stalled |-> stalled, silent |-> silent]
Idle == Fresh("absent", 1, 0, FALSE)

Init == /\ hook \in Hooks /\ monitor = TRUE
        /\ row = [d \in Deliveries |-> [status |-> "none", attempt |-> 0]]
        /\ publisher = [d \in Deliveries |-> "idle"]
        /\ job = [d \in Deliveries |-> Idle]
        /\ accepted = [d \in Deliveries |-> 0]
        /\ held = [d \in Deliveries |-> {hook}]

Exists(d) == row[d].status \notin {"none", "deleted"}
At(d, step) == job[d].pc = step
GoTo(d, step) == job' = [job EXCEPT ![d].pc = step]

(* UPDATE alert_deliveries ... WHERE id = d: no row, no effect. *)
Update(d, status, attempt) ==
  row' = IF Exists(d) THEN [row EXCEPT ![d] = [status |-> status, attempt |-> attempt]] ELSE row
Outside == UNCHANGED <<hook, monitor, publisher>>

-----------------------------------------------------------------------------
(* The extraction processor inserts the delivery and publishes its job. *)
InsertDelivery(d) == /\ publisher[d] = "idle" /\ monitor
                     /\ row' = [row EXCEPT ![d].status = "queued"]
                     /\ publisher' = [publisher EXCEPT ![d] = "publish"]
                     /\ UNCHANGED <<hook, monitor, job, accepted>>

(* The call may be rejected although Redis has the job. *)
EnqueueWebhook(d) ==
  /\ publisher[d] = "publish"
  /\ \/ /\ job' = [job EXCEPT ![d] = Fresh("waiting", 1, 0, FALSE)]
        /\ publisher' = [publisher EXCEPT ![d] = "done"]
     \/ /\ "publish" \in FailsAt
        /\ \/ job' = [job EXCEPT ![d] = Fresh("waiting", 1, 0, FALSE)]
           \/ UNCHANGED job
        /\ publisher' = [publisher EXCEPT ![d] = "note"]
  /\ UNCHANGED <<hook, monitor, row, accepted>>

NoteFailedPublication(d) == /\ publisher[d] = "note"
                            /\ Update(d, "failed", row[d].attempt)
                            /\ publisher' = [publisher EXCEPT ![d] = "done"]
                            /\ UNCHANGED <<hook, monitor, job, accepted>>

-----------------------------------------------------------------------------
Begin(d) == /\ At(d, "waiting") /\ GoTo(d, "load")
            /\ UNCHANGED <<row, accepted>> /\ Outside

(* The delivery and its execution, which a cascade removes together. *)
Load(d) == /\ At(d, "load")
           /\ job' = [job EXCEPT ![d].pc = "loadMonitor", ![d].found = Exists(d)]
           /\ UNCHANGED <<row, accepted>> /\ Outside

(* The monitor and the changes row of the execution. *)
LoadMonitor(d) ==
  /\ At(d, "loadMonitor")
  /\ IF job[d].found /\ monitor /\ Exists(d) /\ hook # NoUrl
       THEN job' = [job EXCEPT ![d].pc = "check", ![d].url = hook, ![d].redirects = 0]
       ELSE GoTo(d, IF job[d].found THEN "skip" ELSE "done")
  /\ UNCHANGED <<row, accepted>> /\ Outside

(* The row keeps the attempt of an earlier failure. *)
Skip(d) == /\ At(d, "skip")
           /\ Update(d, "skipped", row[d].attempt) /\ GoTo(d, "done")
           /\ UNCHANGED accepted /\ Outside

(* assertPublicHttpUrl, which resolves the host: any verdict, at any time. *)
Check(d) == /\ At(d, "check")
            /\ GoTo(d, "post") \/ GoTo(d, "record")
            /\ UNCHANGED <<row, accepted>> /\ Outside

(* A redirect names the next hop, which is checked again, up to the limit. *)
Redirect(d, next) ==
  job' = IF job[d].redirects = MaxRedirects \/ next = NoUrl
           THEN [job EXCEPT ![d].pc = "record"]
           ELSE [job EXCEPT ![d].pc = "check", ![d].url = next, ![d].redirects = @ + 1]

PostUnchecked(d) == /\ At(d, "post") /\ GoTo(d, "settle")
                    /\ UNCHANGED <<row, accepted>> /\ Outside

(* The answer: a redirect, 2xx, or a refusal; or none before the timeout,   *)
(* whether the destination took the alert or not.                           *)
Post(d) ==
  /\ At(d, "post")
  /\ \/ \E next \in Urls \cup {NoUrl} : Redirect(d, next) /\ UNCHANGED accepted
     \/ GoTo(d, "settle") /\ accepted' = [accepted EXCEPT ![d] = @ + 1]
     \/ GoTo(d, "record") /\ \/ UNCHANGED accepted
                             \/ accepted' = [accepted EXCEPT ![d] = @ + 1]
  /\ UNCHANGED row /\ Outside

Settle(d) == /\ At(d, "settle")
             /\ Update(d, "delivered", job[d].attempt) /\ GoTo(d, "done")
             /\ UNCHANGED accepted /\ Outside

RejectedOnceTooOften(d, silent) ==
  job' = [job EXCEPT ![d] =
    IF @.attempt <= MaxAttempts THEN Fresh("waiting", @.attempt + 1, @.stalled, FALSE)
                                ELSE Fresh("done", @.attempt, @.stalled, silent)]

RetriesWithTheUrlItHas(d, silent) ==
  job' = [job EXCEPT ![d] =
    IF @.attempt < MaxAttempts
      THEN [@ EXCEPT !.pc = "check", !.redirects = 0, !.attempt = @ + 1]
      ELSE Fresh("done", @.attempt, @.stalled, silent)]

(* BullMQ after a rejected attempt: back to the queue, or failed for good.  *)
Rejected(d, silent) ==
  job' = [job EXCEPT ![d] =
    IF @.attempt < MaxAttempts THEN Fresh("waiting", @.attempt + 1, @.stalled, FALSE)
                               ELSE Fresh("done", @.attempt, @.stalled, silent)]

RecordOnLastAttempt(d) == /\ At(d, "record")
                          /\ UNCHANGED row /\ Rejected(d, FALSE)
                          /\ UNCHANGED accepted /\ Outside

(* The catch block records the failure and throws. *)
Record(d) == /\ At(d, "record")
             /\ Update(d, "failed", job[d].attempt) /\ Rejected(d, FALSE)
             /\ UNCHANGED accepted /\ Outside

(* A rejected query: inside the try block it is recorded, the others are not. *)
StepFails(d) == /\ job[d].pc \in FailsAt
                /\ IF At(d, "settle") THEN GoTo(d, "record") ELSE Rejected(d, TRUE)
                /\ UNCHANGED <<row, accepted>> /\ Outside

(* The worker dies: the job is put back, or failed without its processor. *)
Crash(d) ==
  /\ Crashes /\ job[d].pc \notin {"absent", "waiting", "done"}
  /\ job' = [job EXCEPT ![d] = Fresh(IF @.stalled < MaxStalled THEN "waiting" ELSE "done",
                                     @.attempt, @.stalled + 1, FALSE)]
  /\ UNCHANGED <<row, accepted>> /\ Outside

-----------------------------------------------------------------------------
(* PATCH of the webhook. *)
ChangeHook == /\ monitor /\ \E h \in (Hooks \cup {NoUrl}) \ {hook} : hook' = h
              /\ UNCHANGED <<monitor, row, publisher, job, accepted>>

(* DELETE of the monitor, whose executions and deliveries go with it. *)
DeleteMonitor == /\ monitor /\ monitor' = FALSE
                 /\ row' = [d \in Deliveries |->
                              IF Exists(d) THEN [row[d] EXCEPT !.status = "deleted"] ELSE row[d]]
                 /\ UNCHANGED <<hook, publisher, job, accepted>>

(* applyRetention of a later execution. *)
ExpireExecution(d) == /\ Exists(d) /\ publisher[d] = "done"
                      /\ row' = [row EXCEPT ![d].status = "deleted"]
                      /\ UNCHANGED <<hook, monitor, publisher, job, accepted>>

Deliver(d) == \/ Begin(d) \/ Load(d) \/ LoadMonitor(d) \/ Skip(d)
              \/ Check(d) \/ Post(d) \/ Settle(d) \/ Record(d)

(* The observer of destinations: a try begins when the job is taken up, and *)
(* with each attempt or stall that BullMQ counts.                          *)
Destination == IF monitor THEN hook ELSE NoUrl
NewTry(d) == At(d, "waiting") \/ job'[d].attempt # job[d].attempt \/ job'[d].stalled # job[d].stalled
Observe == held' = [d \in Deliveries |-> {Destination'} \cup IF NewTry(d) THEN {} ELSE held[d]]

Next == /\ \/ ChangeHook \/ DeleteMonitor
           \/ \E d \in Deliveries :
                \/ InsertDelivery(d) \/ EnqueueWebhook(d) \/ NoteFailedPublication(d)
                \/ Deliver(d) \/ StepFails(d) \/ Crash(d) \/ ExpireExecution(d)
        /\ Observe

Spec == Init /\ [][Next]_vars

(* A live worker takes waiting jobs and goes on; requests end by timeout. *)
FairSpec == Spec /\ \A d \in Deliveries : /\ WF_vars(Deliver(d) /\ Observe)
                                        /\ WF_vars(NoteFailedPublication(d) /\ Observe)

-----------------------------------------------------------------------------
Steps == {"load", "loadMonitor", "skip", "check", "post", "settle", "record"}

StateOK ==
  /\ hook \in Hooks \cup {NoUrl} /\ monitor \in BOOLEAN
  /\ row \in [Deliveries -> [status : {"none", "queued", "delivered", "failed", "skipped", "deleted"},
                             attempt : 0..MaxAttempts]]
  /\ publisher \in [Deliveries -> {"idle", "publish", "note", "done"}]
  /\ job \in [Deliveries -> [pc : Steps \cup {"absent", "waiting", "done"}, url : Urls \cup {NoUrl},
                             redirects : 0..MaxRedirects, found : BOOLEAN, attempt : 1..MaxAttempts,
                             stalled : 0..(MaxStalled + 1), silent : BOOLEAN]]
  /\ accepted \in [Deliveries -> Nat]

TypeOK == StateOK /\ held \in [Deliveries -> SUBSET (Hooks \cup {NoUrl})]

(* Each try reads the destination again: whatever the owner changes between *)
(* and during the attempts, the alert first goes to an address that was the *)
(* monitor's webhook at some time of the current try, and it is skipped     *)
(* only when the monitor had none then or the delivery is gone.             *)
DestinationIsCurrent == \A d \in Deliveries :
  /\ At(d, "post") /\ job[d].redirects = 0 => job[d].url \in held[d]
  /\ At(d, "skip") => NoUrl \in held[d] \/ ~Exists(d)

(* Retries, stalls and lost answers repeat an alert, but no destination     *)
(* sees it more often than the attempts and the stall that is forgiven.     *)
RepetitionIsBounded == \A d \in Deliveries : accepted[d] <= MaxAttempts + MaxStalled

(* Deliveries implement the promise of alerts: one is reported as delivered *)
(* only after the destination took it, whatever fails in between.           *)
Promise == INSTANCE AlertPromise WITH
  report <- [d \in Deliveries |-> row[d].status],
  sent <- [d \in Deliveries |-> accepted[d] > 0]
KeepsPromise == Promise!Spec

(* A published alert does not stay queued, unless its worker died too often *)
(* or the database rejected the queries of the last attempt.                *)
AlertsAreDecided == \A d \in Deliveries :
  At(d, "waiting") ~> row[d].status # "queued" \/ job[d].stalled > MaxStalled \/ job[d].silent
=============================================================================
