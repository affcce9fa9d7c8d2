----------------------- MODULE WebhookDeliveryProofs ------------------------
(***************************************************************************)
(* For any number of alerts, URLs, redirects, attempts and stalls, and     *)
(* whatever fails or dies: the variables stay in their ranges, each try is *)
(* sent to a destination of its time, no destination sees an alert too     *)
(* often, and deliveries implement the promise of alerts.                  *)
(***************************************************************************)
EXTENDS WebhookDelivery, TLAPS

Job == [pc : Steps \cup {"absent", "waiting", "done"}, url : Urls \cup {NoUrl},
        redirects : 0..MaxRedirects, found : BOOLEAN, attempt : 1..MaxAttempts,
        stalled : 0..(MaxStalled + 1), silent : BOOLEAN]

(* A job that stalled too often is over, and one that nobody published yet  *)
(* has not begun.                                                           *)
JobInv(d) == /\ job[d].stalled > MaxStalled => At(d, "done")
             /\ publisher[d] \in {"idle", "publish"} => job[d] = Idle

(* Each attempt and each stall repeats the alert at most once: what the     *)
(* destination has taken is bounded by those behind the job, and by the     *)
(* current one once the request was answered.                               *)
Answered(j) == j.pc \in {"settle", "record"} \/ (j.pc = "done" /\ j.stalled <= MaxStalled)
WithinTries(j, taken) ==
  taken <= (j.attempt - 1) + j.stalled + (IF Answered(j) THEN 1 ELSE 0)

(* A row appears with the first step of its publisher; it is settled and    *)
(* delivered only once the destination has accepted the alert.              *)
RowInv(d) == /\ publisher[d] = "idle" <=> row[d].status = "none"
             /\ At(d, "settle") => accepted[d] > 0
             /\ row[d].status = "delivered" => accepted[d] > 0

TryInv(d) == WithinTries(job[d], accepted[d])

IInv == StateOK /\ \A d \in Deliveries : JobInv(d) /\ RowInv(d) /\ TryInv(d)

LEMMA InitHolds == Init => IInv
<1> SUFFICES ASSUME Init PROVE IInv
  OBVIOUS
<1>1. StateOK
  BY DeliveryConstants DEF Init, StateOK, Idle, Fresh, Steps
<1>2. \A d \in Deliveries : JobInv(d) /\ RowInv(d) /\ TryInv(d)
  BY DeliveryConstants DEF Init, Idle, Fresh, JobInv, RowInv, TryInv, WithinTries, Answered, At
<1> QED
  BY <1>1, <1>2 DEF IInv

(* What a step of the webhook processor may leave in its job. *)
Sound(j, taken) == /\ j \in Job
                   /\ j.stalled > MaxStalled => j.pc = "done"
                   /\ j.pc = "settle" => taken > 0
                   /\ WithinTries(j, taken)

(* A job as BullMQ puts it back or gives it up. *)
LEMMA FreshIsSound ==
  ASSUME NEW p \in {"absent", "waiting", "done"}, NEW n \in 1..MaxAttempts, NEW k \in 0..(MaxStalled + 1),
         NEW silent \in BOOLEAN, NEW taken \in Nat, k > MaxStalled => p = "done",
         taken <= (n - 1) + k + (IF p = "done" /\ k <= MaxStalled THEN 1 ELSE 0)
  PROVE  Sound(Fresh(p, n, k, silent), taken)
BY DeliveryConstants DEF Fresh, Sound, Job, WithinTries, Answered

LEMMA AgainIsSound ==
  ASSUME NEW p \in {"absent", "waiting", "done"}, NEW n \in 1..MaxAttempts, NEW k \in 0..(MaxStalled + 1),
         NEW taken \in Nat, k > MaxStalled => p = "done",
         taken <= (n - 1) + k + (IF p = "done" /\ k <= MaxStalled THEN 1 ELSE 0)
  PROVE  Sound(Fresh(p, n, k, FALSE), taken)
BY DeliveryConstants DEF Fresh, Sound, Job, WithinTries, Answered

(* The extraction processor. *)
LEMMA PublisherHolds ==
  ASSUME IInv, NEW d \in Deliveries,
         InsertDelivery(d) \/ EnqueueWebhook(d) \/ NoteFailedPublication(d)
  PROVE  IInv'
<1> USE DeliveryConstants DEF IInv, StateOK, Steps, At, GoTo, Exists
<1>1. CASE InsertDelivery(d)
  <2>1. StateOK'
    BY <1>1 DEF InsertDelivery
  <2>2. ASSUME NEW e \in Deliveries PROVE (JobInv(e) /\ RowInv(e) /\ TryInv(e))'
    BY <1>1 DEF InsertDelivery, JobInv, RowInv, TryInv
  <2> QED
    BY <2>1, <2>2
<1>2. CASE EnqueueWebhook(d)
  <2>1. job[d] = Idle /\ publisher[d] = "publish" /\ publisher'[d] \in {"done", "note"}
    BY <1>2 DEF EnqueueWebhook, JobInv
  <2> DEFINE j == job'[d]
  <2>2. j \in {Idle, Fresh("waiting", 1, 0, FALSE)} /\ job' = [job EXCEPT ![d] = j]
    BY <1>2, <2>1 DEF EnqueueWebhook
  <2>0. Sound(j, 0) /\ j.pc \in {"absent", "waiting"} /\ j.stalled = 0
    BY <2>2, AgainIsSound DEF Fresh, Idle
  <2>3. StateOK'
    <3>1. j \in Job
      BY <2>0 DEF Sound
    <3>2. job' \in [Deliveries -> Job]
      BY <2>2, <3>1 DEF Job
    <3> QED
      BY <1>2, <3>2 DEF EnqueueWebhook, Job
  <2>4. ASSUME NEW e \in Deliveries PROVE (JobInv(e) /\ RowInv(e) /\ TryInv(e))'
    <3>1. j.pc \notin {"post", "settle"}
      BY <2>0
    <3>2. job'[d] = j /\ (e # d => job'[e] = job[e])
      BY <2>2
    <3>3. (JobInv(e) /\ RowInv(e))'
      BY <1>2, <2>0, <2>1, <3>1, <3>2 DEF EnqueueWebhook, JobInv, RowInv, Sound
    <3>4. e = d => accepted[e] <= 0
      BY <2>1 DEF TryInv, WithinTries, Answered, Idle, Fresh
    <3>5. e = d => TryInv(e)'
      BY <1>2, <2>0, <3>2, <3>4, AgainIsSound DEF EnqueueWebhook, TryInv, WithinTries, Sound, Job
    <3> QED
      BY <1>2, <3>2, <3>3, <3>5 DEF EnqueueWebhook, TryInv
  <2> QED
    BY <2>3, <2>4
<1>3. CASE NoteFailedPublication(d)
  BY <1>3 DEF NoteFailedPublication, Idle, Fresh, Update, JobInv, RowInv, TryInv, WithinTries, Answered
<1> QED
  BY <1>1, <1>2, <1>3

Reported(d) == \/ UNCHANGED row
               \/ \E s \in {"failed", "skipped", "delivered"}, n \in 0..MaxAttempts :
                    (s = "delivered" => accepted[d] > 0) /\ Update(d, s, n)

LEMMA StepIsSound ==
  ASSUME IInv, NEW d \in Deliveries, job[d].pc # "absent", NEW j, Sound(j, accepted'[d]),
         job' = [job EXCEPT ![d] = j], Outside, Reported(d),
         accepted' \in {accepted, [accepted EXCEPT ![d] = @ + 1]}
  PROVE  IInv'
<1> USE DeliveryConstants DEF IInv, StateOK, Outside
<1>1. publisher[d] \notin {"idle", "publish"}
  BY DEF JobInv, Idle, Fresh
<1>2. row' \in [Deliveries -> [status : {"none", "queued", "delivered", "failed", "skipped", "deleted"},
                              attempt : 0..MaxAttempts]]
  BY DEF Reported, Update
<1>3. \A e \in Deliveries : /\ row'[e].status = "none" <=> row[e].status = "none"
                            /\ row'[e].status = "delivered" =>
                                 row[e].status = "delivered" \/ (e = d /\ accepted[d] > 0)
  BY DEF Reported, Update, Exists
<1>4. \A e \in Deliveries : accepted[e] \in Nat /\ accepted'[e] \in Nat /\ accepted'[e] >= accepted[e]
  OBVIOUS
<1>5. job' \in [Deliveries -> Job] /\ job'[d] = j /\ \A e \in Deliveries \ {d} : job'[e] = job[e]
  BY DEF Sound, Job, Steps
<1>6. StateOK'
  BY <1>2, <1>5 DEF Job, Steps
<1>7. ASSUME NEW e \in Deliveries PROVE (JobInv(e) /\ TryInv(e))'
  BY <1>1, <1>5 DEF JobInv, TryInv, Sound, At, Job
<1>8. ASSUME NEW e \in Deliveries PROVE RowInv(e)'
  BY <1>3, <1>4, <1>5 DEF RowInv, Sound, At
<1> QED
  BY <1>6, <1>7, <1>8

(* A step inside an attempt keeps the bound. *)
LEMMA GoOn ==
  ASSUME NEW j \in Job, NEW k \in Job, NEW taken \in Nat, WithinTries(j, taken),
         k.attempt = j.attempt, k.stalled = j.stalled, ~Answered(j) \/ Answered(k)
  PROVE  WithinTries(k, taken)
<1>1. j.attempt \in Nat /\ j.stalled \in Nat
  BY DeliveryConstants DEF Job
<1> QED
  BY <1>1 DEF WithinTries

LEMMA UnreportedStep ==
  ASSUME IInv, NEW d \in Deliveries, job[d].pc # "absent", NEW j, Sound(j, accepted[d]),
         job' = [job EXCEPT ![d] = j], Outside, Reported(d), UNCHANGED accepted
  PROVE  IInv'
BY StepIsSound

LEMMA JobIsSound == ASSUME IInv, NEW d \in Deliveries
                    PROVE  Sound(job[d], accepted[d]) /\ row[d].attempt \in 0..MaxAttempts
                           /\ accepted[d] \in Nat
BY DEF IInv, StateOK, Job, Steps, Sound, JobInv, RowInv, TryInv, WithinTries, Answered, At

LEMMA MoveIsSound ==
  ASSUME NEW j, NEW taken \in Nat, Sound(j, taken), NEW p \in Steps \cup {"done"},
         p = "settle" => taken > 0,
         j.pc # "done", Answered(j) => p \in {"settle", "record", "done"}
  PROVE  Sound([j EXCEPT !.pc = p], taken)
<1> DEFINE k == [j EXCEPT !.pc = p]
<1>1. /\ k \in Job /\ k.pc = p /\ k.attempt = j.attempt /\ k.stalled = j.stalled
      /\ k.url = j.url /\ k.redirects = j.redirects
  BY DEF Sound, Job
<1>2. k.stalled <= MaxStalled
  BY <1>1, DeliveryConstants DEF Sound, Job
<1>3. WithinTries(k, taken)
  BY <1>1, <1>2, GoOn DEF Sound, Answered
<1> QED
  BY <1>1, <1>2, <1>3, DeliveryConstants DEF Sound, Job

(* The webhook processor up to the request. *)
LEMMA CheckingHolds ==
  ASSUME IInv, NEW d \in Deliveries,
         Begin(d) \/ Load(d) \/ LoadMonitor(d) \/ Skip(d) \/ Check(d)
  PROVE  IInv'
<1> DEFINE To(p) == [job[d] EXCEPT !.pc = p]
<1>0. /\ Sound(job[d], accepted[d]) /\ row[d].attempt \in 0..MaxAttempts
      /\ job \in [Deliveries -> Job] /\ accepted[d] \in Nat
      /\ hook \in Hooks \cup {NoUrl}
  BY JobIsSound DEF IInv, StateOK, Job, Steps
<1> USE DeliveryConstants
<1>1. CASE Begin(d)
  <2>1. Sound(To("load"), accepted[d])
    BY <1>0, <1>1 DEF Begin, At, Sound, Job, Steps, WithinTries, Answered
  <2> QED
    BY <2>1, <1>0, <1>1, UnreportedStep DEF Begin, At, GoTo, Reported
<1>2. CASE Load(d)
  <2> DEFINE j == [job[d] EXCEPT !.pc = "loadMonitor", !.found = Exists(d)]
  <2>1. Sound(j, accepted[d])
    BY <1>0, <1>2 DEF Load, At, Sound, Job, Steps, WithinTries, Answered, Exists
  <2>2. job' = [job EXCEPT ![d] = j]
    BY <1>0, <1>2 DEF Load
  <2> QED
    BY <2>1, <2>2, <1>2, UnreportedStep DEF Load, At, Reported
<1>3. CASE LoadMonitor(d)
  <2> DEFINE j == [job[d] EXCEPT !.pc = "check", !.url = hook, !.redirects = 0]
  <2>1. ASSUME hook # NoUrl PROVE Sound(j, accepted[d])
    <3>1. hook \in Urls
      BY <1>0, <2>1
    <3>2. /\ j \in Job /\ j.pc = "check" /\ j.redirects = 0 /\ j.stalled = job[d].stalled
          /\ j.attempt = job[d].attempt
      <4>1. job[d] \in Job /\ hook \in Urls \cup {NoUrl} /\ "check" \in Steps /\ 0 \in 0..MaxRedirects
        BY <1>0, <3>1 DEF Sound, Steps
      <4> QED
        BY <4>1 DEF Job
    <3>3. job[d].pc = "loadMonitor" /\ ~Answered(job[d])
      BY <1>3 DEF LoadMonitor, At, Answered
    <3>4. WithinTries(j, accepted[d])
      BY <1>0, <3>2, <3>3, GoOn DEF Sound
    <3> QED
      BY <1>0, <3>2, <3>3, <3>4 DEF Sound
  <2>3. Sound(To("skip"), accepted[d]) /\ Sound(To("done"), accepted[d])
    BY <1>0, <1>3, MoveIsSound DEF LoadMonitor, At, Steps, Answered
  <2>2. \/ hook # NoUrl /\ job' = [job EXCEPT ![d] = j]
        \/ job' = [job EXCEPT ![d] = To("skip")]
        \/ job' = [job EXCEPT ![d] = To("done")]
    BY <1>0, <1>3 DEF LoadMonitor, GoTo
  <2> QED
    BY <2>1, <2>2, <2>3, <1>3, UnreportedStep DEF LoadMonitor, At, Reported
<1>4. CASE Skip(d)
  <2>1. Sound(To("done"), accepted[d])
    BY <1>0, <1>4, MoveIsSound DEF Skip, At, Steps, Answered
  <2>2. Reported(d)
    BY <1>0, <1>4 DEF Skip, Reported
  <2> QED
    BY <2>1, <2>2, <1>0, <1>4, UnreportedStep DEF Skip, At, GoTo
<1>5. CASE Check(d)
  <2>1. Sound(To("post"), accepted[d])
    BY <1>0, <1>5, MoveIsSound DEF Check, At, Steps, Answered
  <2>2. Sound(To("record"), accepted[d])
    BY <1>0, <1>5, MoveIsSound DEF Check, At, Steps, Answered
  <2> QED
    BY <2>1, <2>2, <1>0, <1>5, UnreportedStep DEF Check, At, GoTo, Reported
<1> QED
  BY <1>1, <1>2, <1>3, <1>4, <1>5

(* BullMQ puts a rejected job back or gives it up. *)
LEMMA RejectedIsSound ==
  ASSUME IInv, NEW d \in Deliveries, NEW silent \in BOOLEAN, Rejected(d, silent), job[d].pc # "done"
  PROVE  \E j : Sound(j, accepted[d]) /\ job' = [job EXCEPT ![d] = j]
<1> USE DeliveryConstants
<1>1. Sound(job[d], accepted[d]) /\ accepted[d] \in Nat
  BY JobIsSound
<1>2. job[d].attempt \in 1..MaxAttempts /\ job[d].stalled \in 0..MaxStalled
  BY <1>1 DEF Sound, Job
<1>3. job[d].attempt < MaxAttempts => Sound(Fresh("waiting", job[d].attempt + 1, job[d].stalled, FALSE), accepted[d])
  BY <1>1, <1>2, DeliveryConstants DEF Fresh, Sound, Job, WithinTries, Answered
<1>4. Sound(Fresh("done", job[d].attempt, job[d].stalled, silent), accepted[d])
  <2>1. accepted[d] <= (job[d].attempt - 1) + job[d].stalled + 1
    BY <1>1, <1>2 DEF Sound, WithinTries
  <2> QED
    BY <1>1, <1>2, <2>1, DeliveryConstants, FreshIsSound
<1> QED
  BY <1>3, <1>4 DEF Rejected

(* The request, its answer, and what is recorded of it. *)
LEMMA PostingHolds ==
  ASSUME IInv, NEW d \in Deliveries,
         Post(d) \/ Settle(d) \/ Record(d) \/ StepFails(d) \/ Crash(d)
  PROVE  IInv'
<1> DEFINE To(p) == [job[d] EXCEPT !.pc = p]
<1>0. /\ Sound(job[d], accepted[d]) /\ accepted[d] \in Nat
      /\ job \in [Deliveries -> Job] /\ accepted \in [Deliveries -> Nat]
  BY JobIsSound DEF IInv, StateOK, Job, Steps
<1>a. job[d].attempt \in 0..MaxAttempts
  BY <1>0, DeliveryConstants DEF Sound, Job
<1> USE DeliveryConstants
<1>1. CASE Post(d)
  <2>1. ASSUME NEW next \in Urls \cup {NoUrl}, Redirect(d, next), UNCHANGED accepted
        PROVE IInv'
    <3> DEFINE j == [job[d] EXCEPT !.pc = "check", !.url = next, !.redirects = @ + 1]
    <3>1. ASSUME job[d].redirects # MaxRedirects, next \in Urls PROVE Sound(j, accepted[d])
      <4>1. job[d].redirects + 1 <= MaxRedirects /\ job[d].redirects \in Nat
        BY <1>0, <3>1 DEF Sound, Job
      <4>2. /\ j \in Job /\ j.pc = "check" /\ j.redirects = job[d].redirects + 1
            /\ j.stalled = job[d].stalled /\ j.attempt = job[d].attempt
        <5>1. job[d] \in Job /\ next \in Urls \cup {NoUrl} /\ "check" \in Steps
          BY <1>0 DEF Sound, Steps
        <5>2. job[d].redirects + 1 \in 0..MaxRedirects
          BY <4>1
        <5> QED
          BY <5>1, <5>2 DEF Job
      <4> QED
        BY <1>0, <1>1, <4>1, <4>2, GoOn DEF Post, At, Sound, Answered
    <3>2. Sound(To("record"), accepted[d])
      BY <1>0, <1>1 DEF Post, At, Sound, Job, Steps, WithinTries, Answered
    <3>3. \/ job[d].redirects # MaxRedirects /\ next \in Urls /\ job' = [job EXCEPT ![d] = j]
          \/ job' = [job EXCEPT ![d] = To("record")]
      BY <1>0, <2>1 DEF Redirect
    <3> QED
      BY <3>1, <3>2, <3>3, <1>1, <2>1, UnreportedStep DEF Post, At, Reported
  <2>2. ASSUME GoTo(d, "settle"), accepted' = [accepted EXCEPT ![d] = @ + 1] PROVE IInv'
    <3>1. accepted'[d] > 0
      BY <2>2, <1>0
    <3>2. Sound(To("settle"), accepted'[d])
      BY <3>1, <1>0, <1>1 DEF Post, At, Sound, Job, Steps, WithinTries, Answered
    <3> QED
      BY <3>2, <1>0, <1>1, <2>2, StepIsSound DEF Post, At, GoTo, Reported
  <2>3. ASSUME GoTo(d, "record"), accepted' \in {accepted, [accepted EXCEPT ![d] = @ + 1]} PROVE IInv'
    <3>1. Sound(To("record"), accepted'[d])
      BY <1>0, <1>1 DEF Post, At, Sound, Job, Steps, WithinTries, Answered
    <3> QED
      BY <3>1, <1>0, <1>1, <2>3, StepIsSound DEF Post, At, GoTo, Reported
  <2> QED
    BY <1>1, <2>1, <2>2, <2>3 DEF Post
<1>2. CASE Settle(d)
  <2>1. Sound(To("done"), accepted[d]) /\ accepted[d] > 0
    BY <1>0, <1>2 DEF Settle, At, Sound, Job, Steps, WithinTries, Answered
  <2>2. Reported(d)
    BY <1>a, <1>2, <2>1 DEF Settle, Reported
  <2> QED
    BY <2>1, <2>2, <1>0, <1>2, UnreportedStep DEF Settle, At, GoTo
<1>3. CASE Record(d)
  <2>1. Reported(d)
    BY <1>a, <1>3 DEF Record, Reported
  <2> QED
    BY <2>1, <1>3, RejectedIsSound, UnreportedStep DEF Record, At
<1>4. CASE StepFails(d)
  <2>1. At(d, "settle") => Sound(To("record"), accepted[d])
    BY <1>0 DEF At, Sound, Job, Steps, WithinTries, Answered
  <2>2. job[d].pc \notin {"absent", "done"} \/ UNCHANGED job
    BY <1>4 DEF StepFails
  <2>3. Reported(d)
    BY <1>4 DEF StepFails, Reported
  <2>4. CASE At(d, "settle")
    BY <2>1, <2>2, <2>3, <2>4, <1>0, <1>4, UnreportedStep DEF StepFails, At, GoTo
  <2>5. CASE ~At(d, "settle")
    BY <2>2, <2>3, <2>5, <1>4, RejectedIsSound, UnreportedStep DEF StepFails
  <2> QED
    BY <2>4, <2>5
<1>5. CASE Crash(d)
  <2> DEFINE j(p) == Fresh(p, job[d].attempt, job[d].stalled + 1, FALSE)
  <2>1. job[d].attempt \in 1..MaxAttempts /\ job[d].stalled \in 0..MaxStalled
    BY <1>0, <1>5 DEF Crash, Sound, Job
  <2>2. Sound(j("done"), accepted[d])
    BY <1>0, <2>1 DEF Fresh, Sound, Job, WithinTries, Answered
  <2>3. job[d].stalled < MaxStalled => Sound(j("waiting"), accepted[d])
    BY <1>0, <2>1 DEF Fresh, Sound, Job, WithinTries, Answered
  <2> QED
    BY <2>2, <2>3, <1>5, UnreportedStep DEF Crash, Reported
<1> QED
  BY <1>1, <1>2, <1>3, <1>4, <1>5

(* The owner and retention. *)
LEMMA OutsideHolds ==
  ASSUME IInv, \/ ChangeHook \/ DeleteMonitor
               \/ \E d \in Deliveries : ExpireExecution(d)
               \/ UNCHANGED vars
  PROVE  IInv'
<1> USE DeliveryConstants DEF IInv, StateOK, Steps, At, GoTo, Exists
<1>1. CASE ChangeHook
  BY <1>1 DEF ChangeHook, JobInv, RowInv, TryInv, WithinTries, Answered
<1>2. CASE DeleteMonitor
  <2>1. StateOK'
    <3>1. row' \in [Deliveries -> [status : {"none", "queued", "delivered", "failed", "skipped", "deleted"},
                                  attempt : 0..MaxAttempts]]
      BY <1>2 DEF DeleteMonitor
    <3> QED
      BY <1>2, <3>1 DEF DeleteMonitor
  <2>2. ASSUME NEW e \in Deliveries PROVE (JobInv(e) /\ RowInv(e) /\ TryInv(e))'
    BY <1>2 DEF DeleteMonitor, JobInv, RowInv, TryInv, WithinTries, Answered
  <2> QED
    BY <2>1, <2>2
<1>3. ASSUME NEW d \in Deliveries, ExpireExecution(d) PROVE IInv'
  BY <1>3 DEF ExpireExecution, JobInv, RowInv, TryInv, WithinTries, Answered
<1>4. CASE UNCHANGED vars
  BY <1>4 DEF vars, JobInv, RowInv, TryInv, WithinTries, Answered
<1> QED
  BY <1>1, <1>2, <1>3, <1>4

LEMMA Inductive == IInv /\ [Next]_vars => IInv'
BY PublisherHolds, CheckingHolds, PostingHolds, OutsideHolds DEF Next, Deliver

LEMMA Invariant == Spec => []IInv
BY InitHolds, Inductive, PTL DEF Spec

(* Retries, a stall and lost answers repeat an alert, but no destination    *)
(* takes it more often than there are attempts and forgiven stalls.         *)
THEOREM RepetitionBound == Spec => []RepetitionIsBounded
<1>1. IInv => RepetitionIsBounded
  <2> SUFFICES ASSUME IInv, NEW d \in Deliveries PROVE accepted[d] <= MaxAttempts + MaxStalled
    BY DEF RepetitionIsBounded
  <2>1. /\ job[d].attempt \in 1..MaxAttempts /\ job[d].stalled \in 0..(MaxStalled + 1)
        /\ accepted[d] \in Nat /\ MaxAttempts \in Nat /\ MaxStalled \in Nat
    BY DeliveryConstants DEF IInv, StateOK
  <2>2. WithinTries(job[d], accepted[d]) /\ (job[d].stalled > MaxStalled => job[d].pc = "done")
    BY DEF IInv, TryInv, JobInv, At
  <2> QED
    BY <2>1, <2>2 DEF WithinTries, Answered
<1> QED
  BY <1>1, Invariant, PTL

-----------------------------------------------------------------------------
(* Update reports a row that exists and touches no other. *)
LEMMA UpdateReports ==
  ASSUME IInv, NEW d \in Deliveries, NEW s \in {"failed", "skipped", "delivered"}, NEW n,
         Update(d, s, n), UNCHANGED accepted, s = "delivered" => accepted[d] > 0
  PROVE  Promise!Report(d) \/ UNCHANGED Promise!vars
<1>1. row \in [Deliveries -> [status : {"none", "queued", "delivered", "failed", "skipped", "deleted"},
                             attempt : 0..MaxAttempts]]
  BY DEF IInv, StateOK
<1> DEFINE report == [e \in Deliveries |-> row[e].status]
           sent == [e \in Deliveries |-> accepted[e] > 0]
<1>2. sent' = sent
  OBVIOUS
<1>3. CASE Exists(d)
  <2>1. report' = [report EXCEPT ![d] = s]
    BY <1>1, <1>3 DEF Update
  <2>2. report[d] \notin {"none", "deleted"} /\ (s = "delivered" => sent[d])
    BY <1>3 DEF Exists
  <2> QED
    BY <1>2, <2>1, <2>2 DEF Promise!Report
<1>4. CASE ~Exists(d)
  BY <1>2, <1>4 DEF Update, Promise!vars
<1> QED
  BY <1>3, <1>4

LEMMA RowsAreTyped ==
  IInv => /\ row \in [Deliveries -> [status : {"none", "queued", "delivered", "failed", "skipped", "deleted"},
                                     attempt : 0..MaxAttempts]]
          /\ accepted \in [Deliveries -> Nat]
BY DEF IInv, StateOK

(* Every step is one of the promise, or leaves report and sent alone. *)
LEMMA StepsKeepPromise == ASSUME IInv, [Next]_vars PROVE [Promise!Next]_(Promise!vars)
<1> DEFINE Kept == [Promise!Next]_(Promise!vars)
<1>0. UNCHANGED <<row, accepted>> => Kept
  BY DEF Promise!vars
<1>1. ASSUME NEW d \in Deliveries, InsertDelivery(d) PROVE Kept
  <2>1. row[d].status = "none"
    BY <1>1 DEF InsertDelivery, IInv, RowInv
  <2>2. Promise!Announce(d)
    BY <1>1, <2>1, RowsAreTyped DEF InsertDelivery, Promise!Announce
  <2> QED
    BY <2>2 DEF Promise!Next
<1>2. ASSUME NEW d \in Deliveries, Post(d) PROVE Kept
  <2>1. row[d].status # "none"
    BY <1>2 DEF Post, At, IInv, JobInv, RowInv, TryInv, WithinTries, Answered, Idle, Fresh
  <2>2. CASE accepted' = [accepted EXCEPT ![d] = @ + 1]
    <3> DEFINE sent == [e \in Deliveries |-> accepted[e] > 0]
    <3>0. ASSUME NEW e \in Deliveries
          PROVE  (accepted'[e] > 0) = (IF e = d THEN TRUE ELSE accepted[e] > 0)
      <4>1. accepted[e] \in Nat
        BY RowsAreTyped
      <4>2. accepted'[e] = IF e = d THEN accepted[e] + 1 ELSE accepted[e]
        BY <2>2, RowsAreTyped
      <4>3. CASE e = d
        <5>1. accepted'[e] > 0
          BY <4>1, <4>2, <4>3
        <5> QED
          BY <4>3, <5>1, Zenon
      <4>4. CASE e # d
        <5>1. accepted'[e] = accepted[e]
          BY <4>2, <4>4
        <5> QED
          BY <4>4, <5>1, Zenon
      <4> QED
        BY <4>3, <4>4
    <3>2. sent' = [e \in Deliveries |-> IF e = d THEN TRUE ELSE accepted[e] > 0]
      BY <3>0, Zenon
    <3>3. sent' = [sent EXCEPT ![d] = TRUE]
      BY <3>2, Zenon
    <3>1. Promise!Send(d)
      BY <1>2, <2>1, <3>3 DEF Post, Promise!Send
    <3> QED
      BY <3>1 DEF Promise!Next
  <2> QED
    BY <1>0, <1>2, <2>2 DEF Post
<1>3. ASSUME NEW d \in Deliveries, NEW s \in {"failed", "skipped", "delivered"}, NEW n,
             Update(d, s, n), UNCHANGED accepted, s = "delivered" => accepted[d] > 0
      PROVE  Kept
  BY <1>3, UpdateReports DEF Promise!Next
<1>4. ASSUME NEW d \in Deliveries,
             NoteFailedPublication(d) \/ Skip(d) \/ Settle(d) \/ Record(d)
      PROVE  Kept
  <2>1. At(d, "settle") => accepted[d] > 0
    BY DEF IInv, RowInv
  <2> QED
    BY <1>3, <1>4, <2>1 DEF NoteFailedPublication, Skip, Settle, Record
<1>5. ASSUME DeleteMonitor PROVE Kept
  <2>1. Promise!DiscardAll
    BY <1>5, RowsAreTyped DEF DeleteMonitor, Exists, Promise!DiscardAll
  <2> QED
    BY <2>1 DEF Promise!Next
<1>6. ASSUME NEW d \in Deliveries, ExpireExecution(d) PROVE Kept
  <2>1. Promise!Report(d)
    BY <1>6, RowsAreTyped DEF ExpireExecution, Exists, Promise!Report
  <2> QED
    BY <2>1 DEF Promise!Next
<1>7. ASSUME NEW d \in Deliveries,
             \/ EnqueueWebhook(d) \/ Begin(d) \/ Load(d) \/ LoadMonitor(d) \/ Check(d)
             \/ StepFails(d) \/ Crash(d)
      PROVE  Kept
  BY <1>0, <1>7 DEF EnqueueWebhook, Begin, Load, LoadMonitor, Check, StepFails, Crash
<1>8. ASSUME ChangeHook \/ UNCHANGED vars PROVE Kept
  BY <1>0, <1>8 DEF ChangeHook, vars
<1> QED
  BY <1>1, <1>2, <1>4, <1>5, <1>6, <1>7, <1>8 DEF Next, Deliver

(* Whatever fails or dies between the insertion of a delivery and its last  *)
(* attempt, webhook.ts implements the promise of alerts: delivered means    *)
(* that the destination has taken the alert, and nothing else is sent.      *)
THEOREM DeliveriesKeepPromise == Spec => KeepsPromise
<1>1. Init => Promise!Init
  <2>1. ASSUME Init, NEW d \in Deliveries PROVE row[d].status = "none" /\ (accepted[d] > 0) = FALSE
    BY <2>1 DEF Init
  <2>2. Init => [d \in Deliveries |-> accepted[d] > 0] = [d \in Deliveries |-> FALSE]
    BY <2>1, Zenon
  <2>3. Init => [d \in Deliveries |-> row[d].status] = [d \in Deliveries |-> "none"]
    BY <2>1, Zenon
  <2> QED
    BY <2>2, <2>3, Zenon DEF Promise!Init
<1>2. IInv /\ [Next]_vars => [Promise!Next]_(Promise!vars)
  BY StepsKeepPromise
<1> QED
  BY <1>1, <1>2, Invariant, PTL DEF Spec, KeepsPromise, Promise!Spec

-----------------------------------------------------------------------------
(* Where the job of an alert goes. *)
LEMMA GoesTo ==
  ASSUME IInv, NEW d \in Deliveries, NEW step \in Steps \cup {"done"}, GoTo(d, step)
  PROVE  /\ job'[d].pc = step /\ job'[d].found = job[d].found /\ job'[d].redirects = job[d].redirects
         /\ job'[d].attempt = job[d].attempt /\ job'[d].stalled = job[d].stalled
         /\ \A e \in Deliveries : e # d => job'[e] = job[e]
BY DEF IInv, StateOK, GoTo

LEMMA RejectedIs ==
  ASSUME IInv, NEW d \in Deliveries, NEW silent \in BOOLEAN, Rejected(d, silent)
  PROVE  /\ \/ /\ job[d].attempt < MaxAttempts /\ job'[d].pc = "waiting"
               /\ job'[d].attempt = job[d].attempt + 1
            \/ job'[d].pc = "done" /\ job'[d].attempt = job[d].attempt /\ job'[d].silent = silent
         /\ job'[d].stalled = job[d].stalled /\ job'[d].redirects = 0
         /\ \A e \in Deliveries : e # d => job'[e] = job[e]
BY DEF IInv, StateOK, Rejected, Fresh

LEMMA CrashedIs ==
  ASSUME IInv, NEW d \in Deliveries, Crash(d)
  PROVE  /\ job'[d].pc = IF job[d].stalled < MaxStalled THEN "waiting" ELSE "done"
         /\ job'[d].attempt = job[d].attempt /\ job'[d].stalled = job[d].stalled + 1
         /\ job'[d].redirects = 0
         /\ \A e \in Deliveries : e # d => job'[e] = job[e]
BY DEF IInv, StateOK, Crash, Fresh

LEMMA UpdateIs ==
  ASSUME IInv, NEW d \in Deliveries, NEW s \in {"failed", "skipped", "delivered"}, NEW n, Update(d, s, n)
  PROVE  row'[d].status # "queued" /\ \A e \in Deliveries : e # d => row'[e] = row[e]
BY RowsAreTyped DEF Update, Exists

-----------------------------------------------------------------------------
(* The observer: it holds the destination of the moment, and what a try     *)
(* has read of the monitor is among the destinations of that try.           *)
HeldInv(d) == /\ held[d] \subseteq Hooks \cup {NoUrl}
              /\ job[d].pc \in {"check", "post"} /\ job[d].redirects = 0 => job[d].url \in held[d]
              /\ At(d, "skip") => NoUrl \in held[d] \/ ~Exists(d)

(* A step of the job either keeps what its try has seen, or the try is over. *)
LEMMA HeldKeeps ==
  ASSUME IInv, [Next]_vars, NEW d \in Deliveries, HeldInv(d) PROVE HeldInv(d)'
<1> USE DEF At
<1>0. /\ job \in [Deliveries -> Job] /\ job[d].redirects \in 0..MaxRedirects
      /\ publisher[d] \in {"idle", "publish"} => job[d].pc = "absent"
      /\ hook \in Hooks \cup {NoUrl} /\ hook' \in Hooks \cup {NoUrl}
  <2>1. Idle.pc = "absent"
    BY DEF Idle, Fresh
  <2>2. publisher[d] \in {"idle", "publish"} => job[d] = Idle
    BY DEF IInv, JobInv
  <2>3. job \in [Deliveries -> Job]
    BY DEF IInv, StateOK, Job, Steps
  <2>4. job[d].redirects \in 0..MaxRedirects
    BY DEF IInv, StateOK
  <2>5. hook \in Hooks \cup {NoUrl} /\ hook' \in Hooks \cup {NoUrl}
    BY Inductive DEF IInv, StateOK
  <2> QED
    BY <2>1, <2>2, <2>3, <2>4, <2>5
<1>1. CASE UNCHANGED vars
  BY <1>1 DEF vars, HeldInv, Exists
<1>2. CASE Next
  <2>0. held'[d] = {Destination'} \cup IF NewTry(d) THEN {} ELSE held[d]
    BY <1>2 DEF Next, Observe
  <2>1. held'[d] \subseteq Hooks \cup {NoUrl}
    BY <2>0, <1>0 DEF HeldInv, Destination
  <2>2. ASSUME job'[d].pc \notin {"check", "post", "skip"} PROVE HeldInv(d)'
    BY <2>1, <2>2 DEF HeldInv
  <2>3. ASSUME ~NewTry(d), job'[d].pc = job[d].pc, job'[d].url = job[d].url,
               job'[d].redirects = job[d].redirects, Exists(d)' => Exists(d)
        PROVE  HeldInv(d)'
    BY <2>0, <2>1, <2>3 DEF HeldInv
  <2>4. ASSUME job'[d] = job[d], Exists(d)' => Exists(d) PROVE HeldInv(d)'
    <3>1. CASE job[d].pc = "waiting"
      BY <2>2, <2>4, <3>1
    <3>2. CASE job[d].pc # "waiting"
      BY <2>3, <2>4, <3>2 DEF NewTry
    <3> QED
      BY <3>1, <3>2
  <2>5. CASE ChangeHook \/ DeleteMonitor \/ \E c \in Deliveries : ExpireExecution(c)
    <3>1. job'[d] = job[d] /\ (Exists(d)' => Exists(d))
      BY <2>5, RowsAreTyped DEF ChangeHook, DeleteMonitor, ExpireExecution, Exists
    <3> QED
      BY <2>4, <3>1
  <2>6. ASSUME NEW c \in Deliveries, InsertDelivery(c) \/ EnqueueWebhook(c) \/ NoteFailedPublication(c)
        PROVE  HeldInv(d)'
    <3>1. CASE c = d /\ ~NoteFailedPublication(c)
      <4>1. job'[d].pc \in {"absent", "waiting"}
        BY <1>0, <2>6, <3>1 DEF InsertDelivery, EnqueueWebhook, Fresh
      <4> QED
        BY <2>2, <4>1
    <3>2. CASE c # d \/ NoteFailedPublication(c)
      <4>1. job'[d] = job[d] /\ (Exists(d)' => Exists(d))
        BY <1>0, <2>6, <3>2, RowsAreTyped
        DEF InsertDelivery, EnqueueWebhook, NoteFailedPublication, Update, Exists
      <4> QED
        BY <2>4, <4>1
    <3> QED
      BY <3>1, <3>2
  <2>7. ASSUME NEW c \in Deliveries, c # d, Deliver(c) \/ StepFails(c) \/ Crash(c) PROVE HeldInv(d)'
    <3>1. job'[d] = job[d]
      BY <1>0, <2>7, RejectedIs, CrashedIs
      DEF Deliver, Begin, Load, LoadMonitor, Skip, Check, Post, Redirect, Settle, Record, StepFails,
          GoTo, Rejected
    <3>2. Exists(d)' => Exists(d)
      BY <2>7, RowsAreTyped
      DEF Deliver, Begin, Load, LoadMonitor, Skip, Check, Post, Settle, Record, StepFails, Crash,
          Update, Exists
    <3> QED
      BY <2>4, <3>1, <3>2
  <2>8. CASE Begin(d) \/ Load(d) \/ Skip(d) \/ Settle(d)
    <3>1. job'[d].pc \notin {"check", "post", "skip"}
      BY <1>0, <2>8 DEF Begin, Load, Skip, Settle, GoTo, Job
    <3> QED
      BY <2>2, <3>1
  <2>9. CASE Record(d) \/ StepFails(d) \/ Crash(d)
    <3>1. \/ job'[d].pc \in {"waiting", "done"}
          \/ GoTo(d, "record")
      BY <2>9, RejectedIs, CrashedIs DEF Record, StepFails
    <3>2. job'[d].pc \notin {"check", "post", "skip"}
      BY <1>0, <3>1 DEF GoTo, Job
    <3> QED
      BY <2>2, <3>2
  <2>10. CASE LoadMonitor(d)
    <3>1. CASE job' = [job EXCEPT ![d].pc = "check", ![d].url = hook, ![d].redirects = 0]
               /\ monitor
      <4>1. job'[d].pc = "check" /\ job'[d].url = hook
        BY <1>0, <3>1 DEF Job
      <4>2. Destination' = hook
        BY <2>10, <3>1 DEF LoadMonitor, Outside, Destination
      <4> QED
        BY <2>0, <2>1, <4>1, <4>2 DEF HeldInv
    <3>2. CASE GoTo(d, "skip") /\ ~(monitor /\ Exists(d) /\ hook # NoUrl)
      <4>1. job'[d].pc = "skip"
        BY <1>0, <3>2 DEF GoTo, Job
      <4>2. Destination' = NoUrl \/ ~Exists(d)'
        BY <2>10, <3>2 DEF LoadMonitor, Outside, Destination, Exists
      <4> QED
        BY <2>0, <2>1, <4>1, <4>2 DEF HeldInv
    <3>3. CASE GoTo(d, "done")
      BY <2>2, <3>3, GoesTo
    <3> QED
      BY <2>10, <3>1, <3>2, <3>3 DEF LoadMonitor
  <2>11. CASE Check(d)
    <3>1. PICK step \in {"post", "record"} : GoTo(d, step)
      BY <2>11 DEF Check
    <3>2. /\ job'[d].pc = step /\ job'[d].url = job[d].url /\ job'[d].redirects = job[d].redirects
          /\ ~NewTry(d) /\ job[d].pc = "check"
      BY <1>0, <2>11, <3>1 DEF GoTo, Job, NewTry, Check
    <3> QED
      BY <2>0, <2>1, <3>2 DEF HeldInv
  <2>12. CASE Post(d)
    <3>1. ASSUME NEW next \in Urls \cup {NoUrl}, Redirect(d, next) PROVE HeldInv(d)'
      <4>1. \/ job'[d].pc = "record"
            \/ job'[d].pc = "check" /\ job'[d].redirects = job[d].redirects + 1
        BY <1>0, <3>1 DEF Redirect, Job
      <4>2. job[d].redirects + 1 # 0
        BY <1>0, DeliveryConstants
      <4> QED
        BY <2>1, <2>2, <4>1, <4>2 DEF HeldInv
    <3>2. ASSUME NEW step \in {"settle", "record"}, GoTo(d, step) PROVE HeldInv(d)'
      BY <2>2, <3>2, GoesTo DEF Steps
    <3> QED
      BY <2>12, <3>1, <3>2 DEF Post
  <2> QED
    BY <1>2, <2>5, <2>6, <2>7, <2>8, <2>9, <2>10, <2>11, <2>12 DEF Next, Deliver
<1> QED
  BY <1>1, <1>2

LEMMA HeldInvariant == Spec => [](IInv /\ held = [d \in Deliveries |-> held[d]] /\ \A d \in Deliveries : HeldInv(d))
<1> DEFINE Held == held = [d \in Deliveries |-> held[d]] /\ \A d \in Deliveries : HeldInv(d)
<1>1. Init => Held
  BY DEF Init, Idle, Fresh, HeldInv, At
<1>2. IInv /\ Held /\ [Next]_vars => Held'
  <2> SUFFICES ASSUME IInv, Held, [Next]_vars PROVE Held'
    OBVIOUS
  <2>1. held' = [d \in Deliveries |-> held'[d]]
    BY DEF Next, Observe, vars
  <2> QED
    BY <2>1, HeldKeeps
<1> QED
  BY <1>1, <1>2, Invariant, PTL DEF Spec

(* Every reachable state has variables of the declared ranges: attempts,    *)
(* stalls and redirects stay within their limits.                           *)
THEOREM TypeCorrect == Spec => []TypeOK
<1>1. IInv /\ held = [d \in Deliveries |-> held[d]] /\ (\A d \in Deliveries : HeldInv(d)) => TypeOK
  BY DEF IInv, TypeOK, HeldInv
<1> QED
  BY <1>1, HeldInvariant, PTL

(* Whatever the owner changes and whatever fails or dies, a try is sent to  *)
(* a destination the monitor had while it ran, and gives up without one     *)
(* only if the monitor had none then or the delivery is gone.               *)
THEOREM DestinationsAreCurrent == Spec => []DestinationIsCurrent
<1>1. (\A d \in Deliveries : HeldInv(d)) => DestinationIsCurrent
  BY DEF HeldInv, DestinationIsCurrent, At
<1> QED
  BY <1>1, HeldInvariant, PTL

-----------------------------------------------------------------------------
(* A row that is not there when it is loaded does not come back, and a job   *)
(* that is over has settled its row, unless its worker died too often or the *)
(* queries of its last attempt were rejected.                                *)
DecidedInv(d) ==
  /\ At(d, "loadMonitor") /\ ~job[d].found => row[d].status # "queued"
  /\ At(d, "done") => row[d].status # "queued" \/ job[d].stalled > MaxStalled \/ job[d].silent

LEMMA DecidedKeeps ==
  ASSUME IInv, [Next]_vars, NEW d \in Deliveries, DecidedInv(d) PROVE DecidedInv(d)'
<1> USE DEF DecidedInv, At
<1>0. /\ row \in [Deliveries -> [status : {"none", "queued", "delivered", "failed", "skipped", "deleted"},
                                 attempt : 0..MaxAttempts]]
      /\ publisher[d] = "idle" <=> row[d].status = "none"
      /\ publisher[d] \in {"idle", "publish"} => job[d].pc = "absent"
      /\ job \in [Deliveries -> Job]
  <2>1. Idle.pc = "absent"
    BY DEF Idle, Fresh
  <2>2. publisher[d] \in {"idle", "publish"} => job[d] = Idle
    BY DEF IInv, JobInv
  <2>3. job \in [Deliveries -> Job]
    BY DEF IInv, StateOK, Job, Steps
  <2> QED
    BY <2>1, <2>2, <2>3, RowsAreTyped DEF IInv, RowInv
(* A step that leaves the job alone does not put its row back. *)
<1>1. ASSUME job'[d] = job[d], row'[d].status # "queued" \/ UNCHANGED row \/ row'[d] = row[d]
      PROVE  DecidedInv(d)'
  BY <1>1
<1>2. ASSUME NEW c \in Deliveries, InsertDelivery(c) PROVE DecidedInv(d)'
  BY <1>0, <1>1, <1>2 DEF InsertDelivery
<1>3. ASSUME NEW c \in Deliveries, EnqueueWebhook(c) PROVE DecidedInv(d)'
  <2>1. CASE c = d
    BY <1>0, <1>1, <1>3, <2>1 DEF EnqueueWebhook, Fresh, IInv, StateOK
  <2>2. CASE c # d
    BY <1>0, <1>1, <1>3, <2>2 DEF EnqueueWebhook
  <2> QED
    BY <2>1, <2>2
<1>4. ASSUME NEW c \in Deliveries, NoteFailedPublication(c) PROVE DecidedInv(d)'
  BY <1>1, <1>4, UpdateIs DEF NoteFailedPublication
<1>5. ASSUME NEW c \in Deliveries, Begin(c) \/ Check(c) PROVE DecidedInv(d)'
  <2>1. UNCHANGED row /\ \E step \in Steps \ {"loadMonitor"} : GoTo(c, step)
    BY <1>5 DEF Begin, Check, Steps
  <2> QED
    BY <1>1, <2>1, GoesTo DEF Steps
<1>6. ASSUME NEW c \in Deliveries, Load(c) PROVE DecidedInv(d)'
  <2>1. CASE c = d
    <3>1. job'[d].pc = "loadMonitor" /\ (job'[d].found <=> Exists(d)) /\ UNCHANGED row
      BY <1>6, <2>1 DEF Load, IInv, StateOK
    <3> QED
      BY <3>1 DEF Exists
  <2>2. CASE c # d
    BY <1>0, <1>1, <1>6, <2>2 DEF Load
  <2> QED
    BY <2>1, <2>2
<1>7. ASSUME NEW c \in Deliveries, LoadMonitor(c) PROVE DecidedInv(d)'
  <2>0. UNCHANGED row
    BY <1>7 DEF LoadMonitor
  <2>1. CASE c # d
    BY <1>0, <1>1, <1>7, <2>0, <2>1 DEF LoadMonitor, GoTo
  <2>2. CASE c = d /\ GoTo(d, IF job[d].found THEN "skip" ELSE "done")
    <3>1. job[d].pc = "loadMonitor"
      BY <1>7, <2>2 DEF LoadMonitor
    <3> QED
      BY <2>0, <2>2, <3>1, GoesTo DEF Steps
  <2>3. CASE c = d /\ job' = [job EXCEPT ![d].pc = "check", ![d].url = hook, ![d].redirects = 0]
    <3>1. job'[d].pc = "check"
      BY <2>3 DEF IInv, StateOK
    <3> QED
      BY <3>1
  <2> QED
    BY <1>7, <2>1, <2>2, <2>3 DEF LoadMonitor
<1>8. ASSUME NEW c \in Deliveries, Skip(c) \/ Settle(c) PROVE DecidedInv(d)'
  <2>1. GoTo(c, "done") /\ \E s \in {"failed", "skipped", "delivered"}, n \in Nat : Update(c, s, n)
    BY <1>8, DeliveryConstants DEF Skip, Settle, IInv, StateOK
  <2> QED
    BY <1>1, <2>1, GoesTo, UpdateIs
<1>9. ASSUME NEW c \in Deliveries, Post(c) PROVE DecidedInv(d)'
  <2>1. UNCHANGED row /\ job'[c].pc \in {"check", "settle", "record"} /\ (c # d => job'[d] = job[d])
    <3>1. ASSUME NEW next \in Urls \cup {NoUrl}, Redirect(c, next)
          PROVE  job'[c].pc \in {"check", "record"} /\ (c # d => job'[d] = job[d])
      BY <1>0, <3>1 DEF Redirect, Job
    <3>2. ASSUME NEW step \in {"settle", "record"}, GoTo(c, step)
          PROVE  job'[c].pc = step /\ (c # d => job'[d] = job[d])
      BY <3>2, GoesTo DEF Steps
    <3> QED
      BY <1>9, <3>1, <3>2 DEF Post
  <2> QED
    BY <1>1, <2>1
<1>10. ASSUME NEW c \in Deliveries, Record(c) PROVE DecidedInv(d)'
  BY <1>1, <1>10, RejectedIs, UpdateIs DEF Record
<1>11. ASSUME NEW c \in Deliveries, StepFails(c) PROVE DecidedInv(d)'
  <2>1. UNCHANGED row /\ (GoTo(c, "record") \/ Rejected(c, TRUE))
    BY <1>11 DEF StepFails
  <2>2. CASE GoTo(c, "record")
    BY <1>1, <2>1, <2>2, GoesTo DEF Steps
  <2>3. CASE Rejected(c, TRUE)
    <3>1. c = d => job'[d].pc = "waiting" \/ job'[d].silent
      BY <2>3, RejectedIs
    <3>2. c = d => job'[d].pc \in {"waiting", "done"}
      BY <2>3, RejectedIs
    <3> QED
      BY <1>1, <2>1, <2>3, <3>1, <3>2, RejectedIs
  <2> QED
    BY <2>1, <2>2, <2>3
<1>12. ASSUME NEW c \in Deliveries, Crash(c) PROVE DecidedInv(d)'
  <2>1. job[c].stalled \in Nat /\ MaxStalled \in Nat /\ UNCHANGED row
    BY <1>12, DeliveryConstants DEF Crash, IInv, StateOK
  <2> QED
    BY <1>1, <1>12, <2>1, CrashedIs
<1>13. CASE DeleteMonitor \/ \E c \in Deliveries : ExpireExecution(c)
  BY <1>0, <1>1, <1>13 DEF DeleteMonitor, ExpireExecution, Exists
<1>14. CASE ChangeHook \/ UNCHANGED vars
  BY <1>1, <1>14 DEF ChangeHook, vars
<1> QED
  BY <1>2, <1>3, <1>4, <1>5, <1>6, <1>7, <1>8, <1>9, <1>10, <1>11, <1>12, <1>13, <1>14 DEF Next, Deliver

(* The safety half of AlertsAreDecided: when the queue is done with an alert *)
(* its row is settled or gone, unless its worker died too often or the       *)
(* queries of the last attempt were rejected.                                *)
THEOREM DoneIsDecided ==
  Spec => [](\A d \in Deliveries : At(d, "done") =>
               row[d].status # "queued" \/ job[d].stalled > MaxStalled \/ job[d].silent)
<1>1. Init => \A d \in Deliveries : DecidedInv(d)
  BY DEF Init, Idle, Fresh, DecidedInv, At
<1>2. IInv /\ (\A d \in Deliveries : DecidedInv(d)) /\ [Next]_vars => (\A d \in Deliveries : DecidedInv(d))'
  BY DecidedKeeps
<1>3. (\A d \in Deliveries : DecidedInv(d)) => \A d \in Deliveries : At(d, "done") =>
         row[d].status # "queued" \/ job[d].stalled > MaxStalled \/ job[d].silent
  BY DEF DecidedInv
<1> QED
  BY <1>1, <1>2, <1>3, Invariant, PTL DEF Spec

-----------------------------------------------------------------------------
(* The tries that are left to an alert, and the steps of the current one,   *)
(* two for each redirect that is still allowed.                             *)
TriesLeft(j) == (MaxAttempts - j.attempt) + (MaxStalled + 1 - j.stalled)

StepsLeft(j) ==
  CASE j.pc = "absent"      -> 2 * MaxRedirects + 9
    [] j.pc = "waiting"     -> 2 * MaxRedirects + 8
    [] j.pc = "load"        -> 2 * MaxRedirects + 7
    [] j.pc = "loadMonitor" -> 2 * MaxRedirects + 6
    [] j.pc = "check"       -> 2 * (MaxRedirects - j.redirects) + 5
    [] j.pc = "post"        -> 2 * (MaxRedirects - j.redirects) + 4
    [] j.pc = "settle" -> 3 [] j.pc = "record" -> 2 [] j.pc = "skip" -> 1 [] OTHER -> 0

Variant(j) == (2 * MaxRedirects + 10) * TriesLeft(j) + StepsLeft(j)

LEMMA VariantRange ==
  ASSUME NEW j \in Job, j.redirects <= MaxRedirects
  PROVE  /\ TriesLeft(j) \in 0..(MaxAttempts + MaxStalled) /\ StepsLeft(j) \in 0..(2 * MaxRedirects + 9)
         /\ Variant(j) \in Nat
<1>1. TriesLeft(j) \in 0..(MaxAttempts + MaxStalled)
  BY DeliveryConstants DEF Job, TriesLeft
<1>2. StepsLeft(j) \in 0..(2 * MaxRedirects + 9)
  BY DeliveryConstants DEF Job, StepsLeft
<1>3. (2 * MaxRedirects + 10) * TriesLeft(j) \in Nat
  BY <1>1, DeliveryConstants
<1> QED
  BY <1>1, <1>2, <1>3, DeliveryConstants DEF Variant

(* Either the try goes on, or a new one begins. *)
LEMMA VariantDrops ==
  ASSUME NEW j \in Job, NEW k \in Job, j.redirects <= MaxRedirects, k.redirects <= MaxRedirects,
         \/ k.attempt = j.attempt /\ k.stalled = j.stalled /\ StepsLeft(k) < StepsLeft(j)
         \/ TriesLeft(k) = TriesLeft(j) - 1
  PROVE  Variant(k) < Variant(j)
<1> DEFINE K == 2 * MaxRedirects + 10
<1>1. K \in Nat /\ TriesLeft(j) \in Nat /\ StepsLeft(j) \in Nat /\ StepsLeft(k) \in 0..(K - 1)
  BY VariantRange, DeliveryConstants
<1>2. CASE k.attempt = j.attempt /\ k.stalled = j.stalled /\ StepsLeft(k) < StepsLeft(j)
  <2>1. TriesLeft(k) = TriesLeft(j)
    BY <1>2 DEF TriesLeft
  <2>2. K * TriesLeft(j) \in Nat
    BY <1>1
  <2> QED
    BY <1>1, <1>2, <2>1, <2>2 DEF Variant
<1>3. CASE TriesLeft(k) = TriesLeft(j) - 1
  <2> HIDE DEF K
  <2>1. K * (TriesLeft(j) - 1) = K * TriesLeft(j) - K /\ K * TriesLeft(j) \in Nat
    BY <1>1
  <2>2. Variant(k) = K * (TriesLeft(j) - 1) + StepsLeft(k) /\ Variant(j) = K * TriesLeft(j) + StepsLeft(j)
    BY <1>3 DEF Variant, K
  <2> QED
    BY <1>1, <2>1, <2>2
<1> QED
  BY <1>2, <1>3

LEMMA JobStepDrops ==
  ASSUME IInv, [Next]_vars, NEW d \in Deliveries
  PROVE  job'[d] = job[d] \/ Variant(job'[d]) < Variant(job[d])
<1> DEFINE Drops == Variant(job'[d]) < Variant(job[d])
           Goal  == job'[d] = job[d] \/ Drops
<1>0. /\ job \in [Deliveries -> Job] /\ job[d] \in Job /\ job[d].redirects \in 0..MaxRedirects
      /\ publisher[d] = "publish" => job[d] = Idle
  BY DeliveryConstants DEF IInv, StateOK, Job, Steps, JobInv
<1>1. job'[d] \in Job /\ job'[d].redirects <= MaxRedirects
  BY Inductive DEF IInv, StateOK, Job, Steps
<1>2. ASSUME job'[d].attempt = job[d].attempt, job'[d].stalled = job[d].stalled,
             StepsLeft(job'[d]) < StepsLeft(job[d])
      PROVE  Drops
  BY <1>0, <1>1, <1>2, VariantDrops
<1>3. ASSUME TriesLeft(job'[d]) = TriesLeft(job[d]) - 1 PROVE Drops
  BY <1>0, <1>1, <1>3, VariantDrops
<1> HIDE DEF Drops
<1> USE DeliveryConstants
<1>4. ASSUME NEW c \in Deliveries, EnqueueWebhook(c) PROVE Goal
  <2>1. CASE c = d /\ job' = [job EXCEPT ![d] = Fresh("waiting", 1, 0, FALSE)]
    <3>1. job[d] = Idle
      BY <1>0, <1>4, <2>1 DEF EnqueueWebhook
    <3>2. /\ job[d].attempt = 1 /\ job[d].stalled = 0 /\ job[d].pc = "absent"
          /\ job'[d].attempt = 1 /\ job'[d].stalled = 0 /\ job'[d].pc = "waiting"
      BY <1>0, <2>1, <3>1 DEF Idle, Fresh
    <3> QED
      BY <1>2, <3>2 DEF StepsLeft
  <2> QED
    BY <1>0, <1>4, <2>1 DEF EnqueueWebhook
<1>5. ASSUME NEW c \in Deliveries, Begin(c) \/ Skip(c) \/ Check(c) \/ Settle(c) PROVE Goal
  <2>1. CASE c = d
    <3>1. PICK step \in Steps \cup {"done"} : GoTo(d, step)
      BY <1>5, <2>1 DEF Begin, Skip, Check, Settle, Steps
    <3>2. /\ job'[d].pc = step /\ job'[d].redirects = job[d].redirects
          /\ job'[d].attempt = job[d].attempt /\ job'[d].stalled = job[d].stalled
      BY <3>1, GoesTo
    <3>3. StepsLeft(job'[d]) < StepsLeft(job[d])
      BY <1>0, <1>5, <2>1, <3>2, GoesTo DEF Begin, Skip, Check, Settle, At, Steps, StepsLeft
    <3> QED
      BY <1>2, <3>2, <3>3
  <2>2. CASE c # d
    BY <1>0, <1>5, <2>2 DEF Begin, Skip, Check, Settle, GoTo
  <2> QED
    BY <2>1, <2>2
<1>6. ASSUME NEW c \in Deliveries, Load(c) PROVE Goal
  <2>1. CASE c = d
    <3>1. /\ job'[d].pc = "loadMonitor" /\ job[d].pc = "load"
          /\ job'[d].attempt = job[d].attempt /\ job'[d].stalled = job[d].stalled
      BY <1>0, <1>6, <2>1 DEF Load, At, Job
    <3> QED
      BY <1>2, <3>1 DEF StepsLeft
  <2> QED
    BY <1>0, <1>6, <2>1 DEF Load
<1>7. ASSUME NEW c \in Deliveries, LoadMonitor(c) PROVE Goal
  <2>1. CASE c = d
    <3>1. /\ job'[d].pc \in {"skip", "done"} \/ (job'[d].pc = "check" /\ job'[d].redirects = 0)
          /\ job[d].pc = "loadMonitor"
          /\ job'[d].attempt = job[d].attempt /\ job'[d].stalled = job[d].stalled
      BY <1>0, <1>7, <2>1 DEF LoadMonitor, GoTo, At, Job
    <3> QED
      BY <1>2, <3>1 DEF StepsLeft
  <2> QED
    BY <1>0, <1>7, <2>1 DEF LoadMonitor, GoTo
<1>8. ASSUME NEW c \in Deliveries, Post(c) PROVE Goal
  <2>1. CASE c = d
    <3>0. job[d].pc = "post"
      BY <1>8, <2>1 DEF Post, At
    <3>1. ASSUME NEW next \in Urls \cup {NoUrl}, Redirect(d, next)
          PROVE  /\ job'[d].attempt = job[d].attempt /\ job'[d].stalled = job[d].stalled
                 /\ \/ job'[d].pc = "check" /\ job'[d].redirects = job[d].redirects + 1
                    \/ job'[d].pc = "record"
      BY <1>0, <3>1 DEF Redirect, Job
    <3>2. ASSUME NEW step \in {"settle", "record"}, GoTo(d, step)
          PROVE  /\ job'[d].attempt = job[d].attempt /\ job'[d].stalled = job[d].stalled
                 /\ job'[d].pc \in {"settle", "record"}
      BY <3>2, GoesTo DEF Steps
    <3>3. /\ job'[d].attempt = job[d].attempt /\ job'[d].stalled = job[d].stalled
          /\ \/ job'[d].pc = "check" /\ job'[d].redirects = job[d].redirects + 1
             \/ job'[d].pc \in {"settle", "record"}
      BY <1>8, <2>1, <3>1, <3>2 DEF Post
    <3>4. StepsLeft(job'[d]) < StepsLeft(job[d])
      BY <1>0, <1>1, <3>0, <3>3 DEF StepsLeft
    <3> QED
      BY <1>2, <3>3, <3>4
  <2>2. CASE c # d
    BY <1>0, <1>8, <2>2 DEF Post, Redirect, GoTo
  <2> QED
    BY <2>1, <2>2
<1>9. ASSUME NEW c \in Deliveries, NEW silent \in BOOLEAN, Rejected(c, silent),
             job[c].pc \notin {"absent", "waiting", "done"}
      PROVE  Goal
  <2>1. CASE c = d
    <3>1. CASE job'[d].attempt = job[d].attempt + 1
      <4>1. TriesLeft(job'[d]) = TriesLeft(job[d]) - 1
        BY <1>0, <1>9, <2>1, <3>1, RejectedIs DEF TriesLeft, Job
      <4> QED
        BY <1>3, <4>1
    <3>2. CASE job'[d].pc = "done" /\ job'[d].attempt = job[d].attempt
      <4>1. StepsLeft(job[d]) > 0
        BY <1>0, <1>9, <2>1 DEF StepsLeft, Job, Steps
      <4>2. StepsLeft(job'[d]) = 0 /\ job'[d].stalled = job[d].stalled
        BY <1>9, <2>1, <3>2, RejectedIs DEF StepsLeft
      <4> QED
        BY <1>2, <3>2, <4>1, <4>2
    <3> QED
      BY <1>9, <2>1, <3>1, <3>2, RejectedIs
  <2> QED
    BY <1>9, <2>1, RejectedIs
<1>10. ASSUME NEW c \in Deliveries, Record(c) PROVE Goal
  BY <1>9, <1>10 DEF Record, At
<1>11. ASSUME NEW c \in Deliveries, StepFails(c) PROVE Goal
  <2>1. CASE At(c, "settle")
    <3>1. GoTo(c, "record")
      BY <1>11, <2>1 DEF StepFails
    <3>2. CASE c = d
      <4>1. /\ job'[d].pc = "record" /\ job[d].pc = "settle"
            /\ job'[d].attempt = job[d].attempt /\ job'[d].stalled = job[d].stalled
        BY <2>1, <3>1, <3>2, GoesTo DEF Steps, At
      <4> QED
        BY <1>2, <4>1 DEF StepsLeft
    <3> QED
      BY <3>1, <3>2, GoesTo DEF Steps
  <2>2. CASE ~At(c, "settle")
    <3>1. CASE job[c].pc \in {"absent", "waiting", "done"}
      BY <1>11, <3>1 DEF StepFails
    <3> QED
      BY <1>9, <1>11, <2>2, <3>1 DEF StepFails
  <2> QED
    BY <2>1, <2>2
<1>12. ASSUME NEW c \in Deliveries, Crash(c) PROVE Goal
  <2>1. CASE c = d
    <3>0. /\ job'[d].attempt = job[d].attempt /\ job'[d].stalled = job[d].stalled + 1
          /\ job[d].attempt \in Nat /\ job[d].stalled \in Nat
      BY <1>0, <1>12, <2>1, CrashedIs DEF Job
    <3>1. TriesLeft(job'[d]) = TriesLeft(job[d]) - 1
      BY <3>0 DEF TriesLeft
    <3> QED
      BY <1>3, <3>1
  <2> QED
    BY <1>12, <2>1, CrashedIs
<1>13. ASSUME NEW c \in Deliveries, InsertDelivery(c) \/ NoteFailedPublication(c) \/ ExpireExecution(c)
       PROVE  Goal
  BY <1>13 DEF InsertDelivery, NoteFailedPublication, ExpireExecution
<1>14. CASE ChangeHook \/ DeleteMonitor \/ UNCHANGED vars
  BY <1>14 DEF ChangeHook, DeleteMonitor, vars
<1> QED
  BY <1>4, <1>5, <1>6, <1>7, <1>8, <1>10, <1>11, <1>12, <1>13, <1>14 DEF Next, Deliver, Drops

(* Whatever fails or dies, only finitely many steps are spent on an alert:  *)
(* every step of its job lowers a natural number.  With DoneIsDecided, what *)
(* is left of AlertsAreDecided is that steps are taken, which is fairness.  *)
THEOREM AttemptsAreBounded ==
  Spec => /\ [](\A d \in Deliveries : Variant(job[d]) \in Nat)
          /\ [][\A d \in Deliveries : job'[d] = job[d] \/ Variant(job'[d]) < Variant(job[d])]_vars
<1>1. IInv => \A d \in Deliveries : Variant(job[d]) \in Nat
  BY VariantRange DEF IInv, StateOK, Job, Steps
<1>2. IInv /\ [Next]_vars
        => [\A d \in Deliveries : job'[d] = job[d] \/ Variant(job'[d]) < Variant(job[d])]_vars
  BY JobStepDrops
<1> QED
  BY <1>1, <1>2, Invariant, PTL DEF Spec
=============================================================================
