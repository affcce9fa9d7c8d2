# A verification project for ChangeLens

ChangeLens (`src/`) watches web pages. A user describes a *monitor* (a URL, CSS
selectors, a schedule); workers crawl the page politely, extract the fields, store
the result as an *execution*, compare it with the previous one and deliver a signed
webhook when something changed. This directory holds TLA+ models of its
concurrent parts, TLC configurations that check them on small instances, and
proofs of their main properties for every instance.

Paths below are relative to the root of the repository.

## 1. Inventory

| Component | Source | State it keeps | Operations | Talks to |
| --- | --- | --- | --- | --- |
| Domain lease | `apps/worker/src/domain-policy.ts` | two Redis keys per hostname: `lock` (token, TTL) and `last_started` | acquire (SET NX, GET, sleep, SET), release (compare and delete) | Redis; called by the extraction processor |
| Extraction job | `apps/worker/src/processors/extraction.ts`, `apps/worker/src/index.ts`, `packages/queue/src/index.ts` | rows of `executions`, `changes`, `monitors`; BullMQ job (attempts, lock, stalls, data) | resolve the context, claim, lease, crawl, store the screenshot, commit, follow-up, record a failure | PostgreSQL, BullMQ, lease, renderer, S3, alert queue |
| Change detection | the same processor, `packages/contracts/src/diff.ts` | `changes`, `alert_deliveries` | choose a baseline, compare, upsert, queue an alert | PostgreSQL, alert queue |
| Webhook delivery | `apps/worker/src/processors/webhook.ts` | `alert_deliveries.status`, the BullMQ alert job | load, skip, post with redirects, record | destination of the user |
| Monitor API | `apps/api/src/routes/monitors.ts`, `services/monitors.ts` | `monitors`, `extraction_fields`, job schedulers | create, patch, delete, run, preview | PostgreSQL, BullMQ, S3 |
| Evidence | `packages/storage/src/index.ts`, retention in the processor | S3 objects, `executions.screenshot_key` | put, get, delete; retention; DELETE of a monitor | S3 |
| Renderer | `packages/scraper/src/extractor.ts` | none across calls | static, browser and auto mode, robots, blocking | Crawlee, Playwright |
| URL policy | `packages/scraper/src/url-policy.ts` | none | classify addresses, resolve, assert | DNS |
| Values, change set | `packages/scraper/src/values.ts`, `packages/contracts/src/diff.ts` | none | parse numbers, canonicalise, diff | - |
| Accounts | `apps/api/src/plugins/auth.ts`, `apps/web/src/components/auth-provider.tsx`, `app-shell.tsx` | `users`, `sessions`, cookies; user and page of a tab | register, log in, log out, authenticate | PostgreSQL, browser |
| Preview polling | `apps/web/src/app/(app)/monitors/new/page.tsx` | page state | create a preview, poll it 20 times | API |
| Read-only API, server shell, web interface, contracts, configuration, seed and migrations | `apps/api`, `apps/web`, `packages/*` | none of their own | queries, rendering, wiring | - |

What is hard, and what would make each component correct:

* **Lease.** Concurrency and time: a token that outlives its key, sleeping while
  holding a lease that is never renewed, workers that die with the lock. Correct
  when crawls of a host start one at a time and `DOMAIN_MIN_DELAY_MS` apart, nobody
  frees a lock of another, and every call is answered.
* **Extraction job.** Crashes between any two awaits, retries, stalls, lost locks,
  rows deleted under a running job, three stores (row, monitor, queue) that must
  agree without a common transaction. Correct when a job runs one execution, its row
  follows its lifecycle, a success is final and complete, and the verdict in the
  database is the verdict of the queue.
* **Change detection.** Executions of one monitor overlap and overtake each other;
  the baseline is read before the transaction. Correct when a value is reported
  once, against the value that was seen before it.
* **Webhook delivery.** At-least-once posting with a status update after it. Correct
  when delivered is reported only of what a destination took, repetition is bounded,
  each try goes to the webhook of that time, and a published alert is decided.
* **Monitor API.** PATCH, DELETE and create write PostgreSQL and Redis one after the
  other, without a common transaction. What can be asked is that an undisturbed
  request repairs what earlier ones left, and that no job runs without a monitor.
* **Evidence.** Objects and rows are written and deleted separately. Correct when
  no row points to a missing object and no object is forgotten. The second is not so
  once an execution fails or overlaps a deletion, against the documents (see §3).
* **Renderer.** A static attempt, a browser as its substitute or only for a screenshot,
  and errors that decide between retry and final verdict. Correct when one call starts
  one browser at most and none after a refusal, returns results of accepted pages only, and
  calls a page blocked for a reason.
* **URL policy, values, change set.** Pure: correct when numbers are read as they are
  shown, and the change set is the exact difference of two outputs.
* **Web interface and accounts.** Tabs share cookies, calls overlap, answers come late.
  Correct when an email has one account, a mutation runs under the session whose
  CSRF cookie it was composed with, and a preview ends.

`PROJECT.json` lists the hazards with the line where each bites and the property that
covers it, or the reason why none does.

## 2. Modules

| Module | Models |
| --- | --- |
| `PacedStarts` | abstract: starts of crawls of a host, `MinDelay` apart |
| `DomainLease` | `acquireDomainLease` and release, Redis keys with expiry, time |
| `MCDomainLease` | instances for TLC |
| `DomainLeaseProofs` | theorems about `DomainLease` |
| `ExecutionLifecycle` | abstract: the life of a row of `executions` |
| `ExtractionJob` | request, BullMQ job, processor and the rows it writes |
| `MCExtractionJob` | instances for TLC |
| `ExtractionJobProofs` | theorems about `ExtractionJob` with crashes: types, lifecycle, the final success |
| `JobVerdictProofs` | more of them, about the end of the job: verdict, count, one execution, blocked targets |
| `ChangeDetection` | several executions of a monitor: baseline, comparison, alert |
| `ChangeSet` | pure: `canonicalize` and `buildChangeSet` |
| `AlertPromise` | abstract: what an alert promises |
| `WebhookDelivery` | an alert from its row to its final status |
| `WebhookDeliveryProofs` | theorems about `WebhookDelivery` |
| `MonitorApi` | create, PATCH, DELETE; scheduler, snapshots, screenshots, retention |
| `UrlPolicy`, `Values` | pure: URL rules, conversion of matched texts |
| `Renderer` | one call of `runExtraction` and the comparison of its result |
| `WebClient` | tabs, cookies, sign-in, previews, with the routes they call |
| `ChangeDetectionProofs`, `MonitorApiProofs`, `RendererProofs`, `WebClientProofs` | theorems about the module of that name; `RendererProofs` has the lemmas about `ChangeSet` |
| `MC...` | instances of each for TLC |

Operators whose name tells a slip (`LockWithoutNX`, `IdNotPersisted`, ...) are
mutated forms of the definition that follows them. No specification uses them; they
show that the properties would notice the slip.

The modules overlap where components meet. `ExtractionJob` has the life of one job in
full; the others take it as a few steps and have in detail what it abstracts:
`ChangeDetection` the comparison, `MonitorApi` snapshot and evidence, `WebhookDelivery`
the alert, `Renderer` the crawl, `DomainLease` the lock around it.

### DomainLease

One hostname (others have other keys). A worker stands for one call of
`acquireDomainLease` and the crawl after it; `pc` goes `idle - trying - reading -
pacing - crawling`. Each Redis command is one step: `Lock` is the successful
`SET NX PX`, `Retry` the failed one with its random pause, `ReadLast` the `GET` with
the computed sleep, `Start` the `SET last_started`, `Release` the Lua script.
`Abandon` is the death of the process or a rejected command at any point: the key
stays, under the token `Orphan`. Times are *remaining* times counted down by `Tick`, so
there is no clock to bound; a step that is due is taken within `MaxLag` ticks, which
stands for round trips and a busy event loop. `last_started` and the observer
`sinceStart` are ages, saturated at `LongestSleep`, beyond which nothing depends on them.
The hosts' clocks differ: `Ahead[w]` is how far that of worker `w` is ahead, at most
`MaxSkew`. `Start` writes a time by the writer's clock, which may lie in the future of
another host and then has a negative age; `ReadLast` compares it by the reader's. Durations
(`PX`, sleeps, the deadline of one call) do not depend on a clock's offset. By true time
the code can promise `MinDelay - MaxSkew` between starts (`PromisedDelay`), and a sleep may last
`MinDelay + MaxSkew` (`LongestSleep`).

`LeaseCoversPacing` (`LeaseTtl > LongestSleep + 2 * MaxLag`) is what the code needs and
the configuration does not enforce: the lease is `CRAWL_TIMEOUT_MS + 20 s` (from 25 s
on) and the delay may be 60 s.

### ExtractionJob

One job. `trigger` is the origin of its execution. The API inserts a row and
publishes (`RequestExecution`, `Publish`), removes the row when the publication is
reported as failed (`PublishFails`, `Undo`; the command may have arrived all the same)
or dies (`RequestDies`). A scheduler adds a job that names no execution yet.
`Take`, `Finish`, `StallCheck` and `LoseLock` are BullMQ as the code configures it: 3
attempts, one allowed stall, no call of the processor when a stall fails the job.
A slot of `proc` holds a processor; its `pc` is the await it is at:

| Step | `extraction.ts` |
| --- | --- |
| `select`, `insert`, `persist`, `load` | `resolveExecutionContext` (74-127) |
| `claim` | the update to `running` (178-191) |
| `lease`, `crawl`, `store`, `commit`, `followup` | the try block (197-326) |
| `record`, `count` | the catch block (353-376) |
| `release` | the finally block (389) |

The reads between `store` and `commit` (the baseline) belong to `commit` here: their
rejection is that of `store`. `StepFails` rejects the await a processor is at; `Crash`
kills it at any step; `LoseLock` lets BullMQ hand its job to another slot while it
goes on. `followup` abstracts retention and the alert to a step that may reject.
The environment pauses and deletes the monitor and lets retention remove rows at any
time. `FailsAt`, `Crashes` and `LockLoss` select the faults of a run.

`DeleteMonitor` is the final transaction of DELETE (the steps before it do not touch
what a job sees); `SetActive` is the committed update of PATCH.

### ChangeDetection

The executions of one monitor with a webhook, identified by their rank in the order of
`requestedAt`. What `ExtractionJob` has in detail (publication, resolution of the
context, locks of BullMQ) is one step here (`Request`, `Begin`), and `lease` abstracts
the lock of `DomainLease`: held by one execution, freed by it, by expiry after a crash
(`Orphan`), or by expiry under a live crawl when `Lapses` is set. In exchange the
reads and writes between crawl and alert are separate steps:

| Step | `extraction.ts` |
| --- | --- |
| `Crawl` | `runExtraction` (205-219) |
| `ReadBaseline` (`Comparable`, `Baseline`, `Compare`) | the select and `buildChangeSet` (230-244) |
| `Commit` | the transaction (247-296), rolled back when a foreign key is gone |
| `Retain` (`Expire`) | `applyRetention` (129-162, 299) with an arbitrary cutoff |
| `InsertAlert`, `PublishAlert` | the delivery row and `enqueueWebhook` (300-316) |
| `NoteFailedPublication` | the inner catch (317-324), whose update may reject as well |

A value stands for the canonical form of a whole output, which is all that
`hasChanges` depends on. The page may change at any time, so a crawl may see any value. `seen` and `truth` are
observers: what the last committed crawl saw and whether results were committed out of
order, and what each commit should have reported.

The monitor itself is neither deleted nor edited (the webhook and the retention period
come from the row as loaded).

### WebhookDelivery

`publisher[d]` is the extraction processor that inserts the delivery and publishes its
job (`InsertDelivery`, `EnqueueWebhook`, `NoteFailedPublication`); a publication may be
reported as failed and have arrived. `job[d]` is the BullMQ job with the processor at it:

| Step | `webhook.ts` |
| --- | --- |
| `load`, `loadMonitor`, `skip` | the queries before the try block (52-82) |
| `check`, `post` | one hop of `postWithSafeRedirects` (26-48): policy, request, redirect |
| `settle` | the update to `delivered` (109-121) |
| `record` | the catch block (123-135) |

`Post` lets the destination take the alert and its answer get lost. `StepFails` rejects
a query: inside the try block it is recorded, the queries outside only count as an
attempt. `Crash` puts the job back once and fails it the second time (BullMQ's default
for a worker that sets no limit). Meanwhile the webhook changes, the monitor is
deleted, retention removes the execution. `accepted` counts what the destination took;
`silent` is an observer of a last attempt that ended outside the catch block, `held` of the
destinations the monitor had during the present try. `Check` may accept or refuse any URL at any
time, since the resolver is asked anew; `fetch` resolves the name once more (`webhook.ts:34`), so
the address a request reaches need not be the one that was checked. SECURITY_MODEL.md:16 names
this residual risk, the model leaves the connection out, and no property claims anything about it.

### MonitorApi

One monitor. Each request is at an await of its handler (`create sync peek next audit
undo` for POST; `read check update sync peek next audit` for PATCH; `keys objects
unschedule delete` for DELETE), each scheduled job at one of `select fields insert load store
commit record expired purge objects`. `Sync` is `syncMonitorSchedule` with the row *this* request
committed, not with the current one; `Merged` is PATCH writing back every column it
read; `SelectMonitor` and `SelectFields` are the two queries of a snapshot;
`SelectExpired`, `DeleteExpired` and `DeleteExpiredObjects` are the three steps of
retention. URL and fields are version numbers. `RequestFails` and `JobFails` reject a step,
with or without effect where the step is a command to Redis or the store. A job goes
through `Record` (the catch block) when a step of the try block rejected, retention after the commit
included, and then starts again (`Again`): `Load` finds its row, which is `queued`
once more, and crawl, put and commit are repeated. `JobDies` lets it start again without the catch
block. How many attempts it has is left open here. `ObjectsStay` are deletions after retention
that reject unnoticed. `alone` and `calm` are observers: of an update that ran by itself, and
of a history without a failed execution or one that overlapped a deletion of its row.

Reached by the model and contradicted by no property, because no code prevents it: a
monitor and its scheduler disagree after two overlapping PATCH requests until the next
update; a failed creation whose scheduler was already made leaves the scheduler in
Redis (the answer, `monitors.ts:112`, says that no data was retained); an audit log that
fails after the commit answers an error for a change that was made; a resumed monitor
shows `paused` until its next run; an object of an attempt that failed before its
transaction, or that a rejected deletion left behind, stays in the store.

### Renderer, UrlPolicy, Values, ChangeSet

`Renderer` follows one call: `Start` (policy), `Fetch` and `Read` (static attempt, with
each redirect), `Open`, `Load` and `Render` (browser), `CompareOutputs` (the processor).
Crawlee and Playwright redirect, fail and time out at will. `Verdicts` asks the resolver anew at each
check, which may answer with any of `Answers`; `checks` is an observer of what each check said.
`purpose` tells a browser that
extracts from one that only takes the screenshot; `BrowserFails` has their different
error paths. `refused` collects what `guardBrowserRequests` aborts: the first of them
replaces a later error of the page (`extractor.ts:357`), so an outage may be
recorded as a block; `BlockedHasCause` states which causes a verdict can have.

A result of the browser is promised only what the code looks at: the target and the final URL
were accepted when they were checked, neither was refused by the route guard, and the chain kept
to the limit. Playwright shows the guard the first request of a chain, the handler looks at the last URL, so a
hop in between is followed unchecked, although README.md:126 lists every redirect. No
property covers those hops, nor the address a connection uses after the check
(SECURITY_MODEL.md:13 names that risk). A refused request that is neither of
the two URLs is aborted and the page goes on: `BlockedRequestIsAnError`, which is what
SECURITY_MODEL.md:44 says, does not hold (§3).
Pages are those of `MCRenderer`: a price in each notation, lists with blanks, words of
truth, with or without the need of a script.

`Values` reads texts as sequences of characters, because grouping and decimal separators
are the point; numbers count in thousandths. A single separator before exactly three
digits groups (1.234 is 1234): pages that show three decimals are misread, and are not
among the pages of the run. `UrlPolicy` keeps the order of the rules, which decides the
code of the verdict. The
redirect without destination of the static crawler (153-157) is left out: got always has
one. The browser started at line 395 is returned, not awaited, inside the try block, so
its failure does not reach the catch block and no second browser starts.

### WebClient

Tabs of one browser, one cookie jar, and the routes they call. A call is `composed` (it
reads the CSRF cookie), `sent` (the jar's cookies go with it), handled step by step on the
server, `answered` (it may set or clear cookies) and delivered. `Admit` is the hook against
forged requests and `authenticate`; `Register` and `InsertUser` are the lookup
and the insertion with the hashing between them; `CreateSession` may be followed by a failing
audit log, whose error answer sets the cookies all the same. `Routed` is what the pages do
with user and page. A preview is composed, inserted, published, polled `MaxPolls` times.
The model reaches a late answer to `/auth/me` that overwrites a sign-in, and a failing
sign-out that leaves the user shown.

## 3. Runs

| Run | Question | Bounds |
| --- | --- | --- |
| `lease_holds` | Exclusive and paced starts, no needless sleep, no foreign release, every call answered | 3 workers, delay 3, lag 1, one clock a tick behind the others, a lease of 7 ticks that crawls may outlive, fair |
| `job_nominal` | Do row, monitor and queue agree when no process dies? | every origin, 3 attempts, 2 slots |
| `job_crashes` | Lifecycle and finality of the row under crashes | every origin, 3 attempts, 1 stall, up to 4 rows, failures everywhere but in the follow-up |
| `job_lock_loss` | Limits and termination when two processors run one job | 2 attempts, 1 stall, 2 slots, a failing step before, in and after the try block |
| `job_error_after_commit` | *violation*: a success is sent back to the queue | the follow-up rejects |
| `job_stalled_out` | *violation*: a failed job without an error code | crashes only |
| `detect` | Is every report and alert right under overlap, crashes and lapsing leases? | 3 executions, 2 at a time, 2 values, 2 attempts, 1 stall; the commit and the publication reject (the note of a failed publication does not), leases lapse at any moment |
| `detect_overtaken` | *violation*: an unchanged value is alerted again | 2 at a time, no fault at all |
| `webhook` | Does an alert reach the destination of the moment, boundedly often, with a true report in the end? | 1 alert, 2 destinations that change and redirect to each other, 3 redirects, 4 attempts, 1 stall, every query rejects, crashes; fair |
| `monitor_api` | Do monitor and scheduler recover, are snapshots whole, does a named screenshot exist, and is any forgotten? | 3 requests, 2 scheduled executions, 2 of them all in progress at a time, 2 bodies of PATCH, every step rejects, crashes |
| `scrape` | Is a result within the policy, read and compared exactly, and a failure classified rightly? | 3 URLs, a resolver that answers anew, all modes, 2 redirects, 2 refused requests; pages with prices in 5 notations, lists and words of truth, 3 earlier outputs |
| `web` | Do accounts, sessions and previews survive tabs that overlap? | 2 tabs, 2 emails, 2 sessions, 1 preview, 3 acts of the user, 2 polls; fair |

The bounds are enough for the cases of interest to occur: with three workers one can
outlive its lease while another holds it and a third waits; with three attempts there is a first, a
middle and a last one; one allowed stall is the configured value, and `MaxRows` exceeds
the rows a job with these limits can create (one per attempt, one per stall). A further
worker or slot adds no new kind of interference, since all of them meet in one key,
or in one job. Three executions are the fewest with a result, one that overtakes and one
that is misled; two values tell same from changed. A job and a bounded number of executions
really end, so the runs of `ExtractionJob` and `ChangeDetection` do not look for deadlock; the lease goes on for ever.

One alert is enough for `webhook`, since alerts share only the monitor and its webhook,
which change at will; the limits are the configured ones. In `monitor_api` two requests
overlap and a third comes after both, or comes last of all and alone; a request overlaps an
execution, and two executions overlap, one that expires the row of the other. An execution
that waits for its retry counts as in progress. Two
redirects have a hop between target and final URL; one more than allowed, and two refusals, of
which only the first counts, reach every branch of `scrape`. In `web` three acts suffice for a sign-in
in one tab between composing and sending in the other. A monitor, an alert, a call and a
session that is out of acts come to an end, so those runs do not look for deadlock.

The three violations are disagreements between the documents and the code, quoted in
`PROJECT.json` under `findings`. Each of the properties is proved with the hypothesis that
excludes the cause (`SuccessIsNeverLost`, `FailuresAreCoded`, `SilentWhenInOrder`).
Six more show with other constants of the same modules: `MinimumStartDelay` fails with `MinDelay = 6`,
`LeaseTtl = 3` and clocks that agree (a delay above `CRAWL_TIMEOUT_MS + 20 s`, which the configuration accepts,
against ARCHITECTURE.md:65); `OneExecutionPerJob` fails with `Crashes = TRUE` (a worker dies
between the insertion and `updateData`, against ARCHITECTURE.md:120); `BlockedEndsJob` fails
with `"record"` in `FailsAt` (the update in the catch block rejects and its error replaces
the unrecoverable one, against ARCHITECTURE.md:125); `OneAlertPerChange` fails with
`{"publish", "note"}` in `FailsAt` (the update of an unpublished delivery rejects too, and the
retry inserts a second delivery: the cause of `job_error_after_commit`); `NothingOutlivesDeletion`
fails with `FailsAt = {}` and `Crashes = FALSE` (DELETE selects the keys once, `monitors.ts:256`, and
an execution under way stores its screenshot afterwards, against SECURITY_MODEL.md:55;
`NoScreenshotIsForgotten` says what holds before such an overlap); `BlockedRequestIsAnError` fails
with `MaxRedirects = 0` and `MaxRefused = 1` (the page loads although one of its assets was refused,
`url-policy.ts:173` and `extractor.ts:289`, against SECURITY_MODEL.md:44; `ResultIsWithinPolicy` says
which refusals do become errors).

### Fairness

* Lease: time passes (`Tick`) and a call with something to do does it
  (`Step`), which timers and Redis replies justify. Nothing is assumed of the crawl or
  the release: a holder may keep its lock until it expires.
* Job: slots take waiting jobs, a live processor goes on (every await is bounded: the
  crawl by its timeouts, the lease by its deadline), BullMQ's stall check keeps running.
  Publication, the scheduler and the environment are not fair.
* Webhook: the worker takes waiting jobs and goes on (a request ends by its timeout of
  10 s), and a live publisher notes a failed publication. Publication itself, the owner,
  retention and crashes are not fair.
* Web: a tab's calls are sent, handled and answered, or fail; its timer fires. Neither the
  user nor the worker is fair: previews end by themselves.
* The other runs check safety only.

## 4. Proofs

All theorems hold for every value of the constants that satisfies the named
assumptions; TLC evaluates the assumptions in the runs.
The type invariants of `MonitorApi` and `WebClient` (`Typing`) are proved and are part of no run.

`DomainLeaseProofs`: types for every schedule and every offset of the clocks; from `LeaseCoversPacing`, exclusive
starts and the refinement of `PacedStarts`. The invariant must know *why* the lock is
still held during the sleep: the remaining TTL exceeds the remaining wait plus the lag
still to be spent, and the remaining wait is at least what is missing to the promised delay.
`PacingInvariant` states this, one conjunct per phase. The rest needs no covering lease.
`SleepsAreNeeded` needs that the recorded start is the real one up to the skew
(`StartsAreRecorded`). `LockIsFreedByItsOwner` needs only that the key exists exactly while it has time left
(`LockHasTime`). `WaitIsBounded`, for pauses bounded by any `longest`: a call has at most
`TimeLeft` ticks ahead, which a tick shortens and no step of any call lengthens; `TimerInv`
bounds its timers in each phase.

`ExtractionJobProofs`:

* `TypeCorrect`, under every fault: attempts and stalls never pass their
  limits. Needs `JobInv`: a job that can run has attempts and stalls left, and only an
  active job has an owner.
* Under `SafeFaults` (no lost lock, no rejection between the commit and the end of
  the try block; crashes, and failures elsewhere, are allowed): `OnlyTheNamedRuns`,
  `SuccessStaysClean`, `OneChangeRowPerSuccess`, `JobImplementsLifecycle` (the
  refinement of `ExecutionLifecycle`) and `SuccessIsNeverLost`, which follows from the
  refinement. The inductive invariant `IInv` says that the owner is the only slot at
  work, that a processor past `load` works on the execution its job names, with the
  attempt number the queue will assign, on a row that is its own or gone (`StepInv`,
  `MyRow`), and what each row looks like (`RowInv`). Both assumptions are needed: the
  run `job_error_after_commit` breaks the second, and a processor that lost its lock
  overwrites the row of its successor.

`SuccessStaysClean` and `OneChangeRowPerSuccess` are facts of `RowInv` and part of no run.

`JobVerdictProofs` asks how the job ends, which crashes can leave open; each theorem names
the faults it excludes, and TLC finds the property violated under what is excluded:

* `BlockedIsNotRetried` and `BlockedIsFinal` under `CatchHolds` (the catch and finally blocks do
  not reject), with lost locks. `BlockedInv`: a slot that knows of a block is about to record it
  or ends with the unrecoverable error. With crashes, the first says that the owner's return
  fails the job; a worker that dies first is retried by the queue, so the second, that a blocked
  row is never attempted again, assumes that none does.
* `JobHasOneExecution` under `NamingHolds`: nothing is asked of a job that a request made; for
  a scheduled one no attempt may end between the insertion and `updateData`. The two
  origins have different invariants: `RequestInv`, the row is there before the job;
  `ScheduledInv`, a job without a name has no row unless its owner is about to name it.
* `VerdictIsRecorded` and `VerdictIsCountedOnce` under `QuietFaults` (no crash, no lost lock, no
  rejection of `load`, `claim`, `record` or `release`, for the second nor of `count`).
  `TurnInv` has what holds without lost locks alone: the owner is the one slot at work, on
  the execution its job names. `Decided` is the core of the rest: from the record on, the error a
  slot will end with and the row it wrote fit the conclusion the queue will draw from
  the attempts left. `CountStep` says the same of the counter of the monitor.
* From `TurnInv`, with crashes and every rejection but without lost locks: `SettledIsFinal`, no
  slot is at work for a job that is over, so row and counter stay; and `StepsAreBounded`, a
  variant of the attempts and stalls left, and the steps left in the present attempt.
* `TurnsAreBounded`, under every fault: with lost locks several processors work on one job, so
  there is no single variant. Each slot moves forward by itself, and what the queue has left to
  give (`TurnsLeft`) drops with every turn it gives.
* `VerdictsAreCoded`, under every fault: a row's verdict and its code are written and cleared
  together. With `VerdictIsRecorded` it gives `FailuresAreCoded`, under `QuietFaults`.

`WebhookDeliveryProofs`, for every number of alerts, URLs, redirects, attempts and stalls and
under every fault of the module: `TypeCorrect`, `DestinationsAreCurrent`, `RepetitionBound` and
`DeliveriesKeepPromise`, the refinement of `AlertPromise`. The inductive invariant has three
parts per alert. `JobInv`: a job that stalled too often is over, and there is none before its
publication. `TryInv`: what a destination took is at most the attempts and stalls behind the
job, plus one once the current attempt was answered; without the "once answered" the
bound would not be inductive. `RowInv`: a row appears with its publisher, and is settled only
after the alert was accepted. Each step of the processor is shown to leave a job that is
`Sound` for its alert, and an update of a row to be a report of the abstract one.
`HeldInv` adds, for `DestinationsAreCurrent`, that the URL a try starts with is among those the
monitor had since the try began. `DoneIsDecided` adds `DecidedInv`, what a job that is over did with its row, and
`AttemptsAreBounded` a variant of the attempts, the redirects and the steps left.

`ChangeDetectionProofs`, for any number of executions, values, attempts and stalls:

* `NoSecondAlert` (`OneAlertPerChange`), under `NoteHolds`: a publication and the note of its failure
  do not both reject. `AlertSound`: where a delivery row
  is, its result is stored and stays so; an attempt that follows a stall finds the success and ends.
* `ComparisonIsCurrent` (`BaselineIsCurrent`), as far as no lease lapsed. `LeaseInv` ties the
  slots between crawl and release to the lease; `ReadInv` says that what was read is
  still the baseline, since all others wait.
* `ChangesAgree` (`ChangeAgreesWithBaseline`) under `Steady`: leases do not lapse, or nothing
  fails after the transaction. Otherwise a result that is taken back is replaced under a
  comparison with it, as TLC shows. `BaseInv` includes results that are going to be stored.
* `ReportsHold` (`ReportsAreTrue`) and `NoChangeIsLost` (`ChangesAreAlerted`) under
  `NothingFailsAfterCommit`. `TruthInv`: as long as results came in order, the last row is the last
  crawl that committed. Without the hypothesis a job runs out of attempts between commit and
  alert, or sends its success back to the queue (`job_error_after_commit`).
* `NoChangeIsReportedTwice` (`ChangeIsReportedOnce`), under the same hypothesis: while results come
  in order, a result is the baseline of one other at most.
* `AnnouncedIsFinal`, under `NoteHolds`, and `ResultsAreFinal`, under `NothingFailsAfterCommit`:
  an announced or stored result keeps its value and its verdict (`Stays`) until it is deleted.
  Both follow from `ResultStays`: an attempt that finds a success ends.
* `SilentWhenInOrder`, under the same hypothesis: what `detect_overtaken` breaks holds as long as
  no result overtook another and no lease lapsed.

`MonitorApiProofs`, under every fault of the module and for any number of requests and
executions: `Typing`, `SnapshotsAreWhole`, `ScreenshotsExist`, `NoneIsForgotten` and
`ScheduleIsRepaired`. `Shape`: a monitor that exists is configured, and what a request carries to
its next step fits that step. `SnapshotInv`: fields found missing stay missing, and the
foreign key refuses the row. `RowInv`: a job that has not inserted its row has none.
`NamedInv`: a key a row names is in the store, or in the hands of a deletion; a retry puts the same
key again. `CalmInv`: without failures and overlaps, what is stored is named or in hand.
`RepairInv`: a request that is `alone` leaves scheduler and row in step after
each of its own steps, and no other is between two commands.

`RendererProofs`, for any pages, redirects and modes: `BrowserStartsOnce`, `ResultsAreAllowed`,
`StaticResultIsKept`, `BlocksAreCaused`, from `PathInv` (what was found out before a browser opens,
and which checks were made on the way, each with the answer of its moment) and `OutcomeInv`; and `ChangeSetsAreExact`, for all
outputs. The lemmas about `ChangeSet` carry it: applying the entries to the previous output gives the
current one (`AppliedIsCurrent`), there are entries exactly when the canonical forms
differ (`ChangesMeanDifference`), and the three kinds add up (`CountsAddUp`). The assumption on
the constants is that earlier outputs are what the type says, lists of fields with values (`IsOutput`).

`WebClientProofs`, for any number of tabs, emails, sessions and previews: `Typing`,
`AccountsAreUnique`, `MutationsKeepTheirSession` (the session is that of the CSRF cookie read when
the call was composed, which need not be that of the user the tab still shows). `CallInv` is what the last needs: a mutation that the
hook and `authenticate` let through carries the CSRF token of a session which was opened for the
user it runs as, whatever the cookies of the browser have become. `PreviewIsBounded`: a variant
of the polls left and the steps of the round; failures and lost answers do not raise it.

Only model-checked: all liveness (`EveryCallIsAnswered`, `ExecutionSettles`, `JobSettles`,
`AlertsAreDecided`, `PreviewingEnds`), which is out of this prover's reach, and `NumbersAreRead`:
`Values` reads texts with folds over their characters, where a proof would need
induction over data. Of the liveness properties the part that is not liveness is proved:
`WaitIsBounded`, `StepsAreBounded`, `TurnsAreBounded`, `AttemptsAreBounded` with
`DoneIsDecided`, and `PreviewIsBounded` bound what can happen before the end; that steps are
taken at all, and so that the end comes, rests on fairness and TLC.

## 5. Plan

Done, in this order: `DomainLease` with `PacedStarts`; `ExtractionJob` with
`ExecutionLifecycle`; `ChangeDetection`; `WebhookDelivery` with `AlertPromise`;
`MonitorApi` (schedule, snapshots, evidence); `Renderer` with `UrlPolicy`, `Values` and
`ChangeSet`; `WebClient`.

All safety properties of the passing runs but `NumbersAreRead` are proved. Still worth
proving: that the lock `ChangeDetection` assumes is what `DomainLease` gives, as a contract
both refine.

## 6. Not modelled

Page loading, HTML selectors and browsers (libraries); validation schemas
(declarations); dates and URLs among the extracted values (handed to the library);
read-only queries, exports and their formatting; metrics, logging and health endpoints;
the pages that show lists, dashboards, settings and one monitor (they render what a
query returns; `monitors/[id]/page.tsx:61` also links to an export route under
`/api/executions` which the API does not have: its export is
`/api/monitors/:id/export`), the form of a new monitor apart from its preview; demo data,
seed and migrations; the connection that follows a check of a URL, and the address it reaches.
