---------------------------- MODULE DomainLease ----------------------------
(***************************************************************************)
(* acquireDomainLease and the release of the lease it returns              *)
(* (apps/worker/src/domain-policy.ts), for one hostname.  Hostnames have   *)
(* disjoint Redis keys, so they do not interact.                           *)
(*                                                                         *)
(* A worker is one call of acquireDomainLease and the crawl that follows.  *)
(* Its token is a fresh UUID: the worker itself stands for the token of    *)
(* its present call, and Orphan for the token of a call that is over.      *)
(*                                                                         *)
(* Times are remaining times, counted down by Tick.  A step that is due    *)
(* (timer <= 0) is taken at most MaxLag ticks late: a Redis round trip or  *)
(* a busy event loop.  The model therefore needs no clock and no bound on  *)
(* how long it runs.  Only last_started is a clock's reading: one host     *)
(* writes it and another compares it with its own Date.now().              *)
(***************************************************************************)
EXTENDS Integers

CONSTANTS
  Workers,         \* concurrent extraction jobs for the host
  MinDelay,        \* DOMAIN_MIN_DELAY_MS
  LeaseTtl,        \* CRAWL_TIMEOUT_MS + 20 000
  AcquireTimeout,  \* CRAWL_TIMEOUT_MS + 20 000
  Backoffs,        \* the pauses between two tries for the lock
  MaxLag,          \* how late a due step may be taken
  MaxSkew,         \* how far the clocks of two hosts may differ
  Ahead,           \* how far the clock of each worker's host is ahead
  Free,            \* no lock key
  Orphan           \* the lock key holds the token of a call that is over

ASSUME TimesAreTicks ==
  /\ MinDelay \in Nat /\ AcquireTimeout \in Nat /\ MaxLag \in Nat
  /\ LeaseTtl \in Nat \ {0}
  /\ MaxSkew \in Nat /\ Ahead \in [Workers -> 0..MaxSkew]
  /\ Backoffs \subseteq Nat \ {0}
ASSUME TokensDiffer == Free # Orphan /\ Free \notin Workers /\ Orphan \notin Workers

VARIABLES
  lock,        \* value of the key changelens:domain:<host>:lock
  ttl,         \* time left to that key
  lastStarted, \* age of the value of ...:last_started by the true time
  pc,          \* where each call stands
  sinceStart,  \* observer: true time since a crawl last started
  timer,       \* when the next step of the call is due
  deadline     \* time left to acquire the lock

vars == <<lock, ttl, lastStarted, sinceStart, pc, timer, deadline>>

Timed == {"trying", "reading", "pacing"}
PCs == {"idle", "crawling"} \cup Timed

(* Mutated forms, named for the slip they make, stand before their originals. *)
AtLeastZero(n) == IF n > 0 THEN n ELSE 0

(* The longest sleep a reading of last_started can ask for: it was written  *)
(* just now by the fastest clock and is read by the slowest.  Ages are      *)
(* saturated there, because an age of LongestSleep asks for no sleep by     *)
(* any clock.  A key that expired (after 24 h) or was never set asks for    *)
(* none either and needs no value of its own.                               *)
LongestSleep == MinDelay + MaxSkew

AddsTheAge(age) == AtLeastZero(MinDelay + age)
WaitsInFull(age) == MinDelay

(* age is last_started's age by the reader's clock: negative when another   *)
(* host wrote a time that still lies in the reader's future.                *)
computeDomainDelay(age) == AtLeastZero(MinDelay - age)

Due(w, label) == pc[w] = label /\ timer[w] <= 0

Go(w, label, delay) == /\ pc' = [pc EXCEPT ![w] = label]
                       /\ timer' = [timer EXCEPT ![w] = delay]

Init == /\ lock = Free /\ ttl = 0
        /\ lastStarted = LongestSleep /\ sinceStart = LongestSleep
        /\ pc = [w \in Workers |-> "idle"]
        /\ timer = [w \in Workers |-> 0]
        /\ deadline = [w \in Workers |-> 0]

-----------------------------------------------------------------------------
(* The extraction processor calls acquireDomainLease. *)
Request(w) == /\ pc[w] = "idle"
              /\ Go(w, "trying", 0)
              /\ deadline' = [deadline EXCEPT ![w] = AcquireTimeout]
              /\ UNCHANGED <<lock, ttl, lastStarted, sinceStart>>

(* SET lock token PX ttl NX succeeds. *)
SetLock(w) == /\ lock' = w
              /\ ttl' = LeaseTtl

LockWithoutNX(w) == /\ Due(w, "trying")
                    /\ deadline[w] > 0
                    /\ SetLock(w)
                    /\ Go(w, "reading", 0)
                    /\ UNCHANGED <<lastStarted, sinceStart, deadline>>

Lock(w) == /\ Due(w, "trying")
           /\ deadline[w] > 0
           /\ lock = Free
           /\ SetLock(w)
           /\ Go(w, "reading", 0)
           /\ UNCHANGED <<lastStarted, sinceStart, deadline>>

(* The key is there: wait a random pause and look at the deadline again. *)
Retry(w) == /\ Due(w, "trying")
            /\ deadline[w] > 0
            /\ lock # Free
            /\ \E pause \in Backoffs : Go(w, "trying", pause)
            /\ UNCHANGED <<lock, ttl, lastStarted, sinceStart, deadline>>

TimeOutOffByOne(w) == /\ Due(w, "trying")
                      /\ deadline[w] < 0
                      /\ Go(w, "idle", 0)
                      /\ UNCHANGED <<lock, ttl, lastStarted, sinceStart, deadline>>

(* The deadline has passed: acquireDomainLease throws. *)
TimeOut(w) == /\ Due(w, "trying")
              /\ deadline[w] = 0
              /\ Go(w, "idle", 0)
              /\ UNCHANGED <<lock, ttl, lastStarted, sinceStart, deadline>>

(* GET last_started, then sleep for what is left of the minimum delay, if  *)
(* waitMs > 0, by the clock of this host.                                   *)
ReadLast(w) == /\ Due(w, "reading")
               /\ LET waitMs == computeDomainDelay(lastStarted + Ahead[w])
                  IN  Go(w, "pacing", IF waitMs > 0 THEN waitMs ELSE 0)
               /\ UNCHANGED <<lock, ttl, lastStarted, sinceStart, deadline>>

StartUnrecorded(w) == /\ Due(w, "pacing")
                      /\ sinceStart' = 0
                      /\ Go(w, "crawling", 0)
                      /\ UNCHANGED <<lock, ttl, lastStarted, deadline>>

(* SET last_started now, by this host's clock, and return the lease: the   *)
(* crawl starts.                                                            *)
Start(w) == /\ Due(w, "pacing")
            /\ lastStarted' = -Ahead[w]
            /\ sinceStart' = 0
            /\ Go(w, "crawling", 0)
            /\ UNCHANGED <<lock, ttl, deadline>>

DeleteAnyLock(w) == lock' = Free /\ ttl' = 0

(* The script deletes the key only when it still holds the caller's token. *)
DeleteOwnLock(w) == IF lock = w THEN lock' = Free /\ ttl' = 0
                                ELSE UNCHANGED <<lock, ttl>>

Release(w) == /\ pc[w] = "crawling"
              /\ DeleteOwnLock(w)
              /\ Go(w, "idle", 0)
              /\ UNCHANGED <<lastStarted, sinceStart, deadline>>

(* The process dies, or a Redis command of the call is rejected before the *)
(* lease object exists or while it is released: the key stays behind.      *)
Abandon(w) == /\ pc[w] # "idle"
              /\ lock' = IF lock = w THEN Orphan ELSE lock
              /\ Go(w, "idle", 0)
              /\ UNCHANGED <<ttl, lastStarted, sinceStart, deadline>>

Older(age) == IF age < LongestSleep THEN age + 1 ELSE LongestSleep

(* One tick passes; no due step is left waiting for more than MaxLag.      *)
Tick == /\ \A w \in Workers : pc[w] \in Timed => timer[w] > -MaxLag
        /\ ttl' = AtLeastZero(ttl - 1)
        /\ lock' = IF ttl > 1 THEN lock ELSE Free
        /\ lastStarted' = Older(lastStarted)
        /\ sinceStart' = Older(sinceStart)
        /\ timer' = [w \in Workers |-> IF pc[w] \in Timed THEN timer[w] - 1 ELSE timer[w]]
        /\ deadline' = [w \in Workers |-> AtLeastZero(deadline[w] - 1)]
        /\ UNCHANGED pc

Step(w) == Lock(w) \/ Retry(w) \/ TimeOut(w) \/ ReadLast(w) \/ Start(w)

Next == \/ Tick
        \/ \E w \in Workers : Step(w) \/ Request(w) \/ Release(w) \/ Abandon(w)

Spec == Init /\ [][Next]_vars

(* Time passes and a call that has work to do does it.  Nothing is assumed *)
(* of the crawl: a holder may never release.                               *)
Fairness == WF_vars(Tick) /\ \A w \in Workers : WF_vars(Step(w))

FairSpec == Spec /\ Fairness

-----------------------------------------------------------------------------
Tokens == Workers \cup {Free, Orphan}

(* No step is overdue by more than the lag, and no reading of last_started, *)
(* a future one included, asks for more than LongestSleep.                  *)
TypeOK == /\ lock \in Tokens
          /\ ttl \in 0..LeaseTtl
          /\ lastStarted \in -MaxSkew..LongestSleep /\ sinceStart \in 0..LongestSleep
          /\ pc \in [Workers -> PCs]
          /\ timer \in [Workers -> Int]
          /\ \A w \in Workers :
               timer[w] >= -MaxLag /\ (pc[w] = "pacing" => timer[w] <= LongestSleep)
          /\ deadline \in [Workers -> 0..AcquireTimeout]

(* The call that is about to start a crawl still owns the lock, so no other *)
(* call is between its SET NX and its start: starts are not concurrent.     *)
StartsAreExclusive == \A w \in Workers : pc[w] \in {"reading", "pacing"} => lock = w

(* A worker sleeps no longer than the policy needs: once MinDelay and the   *)
(* skew have passed since a crawl of the host started, nobody sleeps for    *)
(* it, however far in the future or the past last_started seems to lie.     *)
NobodySleepsForNothing ==
  \A w \in Workers : pc[w] = "pacing" /\ timer[w] > 0
    => sinceStart + timer[w] <= LongestSleep

(* The lease outlasts the wait it covers: the longest sleep and the lag of  *)
(* the two steps around it.  The environment schema allows values that      *)
(* break this (MinDelay up to 60 s, LeaseTtl from 25 s).                    *)
LeaseCoversPacing == LeaseTtl > LongestSleep + 2 * MaxLag

(* The documented policy: a crawl of the host starts only when the minimum  *)
(* delay has passed since the previous one, whichever worker made it.  By   *)
(* true time it is the minimum delay less the skew of the clocks.           *)
PromisedDelay == AtLeastZero(MinDelay - MaxSkew)
SinceStart == IF sinceStart < PromisedDelay THEN sinceStart ELSE PromisedDelay
Paced == INSTANCE PacedStarts WITH MinDelay <- PromisedDelay, sinceStart <- SinceStart
MinimumStartDelay == Paced!Spec

LockLapses == ttl = 1 /\ ttl' < ttl
HolderReleases == pc[lock] = "crawling" /\ pc'[lock] = "idle"

(* Only the owner of the lock or its expiry takes the lock away: a crawl    *)
(* that outlived its lease does not free the lease of the next one.         *)
OnlyOwnerFrees ==
  [][(lock \in Workers /\ lock' = Free) => (HolderReleases \/ LockLapses)]_vars

(* A call for the lease is answered, by a crawl or by an error, even when   *)
(* the present holder never releases.                                       *)
EveryCallIsAnswered == \A w \in Workers : pc[w] = "trying" ~> pc[w] \in {"crawling", "idle"}
=============================================================================
