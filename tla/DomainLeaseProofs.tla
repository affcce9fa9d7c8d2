------------------------ MODULE DomainLeaseProofs --------------------------
(***************************************************************************)
(* When the lease outlasts the pacing it covers, for any workers and any   *)
(* times and clocks: starts on one host are exclusive and at least the     *)
(* minimum delay, less the skew of the clocks, apart.                      *)
(* In any case: nobody sleeps longer than the policy needs, no crawl frees *)
(* the lease of another, and no call waits longer than its deadline, a     *)
(* pause, the longest sleep and the lag.                                   *)
(***************************************************************************)
EXTENDS DomainLease, TLAPS

(* The lock key exists exactly while it has time left. *)
LockHasTime == lock = Free <=> ttl = 0

(* Every start is recorded, by a clock that is at most MaxSkew ahead. *)
StartsAreRecorded == lastStarted <= sinceStart /\ sinceStart <= lastStarted + MaxSkew

(* A call that read nothing yet owns a lock as old as its own delay. *)
ReadingInv(w) == pc[w] = "reading" =>
  /\ lock = w
  /\ timer[w] >= -MaxLag /\ timer[w] <= 0
  /\ ttl >= LeaseTtl + timer[w]

(* A call that sleeps owns a lock that outlives its sleep, and when it wakes *)
(* up the promised delay will have passed.                                   *)
PacingInv(w) == pc[w] = "pacing" =>
  /\ lock = w
  /\ timer[w] >= -MaxLag
  /\ ttl >= timer[w] + LeaseTtl - MaxLag - LongestSleep
  /\ sinceStart + timer[w] >= MinDelay - MaxSkew \/ sinceStart = LongestSleep

IInv == /\ TypeOK /\ LockHasTime /\ StartsAreRecorded
        /\ \A w \in Workers : ReadingInv(w) /\ PacingInv(w)

(* Every reachable state has variables of the declared ranges: no step is    *)
(* more than MaxLag late, and whatever another host's clock wrote, a call    *)
(* sleeps at most LongestSleep.                                              *)
THEOREM TypeCorrect == Spec => []TypeOK
<1> USE TimesAreTicks DEF TypeOK, Tokens, PCs, Timed, LongestSleep
<1>1. Init => TypeOK
  BY DEF Init
<1>2. TypeOK /\ [Next]_vars => TypeOK'
  <2> SUFFICES ASSUME TypeOK, [Next]_vars PROVE TypeOK'
    OBVIOUS
  <2>1. CASE Tick
    BY <2>1 DEF Tick, AtLeastZero, Older
  <2>2. ASSUME NEW w \in Workers, Request(w) PROVE TypeOK'
    BY <2>2 DEF Request, Go
  <2>3. ASSUME NEW w \in Workers, Lock(w) PROVE TypeOK'
    BY <2>3 DEF Lock, SetLock, Go
  <2>4. ASSUME NEW w \in Workers, Retry(w) PROVE TypeOK'
    BY <2>4 DEF Retry, Go, Due
  <2>5. ASSUME NEW w \in Workers, TimeOut(w) PROVE TypeOK'
    BY <2>5 DEF TimeOut, Go
  <2>6. ASSUME NEW w \in Workers, ReadLast(w) PROVE TypeOK'
    BY <2>6 DEF ReadLast, Go, computeDomainDelay, AtLeastZero
  <2>7. ASSUME NEW w \in Workers, Start(w) PROVE TypeOK'
    BY <2>7 DEF Start, Go
  <2>8. ASSUME NEW w \in Workers, Release(w) PROVE TypeOK'
    BY <2>8 DEF Release, DeleteOwnLock, Go
  <2>9. ASSUME NEW w \in Workers, Abandon(w) PROVE TypeOK'
    BY <2>9 DEF Abandon, Go
  <2>10. CASE UNCHANGED vars
    BY <2>10 DEF vars
  <2> QED
    BY <2>1, <2>2, <2>3, <2>4, <2>5, <2>6, <2>7, <2>8, <2>9, <2>10 DEF Next, Step
<1> QED
  BY <1>1, <1>2, PTL DEF Spec

(* The strengthened invariant is inductive once the lease covers the pacing. *)
LEMMA PacingIsInductive ==
  ASSUME LeaseCoversPacing, IInv, TypeOK', [Next]_vars
  PROVE  IInv'
<1> USE TimesAreTicks, TokensDiffer DEF LeaseCoversPacing, LongestSleep, IInv, LockHasTime, StartsAreRecorded, ReadingInv, PacingInv
<1> SUFFICES LockHasTime' /\ StartsAreRecorded' /\ \A v \in Workers : ReadingInv(v)' /\ PacingInv(v)'
  OBVIOUS
<1>1. CASE Tick
  <2>1. LockHasTime'
    BY <1>1 DEF Tick, AtLeastZero, TypeOK
  <2>2. ASSUME NEW v \in Workers PROVE ReadingInv(v)'
    BY <1>1 DEF Tick, AtLeastZero, TypeOK, Timed
  <2>3. ASSUME NEW v \in Workers PROVE PacingInv(v)'
    BY <1>1 DEF Tick, AtLeastZero, Older, TypeOK, Timed
  <2>4. StartsAreRecorded'
    BY <1>1 DEF Tick, Older, TypeOK
  <2> QED
    BY <2>1, <2>2, <2>3, <2>4
<1>2. ASSUME NEW w \in Workers, Request(w) PROVE IInv'
  BY <1>2 DEF Request, Go, TypeOK
<1>3. ASSUME NEW w \in Workers, Lock(w) PROVE IInv'
  BY <1>3 DEF Lock, SetLock, Go, TypeOK
<1>4. ASSUME NEW w \in Workers, Retry(w) PROVE IInv'
  BY <1>4 DEF Retry, Go, TypeOK
<1>5. ASSUME NEW w \in Workers, TimeOut(w) PROVE IInv'
  BY <1>5 DEF TimeOut, Go, TypeOK
<1>6. ASSUME NEW w \in Workers, ReadLast(w) PROVE IInv'
  BY <1>6 DEF ReadLast, Go, TypeOK, Due, computeDomainDelay, AtLeastZero
<1>7. ASSUME NEW w \in Workers, Start(w) PROVE IInv'
  BY <1>7 DEF Start, Go, TypeOK, Due
<1>8. ASSUME NEW w \in Workers, Release(w) PROVE IInv'
  BY <1>8 DEF Release, DeleteOwnLock, Go, TypeOK
<1>9. ASSUME NEW w \in Workers, Abandon(w) PROVE IInv'
  BY <1>9 DEF Abandon, Go, TypeOK
<1>10. CASE UNCHANGED vars
  BY <1>10 DEF vars
<1> QED
  BY <1>1, <1>2, <1>3, <1>4, <1>5, <1>6, <1>7, <1>8, <1>9, <1>10 DEF Next, Step

LEMMA PacingInvariant == ASSUME LeaseCoversPacing PROVE Spec => []IInv
<1>1. Init => IInv
  BY TimesAreTicks, TokensDiffer
  DEF Init, IInv, TypeOK, Tokens, PCs, LongestSleep, LockHasTime, StartsAreRecorded, ReadingInv, PacingInv
<1>2. IInv /\ TypeOK' /\ [Next]_vars => IInv'
  BY PacingIsInductive, LeaseCoversPacing
<1> QED
  BY <1>1, <1>2, TypeCorrect, PTL DEF Spec

(* Between its SET NX and the start of its crawl a call owns the lock. *)
THEOREM ExclusiveStarts == ASSUME LeaseCoversPacing PROVE Spec => []StartsAreExclusive
<1>1. IInv => StartsAreExclusive
  BY DEF IInv, ReadingInv, PacingInv, StartsAreExclusive
<1> QED
  BY <1>1, PacingInvariant, LeaseCoversPacing, PTL

(* The lease implements PacedStarts: a start finds the promised delay over, *)
(* and no other step resets the time since the last start.                  *)
THEOREM StartsArePaced == ASSUME LeaseCoversPacing PROVE Spec => MinimumStartDelay
<1> USE TimesAreTicks DEF Paced!Next, Paced!Start, Paced!Pass,
                         SinceStart, PromisedDelay, LongestSleep, AtLeastZero
<1>1. Init => Paced!Init
  BY DEF Init, Paced!Init
<1>2. IInv /\ [Next]_vars => [Paced!Next]_SinceStart
  <2> SUFFICES ASSUME IInv, [Next]_vars PROVE [Paced!Next]_SinceStart
    OBVIOUS
  <2>1. CASE Tick
    BY <2>1 DEF Tick, Older, IInv, TypeOK
  <2>2. ASSUME NEW w \in Workers, Start(w) PROVE Paced!Start
    BY <2>2 DEF Start, Due, IInv, TypeOK, PacingInv
  <2>3. ASSUME NEW w \in Workers, Request(w) \/ Lock(w) \/ Retry(w) \/ TimeOut(w)
                               \/ ReadLast(w) \/ Release(w) \/ Abandon(w)
        PROVE UNCHANGED sinceStart
    BY <2>3 DEF Request, Lock, Retry, TimeOut, ReadLast, Release, Abandon
  <2>4. CASE UNCHANGED vars
    BY <2>4 DEF vars
  <2> QED
    BY <2>1, <2>2, <2>3, <2>4 DEF Next, Step
<1> QED
  BY <1>1, <1>2, PacingInvariant, LeaseCoversPacing, PTL DEF Spec, MinimumStartDelay, Paced!Spec
-----------------------------------------------------------------------------
(* For every configuration, also one whose lease does not cover the pacing: *)
(* once MinDelay and the skew have passed since the last start, nobody      *)
(* sleeps.                                                                  *)
THEOREM SleepsAreNeeded == Spec => []NobodySleepsForNothing
<1> DEFINE Needed == StartsAreRecorded /\ NobodySleepsForNothing
<1> USE TimesAreTicks DEF StartsAreRecorded, NobodySleepsForNothing, LongestSleep, TypeOK
<1>1. Init => Needed
  BY DEF Init
<1>2. TypeOK /\ Needed /\ [Next]_vars => Needed'
  <2> SUFFICES ASSUME TypeOK, Needed, [Next]_vars PROVE Needed'
    OBVIOUS
  <2>1. CASE Tick
    BY <2>1 DEF Tick, Older, Timed
  <2>2. ASSUME NEW w \in Workers, ReadLast(w) PROVE Needed'
    BY <2>2 DEF ReadLast, Go, computeDomainDelay, AtLeastZero
  <2>3. ASSUME NEW w \in Workers, Start(w) PROVE Needed'
    BY <2>3 DEF Start, Go
  <2>4. ASSUME NEW w \in Workers, Request(w) \/ Lock(w) \/ Retry(w) \/ TimeOut(w)
                               \/ Release(w) \/ Abandon(w)
        PROVE Needed'
    BY <2>4 DEF Request, Lock, Retry, TimeOut, Release, Abandon, Go
  <2>5. CASE UNCHANGED vars
    BY <2>5 DEF vars
  <2> QED
    BY <2>1, <2>2, <2>3, <2>4, <2>5 DEF Next, Step
<1> QED
  BY <1>1, <1>2, TypeCorrect, PTL DEF Spec
-----------------------------------------------------------------------------
(* For every configuration, also one whose lease does not cover the pacing: *)
(* the key of a worker goes by its own release or by expiry, so a crawl that *)
(* outlived its lease does not free the lease of the next one.              *)
THEOREM LockIsFreedByItsOwner == Spec => OnlyOwnerFrees
<1> USE TimesAreTicks, TokensDiffer
<1>1. Init => LockHasTime
  BY DEF Init, LockHasTime
<1>2. TypeOK /\ LockHasTime /\ [Next]_vars => LockHasTime'
  <2> SUFFICES ASSUME TypeOK, LockHasTime, [Next]_vars PROVE LockHasTime'
    OBVIOUS
  <2>1. CASE Tick
    BY <2>1 DEF Tick, AtLeastZero, TypeOK, LockHasTime
  <2>2. ASSUME NEW w \in Workers, Lock(w) \/ Release(w) \/ Abandon(w) PROVE LockHasTime'
    BY <2>2 DEF Lock, SetLock, Release, DeleteOwnLock, Abandon, TypeOK, LockHasTime
  <2>3. CASE UNCHANGED <<lock, ttl>>
    BY <2>3 DEF LockHasTime
  <2> QED
    BY <2>1, <2>2, <2>3 DEF Next, Step, Request, Retry, TimeOut, ReadLast, Start, vars
<1>3. TypeOK /\ LockHasTime /\ [Next]_vars
        => [(lock \in Workers /\ lock' = Free) => (HolderReleases \/ LockLapses)]_vars
  <2> SUFFICES ASSUME TypeOK, LockHasTime, [Next]_vars, lock \in Workers, lock' = Free
               PROVE  HolderReleases \/ LockLapses
    OBVIOUS
  <2>1. CASE Tick
    BY <2>1 DEF Tick, AtLeastZero, TypeOK, LockHasTime, LockLapses
  <2>2. ASSUME NEW w \in Workers, Release(w) PROVE HolderReleases
    BY <2>2 DEF Release, DeleteOwnLock, Go, TypeOK, HolderReleases
  <2>3. ASSUME NEW w \in Workers, Lock(w) \/ Abandon(w) PROVE FALSE
    BY <2>3 DEF Lock, SetLock, Abandon
  <2>4. lock' # lock
    OBVIOUS
  <2> QED
    BY <2>1, <2>2, <2>3, <2>4 DEF Next, Step, Request, Retry, TimeOut, ReadLast, Start, vars
<1> QED
  BY <1>1, <1>2, <1>3, TypeCorrect, PTL DEF Spec, OnlyOwnerFrees
-----------------------------------------------------------------------------
(* The longest wait ahead of a call: until its deadline and through the     *)
(* pause it may have begun just before, then the sleep it may owe, each     *)
(* step at most MaxLag late.  longest bounds the pauses.                    *)
TimeLeft(w, longest) ==
  CASE pc[w] = "trying" /\ deadline[w] > 0 -> deadline[w] + longest + LongestSleep + 3 * MaxLag
    [] pc[w] = "trying" /\ deadline[w] = 0 -> timer[w] + MaxLag
    [] pc[w] = "reading" -> timer[w] + LongestSleep + 2 * MaxLag
    [] OTHER -> timer[w] + MaxLag

(* How far ahead, or overdue, the next step of a call can be. *)
TimerInv(w, longest) ==
  /\ pc[w] \in Timed => timer[w] >= -MaxLag
  /\ pc[w] = "trying" => timer[w] <= longest
  /\ pc[w] = "reading" => timer[w] <= 0

LEMMA TimersStay ==
  ASSUME NEW longest \in Nat, \A pause \in Backoffs : pause <= longest,
         TypeOK, [Next]_vars, NEW w \in Workers, TimerInv(w, longest)
  PROVE  TimerInv(w, longest)'
<1> USE TimesAreTicks DEF TimerInv, TypeOK, Timed, LongestSleep
<1>1. CASE Tick
  BY <1>1 DEF Tick, AtLeastZero
<1>2. ASSUME NEW v \in Workers, Request(v) PROVE TimerInv(w, longest)'
  BY <1>2 DEF Request, Go
<1>3. ASSUME NEW v \in Workers, Lock(v) PROVE TimerInv(w, longest)'
  BY <1>3 DEF Lock, Go
<1>4. ASSUME NEW v \in Workers, Retry(v) PROVE TimerInv(w, longest)'
  BY <1>4 DEF Retry, Go
<1>5. ASSUME NEW v \in Workers, ReadLast(v) PROVE TimerInv(w, longest)'
  BY <1>5 DEF ReadLast, Go, computeDomainDelay, AtLeastZero
<1>6. ASSUME NEW v \in Workers, TimeOut(v) \/ Start(v) \/ Release(v) \/ Abandon(v)
      PROVE  TimerInv(w, longest)'
  BY <1>6 DEF TimeOut, Start, Release, Abandon, Go
<1>7. CASE UNCHANGED vars
  BY <1>7 DEF vars
<1> QED
  BY <1>1, <1>2, <1>3, <1>4, <1>5, <1>6, <1>7 DEF Next, Step

LEMMA TimersAreBounded ==
  ASSUME NEW longest \in Nat, \A pause \in Backoffs : pause <= longest
  PROVE  Spec => [](\A w \in Workers : TimerInv(w, longest))
<1> DEFINE Timers == \A w \in Workers : TimerInv(w, longest)
<1>1. Init => Timers
  <2> SUFFICES ASSUME Init, NEW w \in Workers PROVE TimerInv(w, longest)
    OBVIOUS
  <2>1. pc[w] = "idle" /\ deadline[w] = 0
    BY DEF Init
  <2> QED
    BY <2>1, TimesAreTicks DEF TimerInv, Timed
<1>2. TypeOK /\ Timers /\ [Next]_vars => Timers'
  BY TimersStay
<1> QED
  BY <1>1, <1>2, TypeCorrect, PTL DEF Spec

LEMMA TimeLeftRange ==
  ASSUME NEW longest \in Nat, TypeOK,
         NEW w \in Workers, TimerInv(w, longest), pc[w] \in Timed
  PROVE  TimeLeft(w, longest) \in 0..(AcquireTimeout + longest + LongestSleep + 3 * MaxLag)
<1> USE TimesAreTicks DEF TimerInv, TypeOK, Timed, LongestSleep
<1>1. CASE pc[w] = "trying"
  BY <1>1 DEF TimeLeft
<1>2. CASE pc[w] = "reading"
  BY <1>2 DEF TimeLeft
<1>3. CASE pc[w] = "pacing"
  BY <1>3 DEF TimeLeft
<1> QED
  BY <1>1, <1>2, <1>3

(* A tick takes its time off what is left. *)
LEMMA TickShortensWait ==
  ASSUME NEW longest \in Nat, TypeOK, Tick,
         NEW w \in Workers, TimerInv(w, longest), pc[w] \in Timed
  PROVE  TimeLeft(w, longest)' <= TimeLeft(w, longest) - 1
<1> USE TimesAreTicks DEF TimerInv, TypeOK, Timed, LongestSleep
<1>1. pc'[w] = pc[w] /\ timer'[w] = timer[w] - 1 /\ deadline'[w] = AtLeastZero(deadline[w] - 1)
  BY DEF Tick
<1>2. CASE pc[w] = "trying"
  BY <1>1, <1>2 DEF TimeLeft, AtLeastZero
<1>3. CASE pc[w] = "reading"
  BY <1>1, <1>3 DEF TimeLeft
<1>4. CASE pc[w] = "pacing"
  BY <1>1, <1>4 DEF TimeLeft
<1> QED
  BY <1>2, <1>3, <1>4

(* No step of any call adds to the wait of a call that goes on waiting. *)
LEMMA StepsKeepWait ==
  ASSUME NEW longest \in Nat, TypeOK, NEW v \in Workers,
         Step(v) \/ Request(v) \/ Release(v) \/ Abandon(v),
         NEW w \in Workers, TimerInv(w, longest), pc[w] \in Timed, pc'[w] \in Timed
  PROVE  TimeLeft(w, longest)' <= TimeLeft(w, longest)
<1> USE TimesAreTicks DEF TimerInv, TypeOK, Timed, LongestSleep
<1>1. CASE v # w
  <2>1. pc'[w] = pc[w] /\ timer'[w] = timer[w] /\ deadline'[w] = deadline[w]
    BY <1>1 DEF Step, Request, Lock, Retry, TimeOut, ReadLast, Start, Release, Abandon, Go
  <2> QED
    BY <2>1 DEF TimeLeft
<1>2. CASE v = w
  <2>1. CASE Lock(w)
    <3>1. pc[w] = "trying" /\ deadline[w] > 0 /\ pc'[w] = "reading" /\ timer'[w] = 0
      BY <2>1 DEF Lock, Due, Go
    <3>2. TimeLeft(w, longest) = deadline[w] + longest + LongestSleep + 3 * MaxLag
      BY <3>1 DEF TimeLeft
    <3>3. TimeLeft(w, longest)' = LongestSleep + 2 * MaxLag
      BY <3>1 DEF TimeLeft
    <3> QED
      BY <3>1, <3>2, <3>3
  <2>2. CASE Retry(w)
    <3>1. pc[w] = "trying" /\ deadline[w] > 0 /\ pc'[w] = "trying" /\ deadline'[w] = deadline[w]
      BY <2>2 DEF Retry, Due, Go
    <3> QED
      BY <3>1 DEF TimeLeft
  <2>3. CASE ReadLast(w)
    <3>1. pc[w] = "reading" /\ pc'[w] = "pacing" /\ timer[w] <= 0
      BY <2>3 DEF ReadLast, Due, Go
    <3>2. timer'[w] <= LongestSleep /\ timer'[w] \in Int
      BY <2>3 DEF ReadLast, Go, computeDomainDelay, AtLeastZero
    <3> QED
      BY <3>1, <3>2 DEF TimeLeft
  <2>4. ~Request(w) /\ ~TimeOut(w) /\ ~Start(w) /\ ~Release(w) /\ ~Abandon(w)
    BY DEF Request, TimeOut, Start, Release, Abandon, Go
  <2> QED
    BY <1>2, <2>1, <2>2, <2>3, <2>4 DEF Step
<1> QED
  BY <1>1, <1>2

(* The wait for the lease is bounded, whatever the holders do: a call that  *)
(* has not crawled and has not failed has at most TimeLeft ticks before it, *)
(* a tick lowers that number and no step of any call raises it.  A call is  *)
(* answered within its deadline, one pause, the longest sleep and the lag,  *)
(* for every configuration, also one whose lease does not cover the pacing. *)
THEOREM WaitIsBounded ==
  ASSUME NEW longest \in Nat, \A pause \in Backoffs : pause <= longest
  PROVE  Spec =>
           /\ [](\A w \in Workers : pc[w] \in Timed =>
                   TimeLeft(w, longest) \in 0..(AcquireTimeout + longest + LongestSleep + 3 * MaxLag))
           /\ [][\A w \in Workers : pc[w] \in Timed /\ pc'[w] \in Timed =>
                   /\ TimeLeft(w, longest)' <= TimeLeft(w, longest)
                   /\ Tick => TimeLeft(w, longest)' <= TimeLeft(w, longest) - 1]_vars
<1> DEFINE Timers == \A w \in Workers : TimerInv(w, longest)
           InRange == \A w \in Workers : pc[w] \in Timed =>
             TimeLeft(w, longest) \in 0..(AcquireTimeout + longest + LongestSleep + 3 * MaxLag)
           Shrinks == \A w \in Workers : pc[w] \in Timed /\ pc'[w] \in Timed =>
             /\ TimeLeft(w, longest)' <= TimeLeft(w, longest)
             /\ Tick => TimeLeft(w, longest)' <= TimeLeft(w, longest) - 1
<1>1. TypeOK /\ Timers => InRange
  BY TimeLeftRange
<1>2. TypeOK /\ Timers /\ TypeOK' /\ Timers' /\ [Next]_vars => [Shrinks]_vars
  <2> SUFFICES ASSUME TypeOK, Timers, TypeOK', Timers', Next,
                      NEW w \in Workers, pc[w] \in Timed, pc'[w] \in Timed
               PROVE  /\ TimeLeft(w, longest)' <= TimeLeft(w, longest)
                      /\ Tick => TimeLeft(w, longest)' <= TimeLeft(w, longest) - 1
    OBVIOUS
  <2>1. TimerInv(w, longest) /\ TimerInv(w, longest)'
    OBVIOUS
  <2>2. CASE Tick
    <3>1. TimeLeft(w, longest)' <= TimeLeft(w, longest) - 1
      BY <2>1, <2>2, TickShortensWait
    <3>2. TimeLeft(w, longest) \in Int
      BY <2>1, TimeLeftRange
    <3>3. TimeLeft(w, longest)' \in Int
      BY <2>1, TimesAreTicks DEF TimeLeft, TypeOK, TimerInv, Timed, LongestSleep
    <3> QED
      BY <3>1, <3>2, <3>3
  <2>3. CASE ~Tick
    <3>1. PICK v \in Workers : Step(v) \/ Request(v) \/ Release(v) \/ Abandon(v)
      BY <2>3 DEF Next
    <3> QED
      BY <2>1, <2>3, <3>1, StepsKeepWait
  <2> QED
    BY <2>2, <2>3
<1> QED
  BY <1>1, <1>2, TypeCorrect, TimersAreBounded, PTL DEF Spec
=============================================================================
