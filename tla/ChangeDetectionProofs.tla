------------------------ MODULE ChangeDetectionProofs -----------------------
(***************************************************************************)
(* For any number of executions, attempts and stalls: the baseline a       *)
(* result was compared with is still the last one when the result is       *)
(* stored; unless publication and bookkeeping of the alert both reject, a  *)
(* change has at most one alert; and if nothing fails after the            *)
(* transaction, the result agrees with its baseline, reports what the      *)
(* crawls saw, alone among all executions, and is announced.               *)
(***************************************************************************)
EXTENDS ChangeDetection, WellFoundedInduction, TLAPS

Changes  == {"none", "baseline", "same", "changed"}
Statuses == {"unused", "queued", "running", "succeeded", "blocked", "failed", "deleted"}
Row == [status : Statuses, value : Values \cup {NoValue}, change : Changes, base : 0..MaxRows]
Job == [pc : Busy \cup {"absent", "waiting", "done"}, value : Values \cup {NoValue},
        base : 0..MaxRows, change : Changes, blocked : BOOLEAN, again : BOOLEAN,
        attempt : 1..MaxAttempts, stalled : 0..(MaxStalled + 1)]

Alert == [made : Nat, status : {"none", "queued", "failed"}]
Seen == [value : Values \cup {NoValue}, by : 0..MaxRows, overtaken : BOOLEAN, lapsed : BOOLEAN]

Typed == /\ rows \in [Executions -> Row]
         /\ run \in [Executions -> Job]
         /\ lease \in Executions \cup {Free, Orphan}
         /\ alerts \in [Executions -> Alert]
         /\ seen \in Seen
         /\ truth \in [Executions -> Changes]

(* A result is stored by the step to "retain"; from there to the end of the *)
(* attempt the row stays as it was stored, or is gone.  A job that may      *)
(* still store one has none, and a job that failed is tried again.          *)
RowSound(j, r) ==
  /\ j.pc = "absent" <=> r.status = "unused"
  /\ j.pc \in {"lease", "crawl", "compare", "commit"} => r.status # "succeeded"
  /\ j.pc \in {"retain", "alert", "publish", "note"} =>
       /\ r.status \notin {"unused", "deleted"} => r.status = "succeeded" /\ r.change = j.change
       /\ ~j.again
  /\ j.pc \in {"alert", "publish", "note"} => j.change = "changed"
  /\ j.pc = "note" => "publish" \in FailsAt
  /\ j.again => j.pc = "release" /\ r.status # "succeeded" /\ j.attempt < MaxAttempts
  /\ j.stalled > MaxStalled => j.pc = "done"

(* Where a result that is stored cannot be taken back any more.             *)
IsFinalAt(pc) == pc \in {"release", "waiting", "done"} \/ (NoteHolds /\ pc \in {"publish", "note"})

(* An alert exists only for a stored change, in the step after it was made  *)
(* or later: no attempt that could make another one follows.                *)
AlertSound(j, r, a) ==
  NoteHolds => /\ a.made <= 1
               /\ a.made = 1 => /\ r.status = "succeeded" /\ r.change = "changed"
                                /\ IsFinalAt(j.pc) /\ ~j.again

(* The lease is held from before the crawl, and as long as the result of a  *)
(* job that goes on can still be taken back.                                *)
Needs(j, r) == \/ j.pc \in InTry \cup {"publish"}
               \/ j.pc = "record" /\ r.status = "succeeded"

Succeeded(e) == rows[e].status = "succeeded"
JobInv(e)   == RowSound(run[e], rows[e]) /\ AlertSound(run[e], rows[e], alerts[e])
LeaseInv(e) == ~seen.lapsed /\ Needs(run[e], rows[e]) => lease = e

(* What was read for the comparison is still so when the result is stored.  *)
OldValue(e) == IF Baseline(e) = None THEN NoValue ELSE rows[Baseline(e)].value
ReadInv(e) == ~seen.lapsed /\ run[e].pc = "commit" =>
  /\ run[e].base = Baseline(e)
  /\ run[e].change = Compare(OldValue(e), run[e].value)

LapseInv == seen.lapsed => Lapses

(* A result that cannot be replaced: its job does not go back to the crawl. *)
Kept(d) == /\ Succeeded(d)
           /\ NothingFailsAfterCommit \/ IsFinalAt(run[d].pc)

(* A stored result agrees with its baseline, and so does one that is going  *)
(* to be stored, unless its baseline is deleted and the transaction fails.  *)
BaseInv(e) ==
  /\ Succeeded(e) /\ rows[e].base # None =>
       /\ Kept(rows[e].base)
       /\ rows[e].change = Compare(rows[rows[e].base].value, rows[e].value)
  /\ run[e].pc = "commit" /\ run[e].base # None =>
       \/ rows[run[e].base].status = "deleted"
       \/ /\ Kept(run[e].base)
          /\ run[e].change = Compare(rows[run[e].base].value, run[e].value)

(* The next two rest on results being final once they are stored.           *)
FinalSound(j, r, a) ==
  /\ r.change # "none" => r.status = "succeeded"
  /\ j.pc = "record" => r.status # "succeeded"
  /\ r.change = "changed" /\ j.stalled = 0 => a.made = 1 \/ j.pc \in {"retain", "alert"}
FinalInv(e) == FinalSound(run[e], rows[e], alerts[e])

(* A result was compared with the one before it: none lies between them.    *)
IsNext(e) == rows[e].base # None =>
  /\ rows[e].base < e
  /\ \A c \in Executions : Succeeded(c) => c <= rows[e].base \/ e <= c

(* The last result is the one of the last crawl that committed.             *)
TruthInv ==
  ~seen.overtaken /\ ~seen.lapsed =>
    /\ \A e \in Executions : Succeeded(e) => e <= seen.by /\ rows[e].change = truth[e]
    /\ IF seen.by = None THEN seen.value = NoValue
                         ELSE Succeeded(seen.by) /\ rows[seen.by].value = seen.value
    /\ \A e \in Executions : run[e].pc = "retain" => seen.by = e
    /\ \A e \in Executions : Succeeded(e) => IsNext(e)

Core == /\ Typed /\ LapseInv
        /\ \A e \in Executions : JobInv(e) /\ LeaseInv(e) /\ ReadInv(e)

(* A baseline cannot be replaced while someone compares with it. *)
Steady == NothingFailsAfterCommit \/ ~Lapses
SteadyInv == Steady => \A e \in Executions : BaseInv(e)
CommitInv == NothingFailsAfterCommit => TruthInv /\ \A e \in Executions : FinalInv(e)

IInv == Core /\ SteadyInv /\ CommitInv

-----------------------------------------------------------------------------
(* The records a job and a row start with, and what is left of a row. *)
LEMMA Constants ==
  /\ Fresh \in Job /\ Unused \in Row /\ NoAlert \in Alert
  /\ Fresh.pc = "waiting" /\ Fresh.attempt = 1 /\ Fresh.stalled = 0 /\ ~Fresh.again /\ ~Fresh.blocked
  /\ Fresh.base = None /\ Fresh.change = "none"
  /\ Unused.status = "unused" /\ Unused.change = "none" /\ Unused.base = None
  /\ NoAlert.made = 0
BY DetectionConstants DEF Fresh, Unused, NoAlert, Row, Job, Alert, Changes, Statuses, Busy, InTry, None

LEMMA DeletedIs ==
  Deleted \in Row /\ Deleted.status = "deleted" /\ Deleted.change = "none" /\ Deleted.base = None
BY Constants DEF Deleted, Row, Statuses

(* When nothing fails after the commit, the note of a publication does not. *)
LEMMA FaultsExcluded == NothingFailsAfterCommit => NoteHolds
BY DEF NothingFailsAfterCommit, NoteHolds

LEMMA InitHolds == Init => IInv
<1> USE DetectionConstants, Constants
<1> DEFINE absent == [Fresh EXCEPT !.pc = "absent"]
<1>0. absent \in Job /\ absent.pc = "absent" /\ ~absent.again /\ absent.stalled = 0
  BY DEF Job
<1>1. ASSUME Init PROVE Typed /\ LapseInv
  <2>1. 0 \in 0..MaxRows
    OBVIOUS
  <2> QED
    BY <1>0, <1>1, <2>1 DEF Init, Typed, Seen, LapseInv, Changes, None
<1>2. ASSUME Init, NEW e \in Executions
      PROVE  run[e] = absent /\ rows[e] = Unused /\ alerts[e] = NoAlert
  BY <1>2 DEF Init
<1>3. ASSUME Init, NEW e \in Executions PROVE JobInv(e) /\ LeaseInv(e) /\ ReadInv(e)
  <2>1. RowSound(absent, Unused)
    BY <1>0 DEF RowSound
  <2>2. AlertSound(absent, Unused, NoAlert) /\ ~Needs(absent, Unused)
    BY <1>0 DEF AlertSound, IsFinalAt, Needs, InTry
  <2>3. run[e].pc # "commit"
    BY <1>0, <1>2, <1>3
  <2> QED
    BY <1>2, <1>3, <2>1, <2>2, <2>3 DEF JobInv, LeaseInv, ReadInv
<1>4. ASSUME Init, NEW e \in Executions PROVE BaseInv(e) /\ FinalInv(e)
  BY <1>0, <1>2, <1>4 DEF Succeeded, BaseInv, FinalInv, FinalSound
<1>5. ASSUME Init PROVE TruthInv
  <2>1. seen.by = None /\ seen.value = NoValue
    BY <1>5 DEF Init
  <2>2. \A e \in Executions : ~Succeeded(e) /\ run[e].pc # "retain"
    BY <1>0, <1>2, <1>5 DEF Succeeded
  <2> QED
    BY <2>1, <2>2 DEF TruthInv
<1> QED
  BY <1>1, <1>3, <1>4, <1>5 DEF IInv, Core, SteadyInv, CommitInv

(* The largest of the executions: what Max of FiniteSetsExt finds. *)
LEMMA MaxIsMember ==
  ASSUME NEW S \in SUBSET Executions, S # {}
  PROVE  Max(S) \in S /\ \A d \in S : d <= Max(S)
<1> DEFINE T == {n \in Nat : MaxRows - n \in S}
<1> USE DetectionConstants DEF Executions
<1>0. \A d \in S : d \in Nat /\ MaxRows - d \in Nat /\ MaxRows - (MaxRows - d) = d
  OBVIOUS
<1>1. \A d \in S : MaxRows - d \in T
  BY <1>0
<1>2. T # {} /\ T \subseteq Nat
  BY <1>1
<1>3. PICK t \in T : \A u \in T : ~(<<u, t>> \in OpToRel(<, Nat))
  BY <1>2, NatLessThanWellFounded, WFMin, Zenon
<1>4. \A u \in T : ~(u < t)
  BY <1>2, <1>3 DEF OpToRel
<1>5. MaxRows - t \in S /\ \A d \in S : MaxRows - t >= d
  BY <1>0, <1>1, <1>4
<1> QED
  BY <1>0, <1>5 DEF Max

(* Whom an execution is compared with. *)
LEMMA BaselineIsComparable ==
  ASSUME Typed, NEW e \in Executions
  PROVE  IF Comparable(e) = {} THEN Baseline(e) = None
         ELSE Baseline(e) \in Comparable(e) /\ \A d \in Comparable(e) : d <= Baseline(e)
BY MaxIsMember DEF Baseline, Comparable

LEMMA ReadStays ==
  ASSUME Typed, NEW e \in Executions,
         \A d \in Executions \ {e} : /\ Succeeded(d)' <=> Succeeded(d)
                                     /\ Succeeded(d) => rows'[d].value = rows[d].value
  PROVE  Comparable(e)' = Comparable(e) /\ Baseline(e)' = Baseline(e) /\ OldValue(e)' = OldValue(e)
<1>1. Comparable(e)' = Comparable(e)
  BY DEF Comparable, Succeeded
<1>2. Baseline(e)' = Baseline(e)
  BY <1>1 DEF Baseline
<1> QED
  BY <1>1, <1>2, BaselineIsComparable DEF OldValue, Comparable, Succeeded, Executions, None

(* What a step of the processor of e may leave, which touches no other      *)
(* execution: a sound job, row and alert, the lease if it needs it, and     *)
(* what others compare with as it was unless it held the lease.             *)
LEMMA StepKeepsCore ==
  ASSUME Core, NEW e \in Executions, NEW j \in Job, NEW r \in Row, NEW a \in Alert,
         run' = [run EXCEPT ![e] = j], rows' = [rows EXCEPT ![e] = r], alerts' = [alerts EXCEPT ![e] = a],
         seen' \in Seen, seen'.lapsed = seen.lapsed, truth' \in [Executions -> Changes],
         lease' = lease \/ (lease \in {e, Free} /\ lease' \in {e, Free, Orphan}),
         RowSound(j, r), AlertSound(j, r, a),
         ~seen.lapsed => /\ Needs(j, r) => lease' = e
                         /\ lease # e => /\ r.status = "succeeded" <=> Succeeded(e)
                                         /\ Succeeded(e) => r.value = rows[e].value,
         j.pc = "commit" => ReadInv(e)'
  PROVE  Core'
<1> USE DetectionConstants
<1>1. Typed'
  BY DEF Core, Typed
<1>2. LapseInv'
  BY DEF Core, LapseInv
<1>3. /\ run'[e] = j /\ rows'[e] = r /\ alerts'[e] = a
      /\ \A d \in Executions \ {e} : run'[d] = run[d] /\ rows'[d] = rows[d] /\ alerts'[d] = alerts[d]
  BY DEF Core, Typed
<1>4. ASSUME NEW d \in Executions PROVE JobInv(d)' /\ LeaseInv(d)'
  BY <1>3 DEF Core, JobInv, LeaseInv
<1>5. ASSUME NEW d \in Executions \ {e}, ~seen.lapsed, run[d].pc = "commit"
      PROVE  Baseline(d)' = Baseline(d) /\ OldValue(d)' = OldValue(d)
  <2>1. lease = d
    BY <1>5 DEF Core, LeaseInv, Needs, InTry
  <2>2. ASSUME NEW c \in Executions \ {d}
        PROVE  (Succeeded(c)' <=> Succeeded(c)) /\ (Succeeded(c) => rows'[c].value = rows[c].value)
    <3>1. CASE c = e
      <4>1. /\ r.status = "succeeded" <=> Succeeded(e)
            /\ Succeeded(e) => r.value = rows[e].value
        BY <1>5, <2>1
      <4> QED
        BY <1>3, <3>1, <4>1 DEF Succeeded
    <3>2. CASE c # e
      BY <1>3, <3>2 DEF Succeeded
    <3> QED
      BY <3>1, <3>2
  <2>3. Typed
    BY DEF Core
  <2> QED
    BY <2>2, <2>3, ReadStays
<1>6. ASSUME NEW d \in Executions PROVE ReadInv(d)'
  BY <1>3, <1>5 DEF Core, ReadInv
<1> QED
  BY <1>1, <1>2, <1>4, <1>6 DEF Core

(* The same for what is said of stored results. *)
LEMMA StepKeepsSteady ==
  ASSUME IInv, Steady, NEW e \in Executions, NEW j \in Job, NEW r \in Row,
         run' = [run EXCEPT ![e] = j], rows' = [rows EXCEPT ![e] = r],
         rows[e].status = "deleted" => r.status = "deleted",
         Kept(e) => /\ r.status = "succeeded" /\ r.value = rows[e].value
                    /\ NothingFailsAfterCommit \/ IsFinalAt(j.pc),
         r.status = "succeeded" /\ r.base # None =>
           /\ Kept(r.base)
           /\ r.change = Compare(rows[r.base].value, r.value),
         j.pc = "commit" /\ j.base # None =>
           /\ Kept(j.base)
           /\ j.change = Compare(rows[j.base].value, j.value)
  PROVE  \A d \in Executions : BaseInv(d)'
<1>1. Typed /\ \A d \in Executions : BaseInv(d)
  BY DEF IInv, Core, SteadyInv
<1>2. /\ run'[e] = j /\ rows'[e] = r
      /\ \A d \in Executions \ {e} : run'[d] = run[d] /\ rows'[d] = rows[d]
  BY <1>1 DEF Typed
<1>3. ASSUME NEW d \in Executions, Kept(d)
      PROVE  Kept(d)' /\ rows'[d].value = rows[d].value
  BY <1>2, <1>3 DEF Kept, Succeeded, NothingFailsAfterCommit
<1>4. \A d \in Executions : rows[d].status = "deleted" => rows'[d].status = "deleted"
  BY <1>2
<1>5. ASSUME NEW d \in Executions
      PROVE  /\ rows[d].base # None => rows[d].base \in Executions
             /\ run[d].base # None => run[d].base \in Executions
  <2>1. rows[d] \in Row /\ run[d] \in Job
    BY <1>1 DEF Typed
  <2> QED
    BY <2>1 DEF Row, Job, Executions, None
<1>6. /\ r.base # None => r.base \in Executions
      /\ j.base # None => j.base \in Executions
  BY DEF Row, Job, Executions, None
<1>7. BaseInv(e)'
  BY <1>2, <1>3, <1>6 DEF BaseInv, Succeeded
<1>8. ASSUME NEW d \in Executions \ {e} PROVE BaseInv(d)'
  BY <1>1, <1>2, <1>3, <1>4, <1>5 DEF BaseInv, Succeeded
<1> QED
  BY <1>7, <1>8

(* A step that stores no result and reads no baseline: it may change the    *)
(* status of its own row, and takes a result back only from "record".       *)
Quiet(e, j, r, a) ==
  /\ j \in Job /\ r \in Row /\ a \in Alert
  /\ RowSound(j, r) /\ AlertSound(j, r, a) /\ (NothingFailsAfterCommit => FinalSound(j, r, a))
  /\ j.pc \notin {"commit", "retain"}
  /\ r.value = rows[e].value /\ r.change = rows[e].change /\ r.base = rows[e].base
  /\ rows[e].status = "deleted" => r.status = "deleted"
  /\ r.status = "succeeded" => Succeeded(e)
  /\ Succeeded(e) => \/ run[e].pc = "record"
                     \/ /\ r.status = "succeeded"
                        /\ Kept(e) => \/ NothingFailsAfterCommit
                                      \/ IsFinalAt(j.pc)

LEMMA QuietStep ==
  ASSUME IInv, NEW e \in Executions, NEW j, NEW r, NEW a, Quiet(e, j, r, a),
         run' = [run EXCEPT ![e] = j], rows' = [rows EXCEPT ![e] = r], alerts' = [alerts EXCEPT ![e] = a],
         UNCHANGED <<seen, truth>>,
         lease' = lease \/ (lease \in {e, Free} /\ lease' \in {e, Free, Orphan}),
         ~seen.lapsed /\ Needs(j, r) => lease' = e
  PROVE  IInv'
<1>1. Typed /\ JobInv(e) /\ LeaseInv(e)
  BY DEF IInv, Core
<1>2. ASSUME NothingFailsAfterCommit PROVE Succeeded(e) => run[e].pc # "record"
  BY <1>2 DEF IInv, CommitInv, FinalInv, FinalSound, Succeeded
<1>3. ~seen.lapsed /\ lease # e =>
        /\ r.status = "succeeded" <=> Succeeded(e)
        /\ Succeeded(e) => r.value = rows[e].value
  BY <1>1 DEF Quiet, LeaseInv, Needs, Succeeded
<1>4. Core'
  BY <1>1, <1>3, StepKeepsCore DEF IInv, Typed, Quiet
<1>5. Kept(e) => /\ r.status = "succeeded" /\ r.value = rows[e].value
                 /\ NothingFailsAfterCommit \/ IsFinalAt(j.pc)
  BY <1>2 DEF Quiet, Kept, IsFinalAt
<1>6. ASSUME Steady PROVE \A d \in Executions : BaseInv(d)'
  <2>1. BaseInv(e)
    BY <1>6 DEF IInv, SteadyInv
  <2>2. r.status = "succeeded" /\ r.base # None =>
           /\ Kept(r.base)
           /\ r.change = Compare(rows[r.base].value, r.value)
    BY <2>1 DEF BaseInv, Succeeded, Quiet
  <2> QED
    BY <1>5, <1>6, <2>2, StepKeepsSteady DEF Quiet
<1>7. ASSUME NothingFailsAfterCommit PROVE TruthInv' /\ \A d \in Executions : FinalInv(d)'
  <2>1. /\ run'[e] = j /\ rows'[e] = r /\ alerts'[e] = a
        /\ \A d \in Executions \ {e} : run'[d] = run[d] /\ rows'[d] = rows[d] /\ alerts'[d] = alerts[d]
    BY <1>1 DEF Typed
  <2>2. \A d \in Executions : FinalInv(d)'
    BY <1>7, <2>1 DEF IInv, CommitInv, FinalInv, Quiet
  <2>3. \A d \in Executions : /\ Succeeded(d)' <=> Succeeded(d)
                              /\ rows'[d].value = rows[d].value /\ rows'[d].change = rows[d].change
                              /\ rows'[d].base = rows[d].base
                              /\ run'[d].pc = "retain" => run[d].pc = "retain"
    BY <1>2, <1>7, <2>1 DEF Quiet, Succeeded
  <2>4. seen' = seen /\ truth' = truth /\ seen.by \in 0..MaxRows
    BY <1>1 DEF Typed, Seen
  <2>5. TruthInv
    BY <1>7 DEF IInv, CommitInv
  <2>6. TruthInv'
    <3>1. \A d \in Executions : Succeeded(d)' /\ ~seen.overtaken /\ ~seen.lapsed => IsNext(d)'
      BY <2>3, <2>5 DEF TruthInv, IsNext
    <3> QED
      BY <2>3, <2>4, <2>5, <3>1 DEF TruthInv, Executions, None
  <2> QED
    BY <2>2, <2>6
<1> QED
  BY <1>4, <1>6, <1>7 DEF IInv, SteadyInv, CommitInv, Steady

LEMMA JobOf ==
  ASSUME IInv, NEW e \in Executions
  PROVE  /\ run[e] \in Job /\ rows[e] \in Row /\ alerts[e] \in Alert
         /\ RowSound(run[e], rows[e]) /\ AlertSound(run[e], rows[e], alerts[e])
         /\ NothingFailsAfterCommit => FinalSound(run[e], rows[e], alerts[e])
         /\ rows = [rows EXCEPT ![e] = rows[e]] /\ alerts = [alerts EXCEPT ![e] = alerts[e]]
         /\ ~seen.lapsed /\ Needs(run[e], rows[e]) => lease = e
<1>1. Typed /\ JobInv(e) /\ LeaseInv(e) /\ (NothingFailsAfterCommit => FinalInv(e))
  BY DEF IInv, Core, CommitInv
<1> QED
  BY <1>1 DEF Typed, JobInv, LeaseInv, FinalInv

(* A job is requested and taken. *)
LEMMA RequestHolds == ASSUME IInv, Request PROVE IInv'
<1>1. PICK e \in Executions : /\ rows[e].status = "unused"
                              /\ rows' = [rows EXCEPT ![e].status = "queued"]
                              /\ run' = [run EXCEPT ![e] = Fresh]
  BY DEF Request
<1> DEFINE r == [rows[e] EXCEPT !.status = "queued"]
<1>2. rows' = [rows EXCEPT ![e] = r]
  BY <1>1
<1>3. r \in Row /\ r.status = "queued" /\ r.change = rows[e].change /\ r.value = rows[e].value
      /\ r.base = rows[e].base
  BY JobOf DEF Row, Statuses
<1>4. Quiet(e, Fresh, r, alerts[e])
  BY <1>1, <1>3, JobOf, Constants, DetectionConstants
     DEF Quiet, RowSound, AlertSound, IsFinalAt, FinalSound, Succeeded
<1>5. ~Needs(Fresh, r)
  BY Constants DEF Needs, InTry
<1>6. alerts' = [alerts EXCEPT ![e] = alerts[e]] /\ lease' = lease /\ UNCHANGED <<seen, truth>>
  BY JobOf DEF Request, Unseen
<1> QED
  BY <1>1, <1>2, <1>4, <1>5, <1>6, QuietStep

LEMMA BeginHolds == ASSUME IInv, NEW e \in Executions, Begin(e) PROVE IInv'
<1>1. CASE Exists(e) /\ rows[e].status # "succeeded"
  <2> DEFINE r == [rows[e] EXCEPT !.status = "running"]
             j == [run[e] EXCEPT !.pc = "lease"]
  <2>1. /\ r \in Row /\ r.status = "running" /\ r.change = rows[e].change
        /\ r.value = rows[e].value /\ r.base = rows[e].base
        /\ j \in Job /\ j.pc = "lease" /\ j.again = run[e].again /\ j.stalled = run[e].stalled
    BY JobOf DEF Row, Job, Statuses, Busy
  <2>0. RowSound(j, r) /\ AlertSound(j, r, alerts[e]) /\ ~Needs(j, r)
    BY <1>1, <2>1, JobOf DEF Begin, At, RowSound, AlertSound, IsFinalAt, Needs, InTry
  <2>2. Quiet(e, j, r, alerts[e])
    BY <1>1, <2>0, <2>1, JobOf DEF Begin, At, Exists, Quiet, FinalSound, Succeeded
  <2>3. rows' = [rows EXCEPT ![e] = r] /\ run' = [run EXCEPT ![e] = j]
    BY <1>1, JobOf DEF Begin, SetStatus, GoTo
  <2> QED
    BY <2>0, <2>2, <2>3, JobOf, QuietStep DEF Begin, Unseen
<1>2. CASE ~(Exists(e) /\ rows[e].status # "succeeded")
  <2> DEFINE j == [run[e] EXCEPT !.pc = "done"]
  <2>1. j \in Job /\ j.pc = "done" /\ j.again = run[e].again /\ j.stalled = run[e].stalled
    BY JobOf DEF Job
  <2>2. Quiet(e, j, rows[e], alerts[e]) /\ ~Needs(j, rows[e])
    BY <1>2, <2>1, JobOf DEF Begin, At, Quiet, RowSound, AlertSound, IsFinalAt, FinalSound, Succeeded, Needs, InTry
  <2>3. rows' = [rows EXCEPT ![e] = rows[e]] /\ run' = [run EXCEPT ![e] = j]
    BY <1>2, JobOf DEF Begin, GoTo
  <2> QED
    BY <2>2, <2>3, JobOf, QuietStep DEF Begin, Unseen
<1> QED
  BY <1>1, <1>2

(* The job of e after GoTo. *)
To(e, p) == [run[e] EXCEPT !.pc = p]
LEMMA ToIs ==
  ASSUME IInv, NEW e \in Executions, NEW p \in Busy \cup {"waiting", "done"}
  PROVE  /\ To(e, p) \in Job /\ To(e, p).pc = p /\ To(e, p).again = run[e].again
         /\ To(e, p).stalled = run[e].stalled /\ To(e, p).change = run[e].change
         /\ To(e, p).attempt = run[e].attempt
         /\ GoTo(e, p) => run' = [run EXCEPT ![e] = To(e, p)]
BY JobOf DEF To, Job, GoTo

(* The steps of the processor that leave the row alone. *)
LEMMA AcquireHolds == ASSUME IInv, NEW e \in Executions, AcquireLease(e) PROVE IInv'
<1> DEFINE j == To(e, "crawl")
<1>1. /\ j \in Job /\ j.pc = "crawl" /\ j.again = run[e].again /\ j.stalled = run[e].stalled
      /\ run' = [run EXCEPT ![e] = j]
  BY ToIs DEF AcquireLease, Busy, InTry
<1>2. Quiet(e, j, rows[e], alerts[e])
  BY <1>1, JobOf DEF AcquireLease, At, Quiet, RowSound, AlertSound, IsFinalAt, FinalSound, Succeeded
<1> QED
  BY <1>1, <1>2, JobOf, QuietStep DEF AcquireLease, Unseen

LEMMA CrawlHolds == ASSUME IInv, NEW e \in Executions, Crawl(e) PROVE IInv'
<1>1. run[e].pc = "crawl" /\ rows[e].status # "succeeded" /\ ~run[e].again /\ run[e].stalled <= MaxStalled
  BY JobOf, DetectionConstants DEF Crawl, At, RowSound, Job
<1>2. PICK j \in {[run[e] EXCEPT !.pc = "compare", !.value = v] : v \in Values}
                    \cup {[run[e] EXCEPT !.pc = "record", !.blocked = TRUE]} : run' = [run EXCEPT ![e] = j]
  BY DEF Crawl
<1>3. /\ j \in Job /\ j.pc \in {"compare", "record"} /\ j.again = run[e].again
      /\ j.stalled = run[e].stalled
  <2>0. run[e] \in Job
    BY JobOf
  <2>1. CASE j = [run[e] EXCEPT !.pc = "record", !.blocked = TRUE]
    BY <2>0, <2>1 DEF Job, Busy, InTry
  <2>2. ASSUME NEW v \in Values, j = [run[e] EXCEPT !.pc = "compare", !.value = v]
        PROVE  /\ j \in Job /\ j.pc \in {"compare", "record"} /\ j.again = run[e].again
               /\ j.stalled = run[e].stalled
    BY <2>0, <2>2 DEF Job, Busy, InTry
  <2> QED
    BY <1>2, <2>1, <2>2
<1>4. Quiet(e, j, rows[e], alerts[e])
  BY <1>1, <1>3, JobOf, DetectionConstants DEF Quiet, RowSound, AlertSound, IsFinalAt, FinalSound, Succeeded, Job
<1>5. Needs(j, rows[e]) => Needs(run[e], rows[e])
  BY <1>1 DEF Needs, InTry
<1>6. /\ rows' = [rows EXCEPT ![e] = rows[e]] /\ alerts' = [alerts EXCEPT ![e] = alerts[e]]
      /\ UNCHANGED <<seen, truth, lease>> /\ (~seen.lapsed /\ Needs(j, rows[e]) => lease' = e)
  BY <1>5, JobOf DEF Crawl, Unseen
<1> QED
  BY <1>2, <1>4, <1>6, QuietStep

LEMMA FailHolds == ASSUME IInv, NEW e \in Executions, StepFails(e) PROVE IInv'
<1> DEFINE j == To(e, "record")
<1>1. /\ j \in Job /\ j.pc = "record" /\ j.again = run[e].again /\ j.stalled = run[e].stalled
      /\ run' = [run EXCEPT ![e] = j]
  BY ToIs DEF StepFails, Busy, InTry
<1>2. run[e].pc \in InTry \cup {"lease"} /\ run[e].pc \in FailsAt
  BY DEF StepFails
<1>3. Succeeded(e) => run[e].pc \in {"retain", "alert", "note"} /\ ~NothingFailsAfterCommit
  BY <1>2, JobOf DEF RowSound, Succeeded, InTry, NothingFailsAfterCommit
<1>3a. run[e].pc = "note" => ~NoteHolds
  BY <1>2, JobOf DEF RowSound, NoteHolds
<1>4. Quiet(e, j, rows[e], alerts[e])
  BY <1>1, <1>2, <1>3, <1>3a, JobOf
     DEF Quiet, RowSound, AlertSound, IsFinalAt, FinalSound, Succeeded, Kept, InTry
<1>5. Needs(j, rows[e]) => Needs(run[e], rows[e])
  BY <1>1, <1>2, <1>3 DEF Needs, InTry, Succeeded
<1> QED
  BY <1>1, <1>4, <1>5, JobOf, QuietStep DEF StepFails, Unseen

(* The delivery is made once, and its publication does not undo it. *)
LEMMA InsertHolds == ASSUME IInv, NEW e \in Executions, InsertAlert(e) PROVE IInv'
<1>1. CASE Exists(e)
  <2> DEFINE j == To(e, "publish")
             a == [made |-> alerts[e].made + 1, status |-> "queued"]
  <2>1. /\ j \in Job /\ j.pc = "publish" /\ j.again = run[e].again /\ j.stalled = run[e].stalled
        /\ j.change = run[e].change /\ run' = [run EXCEPT ![e] = j]
    BY <1>1, ToIs DEF InsertAlert, Busy, InTry
  <2>2. a \in Alert /\ (NoteHolds => a.made = 1) /\ alerts' = [alerts EXCEPT ![e] = a]
    <3>1. alerts[e].made \in Nat /\ (NoteHolds => alerts[e].made <= 1 /\ alerts[e].made # 1)
      BY JobOf DEF InsertAlert, At, AlertSound, IsFinalAt, Alert
    <3> QED
      BY <1>1, <3>1, JobOf DEF InsertAlert, Alert
  <2>3. Succeeded(e) /\ rows[e].change = "changed" /\ ~run[e].again
    BY <1>1, JobOf DEF InsertAlert, At, RowSound, Exists, Succeeded
  <2>4. Quiet(e, j, rows[e], a)
    BY <2>1, <2>2, <2>3, JobOf, FaultsExcluded
       DEF InsertAlert, At, Quiet, RowSound, AlertSound, IsFinalAt, FinalSound, Succeeded, Kept
  <2>5. Needs(run[e], rows[e])
    BY DEF InsertAlert, At, Needs, InTry
  <2> QED
    BY <2>1, <2>2, <2>4, <2>5, JobOf, QuietStep DEF InsertAlert, Unseen
<1>2. CASE ~Exists(e)
  <2> DEFINE j == To(e, "record")
  <2>1. /\ j \in Job /\ j.pc = "record" /\ j.again = run[e].again /\ j.stalled = run[e].stalled
        /\ j.change = run[e].change /\ run' = [run EXCEPT ![e] = j]
    BY <1>2, ToIs DEF InsertAlert, Busy, InTry
  <2>2. rows[e].status # "succeeded"
    BY <1>2 DEF Exists
  <2>3. Quiet(e, j, rows[e], alerts[e])
    BY <2>1, <2>2, JobOf DEF InsertAlert, At, Quiet, RowSound, AlertSound, IsFinalAt, FinalSound, Succeeded
  <2>4. /\ rows' = [rows EXCEPT ![e] = rows[e]] /\ alerts' = [alerts EXCEPT ![e] = alerts[e]]
        /\ UNCHANGED <<seen, truth, lease>> /\ ~Needs(j, rows[e])
    BY <1>2, <2>1, <2>2, JobOf DEF InsertAlert, Unseen, Needs, InTry
  <2> QED
    BY <2>1, <2>3, <2>4, QuietStep
<1> QED
  BY <1>1, <1>2

LEMMA PublishHolds == ASSUME IInv, NEW e \in Executions, PublishAlert(e) PROVE IInv'
<1>1. PICK p \in {"release", "note"} : GoTo(e, p) /\ (p = "note" => "publish" \in FailsAt)
  BY DEF PublishAlert
<1> DEFINE j == To(e, p)
<1>2. /\ j \in Job /\ j.pc = p /\ j.again = run[e].again /\ j.stalled = run[e].stalled
      /\ j.change = run[e].change /\ run' = [run EXCEPT ![e] = j]
  BY <1>1, ToIs DEF Busy, InTry
<1>3. Quiet(e, j, rows[e], alerts[e])
  BY <1>1, <1>2, JobOf
     DEF PublishAlert, At, Quiet, RowSound, AlertSound, IsFinalAt, FinalSound, Succeeded, Kept
<1>4. Needs(run[e], rows[e])
  BY DEF PublishAlert, At, Needs
<1> QED
  BY <1>2, <1>3, <1>4, JobOf, QuietStep DEF PublishAlert, Unseen

LEMMA NoteFailedHolds == ASSUME IInv, NEW e \in Executions, NoteFailedPublication(e) PROVE IInv'
<1> DEFINE j == To(e, "release")
<1>1. /\ j \in Job /\ j.pc = "release" /\ j.again = run[e].again /\ j.stalled = run[e].stalled
      /\ run' = [run EXCEPT ![e] = j]
  BY ToIs DEF NoteFailedPublication, Busy, InTry
<1>2. PICK a \in Alert : a.made = alerts[e].made /\ alerts' = [alerts EXCEPT ![e] = a]
  <2> DEFINE b == [alerts[e] EXCEPT !.status = "failed"]
  <2>1. b \in Alert /\ b.made = alerts[e].made
    BY JobOf DEF Alert
  <2>2. alerts' = alerts \/ alerts' = [alerts EXCEPT ![e] = b]
    BY DEF NoteFailedPublication
  <2> QED
    BY <2>1, <2>2, JobOf
<1>3. Quiet(e, j, rows[e], a)
  BY <1>1, <1>2, JobOf
     DEF NoteFailedPublication, At, Quiet, RowSound, AlertSound, IsFinalAt, FinalSound, Succeeded
<1> QED
  BY <1>1, <1>2, <1>3, JobOf, QuietStep DEF NoteFailedPublication, Unseen, Needs, InTry

(* The steps that end an attempt. *)
LEMMA RecordHolds == ASSUME IInv, NEW e \in Executions, Record(e) PROVE IInv'
<1> DEFINE j == [run[e] EXCEPT !.pc = "release", !.again = WillRetry(e)]
           status == IF WillRetry(e) THEN "queued" ELSE IF run[e].blocked THEN "blocked" ELSE "failed"
           r == IF Exists(e) THEN [rows[e] EXCEPT !.status = status] ELSE rows[e]
<1>1. /\ j \in Job /\ j.pc = "release" /\ j.stalled = run[e].stalled /\ j.attempt = run[e].attempt
      /\ j.again => run[e].attempt < MaxAttempts
      /\ run' = [run EXCEPT ![e] = j]
  BY JobOf DEF Record, WillRetry, Job, Busy, InTry
<1>2. /\ r \in Row /\ r.value = rows[e].value /\ r.change = rows[e].change /\ r.base = rows[e].base
      /\ r.status \notin {"succeeded", "unused"} /\ (rows[e].status = "deleted" => r.status = "deleted")
  BY JobOf DEF Record, At, RowSound, Row, Statuses, Exists
<1>3. rows' = [rows EXCEPT ![e] = r]
  BY JobOf DEF Record, SetStatus
<1>4. run[e].pc = "record" /\ run[e].stalled <= MaxStalled /\ (NoteHolds => alerts[e].made # 1)
  BY JobOf, DetectionConstants DEF Record, At, RowSound, AlertSound, IsFinalAt, Job
<1>5. RowSound(j, r) /\ AlertSound(j, r, alerts[e]) /\ ~Needs(j, r)
  BY <1>1, <1>2, <1>4, JobOf, DetectionConstants DEF RowSound, AlertSound, IsFinalAt, Needs, InTry, Job
<1>6. NothingFailsAfterCommit => FinalSound(j, r, alerts[e])
  BY <1>1, <1>2, <1>4, JobOf DEF FinalSound
<1>7. Quiet(e, j, r, alerts[e])
  BY <1>1, <1>2, <1>4, <1>5, <1>6, JobOf DEF Quiet
<1>8. alerts' = [alerts EXCEPT ![e] = alerts[e]] /\ UNCHANGED <<seen, truth, lease>>
  BY JobOf DEF Record, Unseen
<1> QED
  BY <1>1, <1>3, <1>5, <1>7, <1>8, QuietStep

(* A job that is done, or waits with no result of its own, needs no lease. *)
LEMMA BackHolds ==
  ASSUME IInv, NEW e \in Executions, NEW j \in Job, j.pc \in {"waiting", "done"}, ~j.again,
         j.stalled > MaxStalled => j.pc = "done", j.stalled >= run[e].stalled,
         run[e].pc = "release" \/ (run[e].pc \in Busy /\ j.stalled > 0),
         run' = [run EXCEPT ![e] = j], UNCHANGED <<rows, alerts, seen, truth>>,
         lease' = lease \/ (lease = e /\ lease' \in {Free, Orphan})
  PROVE  IInv'
<1>1. rows[e].status # "unused"
  BY JobOf DEF RowSound, Busy, InTry
<1>2. RowSound(j, rows[e]) /\ AlertSound(j, rows[e], alerts[e]) /\ ~Needs(j, rows[e])
  BY <1>1, JobOf DEF RowSound, AlertSound, IsFinalAt, Needs, InTry
<1>3. NothingFailsAfterCommit => FinalSound(j, rows[e], alerts[e])
  BY JobOf DEF FinalSound, Job
<1>4. Quiet(e, j, rows[e], alerts[e])
  BY <1>2, <1>3, JobOf DEF Quiet, Succeeded, IsFinalAt
<1>5. /\ rows' = [rows EXCEPT ![e] = rows[e]] /\ alerts' = [alerts EXCEPT ![e] = alerts[e]]
      /\ UNCHANGED <<seen, truth>>
      /\ lease' = lease \/ (lease \in {e, Free} /\ lease' \in {e, Free, Orphan})
  BY JobOf
<1> QED
  BY <1>2, <1>4, <1>5, QuietStep

LEMMA ReleaseHolds == ASSUME IInv, NEW e \in Executions, Release(e) PROVE IInv'
<1> DEFINE j == IF run[e].again
                  THEN [Fresh EXCEPT !.attempt = run[e].attempt + 1, !.stalled = run[e].stalled]
                  ELSE [Fresh EXCEPT !.pc = "done", !.stalled = run[e].stalled]
<1>1. run[e].pc = "release" /\ run[e].stalled \in 0..MaxStalled /\ run[e].attempt \in 1..MaxAttempts
      /\ (run[e].again => run[e].attempt < MaxAttempts)
  BY JobOf, DetectionConstants DEF Release, At, RowSound, Job
<1>2. /\ j \in Job /\ j.pc \in {"waiting", "done"} /\ ~j.again /\ j.stalled = run[e].stalled
  <2> DEFINE k == [Fresh EXCEPT !.attempt = run[e].attempt + 1, !.stalled = run[e].stalled]
             l == [Fresh EXCEPT !.pc = "done", !.stalled = run[e].stalled]
  <2>0. /\ run[e].stalled \in 0..(MaxStalled + 1)
        /\ run[e].again => run[e].attempt + 1 \in 1..MaxAttempts
    BY <1>1, DetectionConstants
  <2>1. run[e].again => k \in Job /\ k.pc = "waiting" /\ ~k.again /\ k.stalled = run[e].stalled
    BY <2>0, Constants DEF Job
  <2>2. l \in Job /\ l.pc = "done" /\ ~l.again /\ l.stalled = run[e].stalled
    BY <2>0, Constants DEF Job
  <2> QED
    BY <2>1, <2>2
<1>3. run' = [run EXCEPT ![e] = j]
  BY JobOf DEF Release
<1>4. /\ UNCHANGED <<rows, alerts, seen, truth>>
      /\ lease' = lease \/ (lease = e /\ lease' \in {Free, Orphan})
  BY DEF Release, Unseen
<1>5. j.stalled > MaxStalled => j.pc = "done"
  BY <1>1, <1>2, DetectionConstants
<1>6. j.stalled >= run[e].stalled
  BY <1>1, <1>2, DetectionConstants
<1> HIDE DEF j
<1> QED
  BY <1>1, <1>2, <1>3, <1>4, <1>5, <1>6, BackHolds

LEMMA CrashHolds == ASSUME IInv, NEW e \in Executions, Crash(e) PROVE IInv'
<1> DEFINE p == IF run[e].stalled < MaxStalled THEN "waiting" ELSE "done"
           j == [Fresh EXCEPT !.pc = p, !.attempt = run[e].attempt, !.stalled = run[e].stalled + 1]
<1>1. run[e].pc \in Busy /\ run[e].stalled \in 0..MaxStalled /\ run[e].attempt \in 1..MaxAttempts
  BY JobOf, DetectionConstants DEF Crash, RowSound, Job, Busy, InTry
<1>2. /\ j \in Job /\ j.pc \in {"waiting", "done"} /\ ~j.again /\ j.stalled = run[e].stalled + 1
      /\ j.stalled > MaxStalled => j.pc = "done"
  <2>1. p \in {"waiting", "done"} /\ (run[e].stalled + 1 > MaxStalled => p = "done")
    BY <1>1, DetectionConstants
  <2>2. run[e].stalled + 1 \in 0..(MaxStalled + 1)
    BY <1>1, DetectionConstants
  <2> HIDE DEF p
  <2>3. /\ j \in Job /\ j.pc = p /\ ~j.again /\ j.stalled = run[e].stalled + 1
    BY <1>1, <2>1, <2>2, Constants DEF Job
  <2> QED
    BY <2>1, <2>3
<1>3. run' = [run EXCEPT ![e] = j]
  BY JobOf DEF Crash
<1>4. /\ UNCHANGED <<rows, alerts, seen, truth>>
      /\ lease' = lease \/ (lease = e /\ lease' \in {Free, Orphan})
  BY DEF Crash, Unseen
<1>5. j.stalled >= run[e].stalled /\ j.stalled > 0
  BY <1>1, <1>2, DetectionConstants
<1> HIDE DEF j
<1> QED
  BY <1>1, <1>2, <1>3, <1>4, <1>5, BackHolds

(* The baseline is read under the lease, when no one can replace it. *)
LEMMA ReadHolds == ASSUME IInv, NEW e \in Executions, ReadBaseline(e) PROVE IInv'
<1> DEFINE change == Compare(OldValue(e), run[e].value)
           j == [run[e] EXCEPT !.pc = "commit", !.base = Baseline(e), !.change = change]
<1>1. Typed /\ LapseInv /\ LeaseInv(e) /\ run[e].pc = "compare"
  BY DEF IInv, Core, ReadBaseline, At
<1>2. Baseline(e) \in 0..MaxRows
  BY <1>1, BaselineIsComparable, DetectionConstants DEF Comparable, Executions, None
<1>3. change \in Changes
  BY DEF Compare, Changes
<1> HIDE DEF change
<1>4. /\ j \in Job /\ j.pc = "commit" /\ j.again = run[e].again /\ j.stalled = run[e].stalled
      /\ j.base = Baseline(e) /\ j.change = change /\ j.value = run[e].value
  BY <1>2, <1>3, JobOf DEF Job, Busy, InTry
<1>5. /\ run' = [run EXCEPT ![e] = j] /\ rows' = [rows EXCEPT ![e] = rows[e]]
      /\ alerts' = [alerts EXCEPT ![e] = alerts[e]]
      /\ UNCHANGED <<rows, lease, alerts, seen, truth>>
  BY JobOf DEF ReadBaseline, OldValue, Unseen, change
<1>6. RowSound(j, rows[e]) /\ AlertSound(j, rows[e], alerts[e])
  BY <1>1, <1>4, JobOf DEF RowSound, AlertSound, IsFinalAt
<1>7. run'[e] = j /\ \A d \in Executions \ {e} : run'[d] = run[d]
  BY <1>1, <1>5 DEF Typed
<1>8. ReadInv(e)'
  <2>1. Baseline(e)' = Baseline(e) /\ OldValue(e)' = OldValue(e)
    BY <1>5 DEF Baseline, Comparable, OldValue
  <2> QED
    BY <1>4, <1>7, <2>1 DEF ReadInv, change
<1>9. Core'
  <2>1. ~seen.lapsed => (Needs(j, rows[e]) => lease' = e)
    BY <1>1, <1>5 DEF LeaseInv, Needs, InTry
  <2>2. seen' \in Seen /\ seen'.lapsed = seen.lapsed /\ truth' \in [Executions -> Changes]
        /\ lease' = lease /\ Core
    BY <1>1, <1>5 DEF Typed, IInv
  <2> HIDE DEF j
  <2> QED
    BY <1>4, <1>5, <1>6, <1>8, <2>1, <2>2, JobOf, StepKeepsCore DEF Succeeded
<1>10. ASSUME Steady PROVE \A d \in Executions : BaseInv(d)'
  <2>1. ASSUME Baseline(e) # None PROVE Kept(Baseline(e)) /\ Baseline(e) \in Executions \ {e}
    <3> DEFINE d == Baseline(e)
    <3>1. d \in Executions \ {e} /\ Succeeded(d)
      BY <1>1, <2>1, BaselineIsComparable DEF Comparable, Succeeded
    <3>2. ~seen.lapsed => lease = e /\ ~Needs(run[d], rows[d])
      BY <1>1, <3>1, JobOf DEF LeaseInv, Needs, InTry
    <3>3. ~seen.lapsed => run[d].pc \in {"release", "waiting", "done"}
      BY <3>1, <3>2, JobOf DEF Needs, RowSound, Succeeded, Job, Busy
    <3> QED
      BY <1>1, <1>10, <3>1, <3>3 DEF Kept, IsFinalAt, Steady, LapseInv
  <2>2. j.base # None => /\ Kept(j.base)
                         /\ j.change = Compare(rows[j.base].value, j.value)
    BY <1>4, <2>1 DEF change, OldValue
  <2>3. BaseInv(e)
    BY <1>10 DEF IInv, SteadyInv
  <2>4. Kept(e) => FALSE
    BY <1>1, <1>4, JobOf DEF Kept, IsFinalAt, Succeeded, RowSound
  <2> HIDE DEF j
  <2> QED
    BY <1>4, <1>5, <1>10, <2>2, <2>3, <2>4, JobOf, StepKeepsSteady DEF BaseInv, Succeeded
<1>11. ASSUME NothingFailsAfterCommit PROVE TruthInv' /\ \A d \in Executions : FinalInv(d)'
  <2>1. TruthInv /\ \A d \in Executions : FinalInv(d)
    BY <1>11 DEF IInv, CommitInv
  <2>2. TruthInv'
    BY <1>4, <1>5, <1>7, <2>1 DEF TruthInv, Succeeded, IsNext
  <2>3. FinalSound(j, rows[e], alerts[e])
    BY <1>1, <1>4, <1>11, JobOf DEF FinalSound
  <2>4. \A d \in Executions : FinalInv(d)'
    BY <1>5, <1>7, <2>1, <2>3 DEF FinalInv
  <2> QED
    BY <2>2, <2>4
<1> QED
  BY <1>9, <1>10, <1>11 DEF IInv, SteadyInv, CommitInv, Steady

(* The transaction: what it stores is what was compared under the lease. *)
LEMMA CommitHolds == ASSUME IInv, NEW e \in Executions, Commit(e) PROVE IInv'
<1>1. Typed /\ LapseInv /\ LeaseInv(e) /\ ReadInv(e) /\ run[e].pc = "commit" /\ ~Succeeded(e)
      /\ (NoteHolds => alerts[e].made # 1) /\ ~run[e].again
  BY JobOf DEF IInv, Core, Commit, At, RowSound, AlertSound, IsFinalAt, Succeeded
<1>2. CASE ~(Exists(e) /\ (run[e].base = None \/ Exists(run[e].base)))
  <2> DEFINE j == To(e, "record")
  <2>1. /\ j \in Job /\ j.pc = "record" /\ j.again = run[e].again /\ j.stalled = run[e].stalled
        /\ run' = [run EXCEPT ![e] = j]
    BY <1>2, ToIs DEF Commit, Busy, InTry
  <2>2. Quiet(e, j, rows[e], alerts[e]) /\ ~Needs(j, rows[e])
    BY <1>1, <2>1, JobOf DEF Quiet, RowSound, AlertSound, IsFinalAt, FinalSound, Succeeded, Needs, InTry
  <2>3. /\ rows' = [rows EXCEPT ![e] = rows[e]] /\ alerts' = [alerts EXCEPT ![e] = alerts[e]]
        /\ UNCHANGED <<seen, truth, lease>>
    BY <1>2, JobOf DEF Commit
  <2> QED
    BY <2>1, <2>2, <2>3, QuietStep
<1>3. CASE Exists(e) /\ (run[e].base = None \/ Exists(run[e].base))
  <2> DEFINE j == To(e, "retain")
             r == [status |-> "succeeded", value |-> run[e].value,
                   change |-> run[e].change, base |-> run[e].base]
  <2>1. /\ j \in Job /\ j.pc = "retain" /\ j.again = run[e].again /\ j.stalled = run[e].stalled
        /\ j.change = run[e].change /\ run' = [run EXCEPT ![e] = j]
    BY <1>3, ToIs DEF Commit, Busy, InTry
  <2>2. /\ r \in Row /\ r.status = "succeeded" /\ r.change = run[e].change /\ r.base = run[e].base
        /\ r.value = run[e].value
    BY JobOf DEF Row, Job, Statuses
  <2>3. rows' = [rows EXCEPT ![e] = r] /\ alerts' = [alerts EXCEPT ![e] = alerts[e]]
        /\ UNCHANGED <<lease>>
    BY <1>3, JobOf DEF Commit
  <2>4. /\ truth' = [truth EXCEPT ![e] = Compare(seen.value, run[e].value)]
        /\ seen' = [value |-> run[e].value, by |-> e, lapsed |-> seen.lapsed,
                    overtaken |-> seen.overtaken \/ e < seen.by]
    BY <1>3 DEF Commit
  <2>5. seen' \in Seen /\ truth' \in [Executions -> Changes]
    <3>1. run[e].value \in Values \cup {NoValue} /\ Compare(seen.value, run[e].value) \in Changes
          /\ e \in 0..MaxRows
      BY JobOf, DetectionConstants DEF Job, Compare, Changes, Executions
    <3> QED
      BY <1>1, <2>4, <3>1 DEF Typed, Seen
  <2>6. RowSound(j, r) /\ AlertSound(j, r, alerts[e])
    BY <1>1, <2>1, <2>2, JobOf DEF RowSound, AlertSound, IsFinalAt
  <2>7. ~seen.lapsed => lease = e
    BY <1>1 DEF LeaseInv, Needs, InTry
  <2> HIDE DEF j, r
  <2>8. Core'
    BY <2>1, <2>2, <2>3, <2>4, <2>5, <2>6, <2>7, JobOf, StepKeepsCore DEF IInv
  <2>9. ASSUME Steady PROVE \A d \in Executions : BaseInv(d)'
    <3>1. BaseInv(e)
      BY <2>9 DEF IInv, SteadyInv
    <3>2. r.base # None => Kept(r.base) /\ r.change = Compare(rows[r.base].value, r.value)
      BY <1>1, <1>3, <2>2, <3>1 DEF BaseInv, Exists
    <3>3. ~Kept(e) /\ rows[e].status # "deleted"
      BY <1>1, <1>3 DEF Kept, Exists
    <3> QED
      BY <2>1, <2>2, <2>3, <2>9, <3>2, <3>3, StepKeepsSteady
  <2>10. ASSUME NothingFailsAfterCommit PROVE TruthInv' /\ \A d \in Executions : FinalInv(d)'
    <3>1. TruthInv /\ \A d \in Executions : FinalInv(d)
      BY <2>10 DEF IInv, CommitInv
    <3>2. FinalSound(j, r, alerts[e])
      BY <2>1, <2>2 DEF FinalSound
    <3>3. /\ run'[e] = j /\ rows'[e] = r /\ alerts'[e] = alerts[e]
          /\ truth'[e] = Compare(seen.value, run[e].value)
          /\ \A d \in Executions \ {e} : /\ run'[d] = run[d] /\ rows'[d] = rows[d]
                                         /\ alerts'[d] = alerts[d] /\ truth'[d] = truth[d]
      BY <1>1, <2>1, <2>3, <2>4 DEF Typed
    <3>4. \A d \in Executions : FinalInv(d)'
      BY <3>1, <3>2, <3>3 DEF FinalInv
    <3>5. ASSUME ~seen'.overtaken, ~seen'.lapsed PROVE r.change = truth'[e]
      <4>1. ~seen.overtaken /\ ~seen.lapsed
        BY <2>4, <3>5
      <4>2. run[e].base = Baseline(e) /\ r.change = Compare(OldValue(e), run[e].value)
        BY <1>1, <2>2, <4>1 DEF ReadInv
      <4>3. OldValue(e) = seen.value
        <5>1. CASE seen.by = None
          <6>1. Comparable(e) = {} /\ seen.value = NoValue
            BY <3>1, <4>1, <5>1 DEF TruthInv, Comparable, Succeeded, Executions, None
          <6> QED
            BY <6>1 DEF OldValue, Baseline
        <5>2. CASE seen.by # None
          <6>1. /\ seen.by \in Comparable(e) /\ rows[seen.by].value = seen.value
                /\ \A d \in Comparable(e) : d <= seen.by
            BY <1>1, <3>1, <4>1, <5>2 DEF TruthInv, Comparable, Succeeded, Typed, Seen, Executions, None
          <6>2. Baseline(e) \in Comparable(e) /\ seen.by <= Baseline(e) /\ Baseline(e) <= seen.by
            BY <1>1, <6>1, BaselineIsComparable
          <6>3. Baseline(e) = seen.by
            BY <6>1, <6>2 DEF Comparable, Executions
          <6> QED
            BY <5>2, <6>1, <6>3 DEF OldValue
        <5> QED
          BY <5>1, <5>2
      <4> QED
        BY <3>3, <4>2, <4>3
    <3>6. TruthInv'
      <4> SUFFICES ASSUME ~seen'.overtaken, ~seen'.lapsed
                   PROVE  /\ \A d \in Executions : Succeeded(d)' => d <= seen'.by /\ rows'[d].change = truth'[d]
                          /\ IF seen'.by = None THEN seen'.value = NoValue
                             ELSE Succeeded(seen.by)' /\ rows'[seen'.by].value = seen'.value
                          /\ \A d \in Executions : run'[d].pc = "retain" => seen'.by = d
                          /\ \A d \in Executions : Succeeded(d)' => IsNext(d)'
        BY DEF TruthInv
      <4>1. seen'.by = e /\ seen'.value = run[e].value /\ ~seen.overtaken /\ ~seen.lapsed /\ ~(e < seen.by)
        BY <2>4
      <4>2. ASSUME NEW d \in Executions, Succeeded(d)' PROVE d <= e /\ rows'[d].change = truth'[d]
        <5>1. CASE d = e
          BY <3>3, <3>5, <5>1 DEF Executions
        <5>2. CASE d # e
          BY <1>1, <3>1, <3>3, <4>1, <4>2, <5>2 DEF TruthInv, Succeeded, Executions, Typed, Seen
        <5> QED
          BY <5>1, <5>2
      <4>3. Succeeded(seen.by)' /\ rows'[e].value = run[e].value
        BY <2>2, <3>3, <4>1 DEF Succeeded
      <4>4. ASSUME NEW d \in Executions \ {e} PROVE run'[d].pc # "retain"
        <5>1. run[d].pc = "retain" => lease = d
          BY <4>1 DEF IInv, Core, LeaseInv, Needs, InTry
        <5> QED
          BY <2>7, <3>3, <4>1, <5>1
      <4>5. e # None
        BY DEF Executions, None
      <4>6. ASSUME NEW d \in Executions, Succeeded(d)' PROVE IsNext(d)'
        <5>1. \A c \in Executions \ {e} : Succeeded(c)' => Succeeded(c) /\ c < e
          BY <1>1, <3>1, <3>3, <4>1 DEF TruthInv, Succeeded, Executions, Typed, Seen
        <5>2. CASE d = e
          <6>1. run[e].base = Baseline(e)
            BY <1>1, <4>1 DEF ReadInv
          <6>2. r.base # None => /\ r.base \in Comparable(e)
                                 /\ \A c \in Comparable(e) : c <= r.base
            BY <1>1, <2>2, <6>1, BaselineIsComparable
          <6>3. \A c \in Executions \ {e} : Succeeded(c)' => c \in Comparable(e)
            BY <5>1 DEF Comparable, Succeeded
          <6>4. ASSUME NEW b, b = r.base, b # None
                PROVE  b < e /\ \A c \in Executions : Succeeded(c)' => c <= b \/ e <= c
            <7>1. b \in Executions \ {e} /\ Succeeded(b)'
              BY <3>3, <6>2, <6>4 DEF Comparable, Succeeded
            <7> QED
              BY <5>1, <6>2, <6>3, <6>4, <7>1 DEF Executions
          <6>5. rows'[e].base # None =>
                  /\ rows'[e].base < e
                  /\ \A c \in Executions : Succeeded(c)' => c <= rows'[e].base \/ e <= c
            BY <3>3, <6>4
          <6> QED
            BY <5>2, <6>5 DEF IsNext, Succeeded
        <5>2a. ASSUME d # e PROVE Succeeded(d) /\ d < e /\ IsNext(d)
          BY <3>1, <4>1, <4>6, <5>1, <5>2a DEF TruthInv
        <5>3. CASE d # e
          BY <3>3, <5>1, <5>2a, <5>3 DEF IsNext, Executions
        <5> QED
          BY <5>2, <5>3
      <4> QED
        BY <4>1, <4>2, <4>3, <4>4, <4>5, <4>6
    <3> QED
      BY <3>4, <3>6
  <2> QED
    BY <2>8, <2>9, <2>10 DEF IInv, SteadyInv, CommitInv, Steady
<1> QED
  BY <1>2, <1>3

(* What retention leaves of the row of an execution: all but its baseline   *)
(* if that is gone, or nothing, in which case its alerts are gone as well.  *)
Retained(d, e) ==
  \/ /\ d # e /\ Exists(d) /\ rows'[d] = Deleted /\ alerts'[d] = NoAlert
  \/ /\ rows'[d] \in Row /\ alerts'[d] = alerts[d]
     /\ rows'[d].status = rows[d].status /\ rows'[d].value = rows[d].value
     /\ rows'[d].change = rows[d].change
     /\ rows'[d].base # None => /\ rows'[d].base = rows[d].base
                                /\ rows'[rows[d].base].status = rows[rows[d].base].status

LEMMA ExpireIs ==
  ASSUME IInv, NEW e \in Executions, NEW cutoff, Expire(e, cutoff)
  PROVE  /\ rows' \in [Executions -> Row] /\ alerts' \in [Executions -> Alert]
         /\ \A d \in Executions : Retained(d, e)
<1> DEFINE expired == {d \in Executions \ {e} : d < cutoff /\ Exists(d)}
           left(d) == [rows[d] EXCEPT !.base = IF @ \in expired THEN None ELSE @]
<1>1. expired \subseteq Executions \ {e} /\ \A d \in expired : Exists(d)
  OBVIOUS
<1>2. /\ rows' = [d \in Executions |-> IF d \in expired THEN Deleted ELSE left(d)]
      /\ alerts' = [d \in Executions |-> IF d \in expired THEN NoAlert ELSE alerts[d]]
  BY Zenon DEF Expire
<1> HIDE DEF expired
<1>3. ASSUME NEW d \in Executions
      PROVE  /\ left(d) \in Row /\ left(d).status = rows[d].status /\ left(d).value = rows[d].value
             /\ left(d).change = rows[d].change
             /\ left(d).base = (IF rows[d].base \in expired THEN None ELSE rows[d].base)
  BY JobOf, DetectionConstants DEF Row, None
<1>4. ASSUME NEW d \in Executions PROVE rows'[d] \in Row /\ alerts'[d] \in Alert
  BY <1>2, <1>3, JobOf, DeletedIs, Constants
<1>5. ASSUME NEW d \in Executions PROVE Retained(d, e)
  <2>1. CASE d \in expired
    BY <1>1, <1>2, <2>1 DEF Retained
  <2>2. CASE d \notin expired
    <3>1. rows'[d] = left(d) /\ alerts'[d] = alerts[d]
      BY <1>2, <2>2
    <3>2. ASSUME left(d).base # None
          PROVE  /\ left(d).base = rows[d].base /\ rows[d].base \in Executions
                 /\ rows'[rows[d].base].status = rows[rows[d].base].status
      <4>1. left(d).base = rows[d].base /\ rows[d].base \notin expired
        BY <1>3, <3>2
      <4>2. rows[d].base \in Executions
        BY <3>2, <4>1, JobOf DEF Row, Executions, None
      <4> QED
        BY <1>2, <1>3, <4>1, <4>2
    <3> HIDE DEF left
    <3> QED
      BY <1>3, <3>1, <3>2 DEF Retained
  <2> QED
    BY <2>1, <2>2
<1> QED
  BY <1>2, <1>4, <1>5

LEMMA RetainHolds == ASSUME IInv, NEW e \in Executions, Retain(e) PROVE IInv'
<1> DEFINE p == IF run[e].change = "changed" THEN "alert" ELSE "release"
           j == To(e, p)
<1>1. /\ j \in Job /\ j.pc = p /\ p \in {"alert", "release"} /\ j.again = run[e].again
      /\ j.stalled = run[e].stalled /\ j.change = run[e].change /\ run' = [run EXCEPT ![e] = j]
      /\ p = "alert" <=> run[e].change = "changed"
  BY ToIs DEF Retain, Busy, InTry
<1> HIDE DEF p, j
<1>2. /\ Core /\ Typed /\ run[e].pc = "retain"
  BY DEF IInv, Core, Retain, At
<1>3. /\ rows' \in [Executions -> Row] /\ alerts' \in [Executions -> Alert]
      /\ \A d \in Executions : Retained(d, e)
      /\ UNCHANGED <<seen, truth, lease>>
  BY ExpireIs DEF Retain, Unseen
<1>4. run'[e] = j /\ \A d \in Executions \ {e} : run'[d] = run[d]
  BY <1>1, <1>2 DEF Typed
<1>5. \A d \in Executions : Succeeded(d)' => /\ Succeeded(d) /\ rows'[d].value = rows[d].value
                                             /\ rows'[d].change = rows[d].change
  BY <1>3, DeletedIs DEF Retained, Succeeded
<1>6. ~seen.lapsed => lease = e
  BY <1>2 DEF Core, LeaseInv, Needs, InTry
<1>7. /\ rows'[e].status = rows[e].status /\ rows'[e].value = rows[e].value
      /\ rows'[e].change = rows[e].change /\ alerts'[e] = alerts[e]
  BY <1>3 DEF Retained
<1>8. Core'
  <2>1. Typed'
    BY <1>1, <1>2, <1>3 DEF Typed
  <2>2. JobInv(e)' /\ ReadInv(e)' /\ LeaseInv(e)'
    BY <1>1, <1>2, <1>3, <1>4, <1>6, <1>7, JobOf
       DEF JobInv, RowSound, AlertSound, IsFinalAt, ReadInv, LeaseInv, Needs, InTry
  <2>3. ASSUME NEW d \in Executions \ {e} PROVE JobInv(d)' /\ ReadInv(d)' /\ LeaseInv(d)'
    <3>1. JobInv(d) /\ LeaseInv(d)
      BY <1>2 DEF Core
    <3>2. RowSound(run[d], rows'[d]) /\ AlertSound(run[d], rows'[d], alerts'[d])
      <4>1. CASE rows'[d] = Deleted /\ alerts'[d] = NoAlert /\ Exists(d)
        BY <3>1, <4>1, DeletedIs, Constants DEF JobInv, RowSound, AlertSound, IsFinalAt, Exists
      <4>2. CASE /\ rows'[d].status = rows[d].status /\ rows'[d].change = rows[d].change
                 /\ alerts'[d] = alerts[d]
        BY <3>1, <4>2 DEF JobInv, RowSound, AlertSound, IsFinalAt
      <4> QED
        BY <1>3, <4>1, <4>2 DEF Retained
    <3>3. ~seen.lapsed => run[d].pc # "commit" /\ ~Needs(run[d], rows'[d])
      BY <1>5, <1>6, <3>1 DEF LeaseInv, Needs, InTry, Succeeded
    <3> QED
      BY <1>3, <1>4, <3>2, <3>3 DEF JobInv, ReadInv, LeaseInv
  <2>4. LapseInv'
    BY <1>2, <1>3 DEF Core, LapseInv
  <2> QED
    BY <2>1, <2>2, <2>3, <2>4 DEF Core
<1>9. ASSUME Steady PROVE \A d \in Executions : BaseInv(d)'
  <2>1. ASSUME NEW b \in Executions, Kept(b)
        PROVE  rows'[b].status = "deleted" \/ (Kept(b)' /\ rows'[b].value = rows[b].value)
    BY <1>2, <1>3, <1>4, <2>1, DeletedIs
       DEF Kept, IsFinalAt, Retained, Succeeded, NothingFailsAfterCommit
  <2>2. ASSUME NEW d \in Executions PROVE BaseInv(d)'
    <3>1. BaseInv(d) /\ rows[d] \in Row /\ run[d] \in Job
      BY <1>9, JobOf DEF IInv, SteadyInv
    <3>2. ASSUME NEW b, b = rows'[d].base, Succeeded(d)', b # None
          PROVE  Kept(b)' /\ rows'[d].change = Compare(rows'[b].value, rows'[d].value)
      <4>1. Succeeded(d) /\ b = rows[d].base /\ b \in Executions /\ rows'[b].status = rows[b].status
        BY <1>3, <1>5, <3>1, <3>2, DeletedIs DEF Retained, Row, Executions, None, Succeeded
      <4>2. Kept(b) /\ rows[d].change = Compare(rows[b].value, rows[d].value)
        BY <3>1, <3>2, <4>1 DEF BaseInv
      <4>3. rows'[b].status # "deleted"
        BY <4>1, <4>2 DEF Kept, Succeeded
      <4>4. Kept(b)' /\ rows'[b].value = rows[b].value
        BY <2>1, <4>1, <4>2, <4>3
      <4>5. rows'[d].value = rows[d].value /\ rows'[d].change = rows[d].change
        BY <1>5, <3>2
      <4> QED
        BY <4>2, <4>4, <4>5
    <3>3. ASSUME NEW b, b = run'[d].base, run'[d].pc = "commit", b # None
          PROVE  \/ rows'[b].status = "deleted"
                 \/ Kept(b)' /\ run'[d].change = Compare(rows'[b].value, run'[d].value)
      <4>1. d # e /\ run'[d] = run[d]
        BY <1>1, <1>4, <3>3
      <4>2. b \in Executions
        BY <3>1, <3>3, <4>1 DEF Job, Executions, None
      <4>3. rows[b].status = "deleted" => rows'[b].status = "deleted"
        BY <1>3, <4>2, DeletedIs DEF Retained
      <4>4. \/ rows[b].status = "deleted"
            \/ Kept(b) /\ run[d].change = Compare(rows[b].value, run[d].value)
        BY <3>1, <3>3, <4>1 DEF BaseInv
      <4> QED
        BY <2>1, <4>1, <4>2, <4>3, <4>4
    <3> QED
      BY <3>2, <3>3 DEF BaseInv, Kept, Succeeded
  <2> QED
    BY <2>2
<1>10. ASSUME NothingFailsAfterCommit PROVE TruthInv' /\ \A d \in Executions : FinalInv(d)'
  <2>1. TruthInv /\ \A d \in Executions : FinalSound(run[d], rows[d], alerts[d])
    BY <1>10 DEF IInv, CommitInv, FinalInv
  <2>2. FinalInv(e)'
    BY <1>1, <1>2, <1>4, <1>7, <2>1, JobOf DEF FinalInv, FinalSound, RowSound
  <2>3. ASSUME NEW d \in Executions \ {e} PROVE FinalInv(d)'
    BY <1>3, <1>4, <2>1, DeletedIs DEF FinalInv, FinalSound, Retained
  <2>4. TruthInv'
    <3>1. ~seen.overtaken /\ ~seen.lapsed => seen.by = e
      BY <1>2, <2>1 DEF TruthInv
    <3>2. e # None
      BY DEF Executions, None
    <3>3. ASSUME NEW d \in Executions, ~seen.overtaken, ~seen.lapsed, Succeeded(d)' PROVE IsNext(d)'
      <4>1. IsNext(d) /\ (rows'[d].base # None => rows'[d].base = rows[d].base)
        BY <1>3, <1>5, <2>1, <3>3, DeletedIs DEF TruthInv, Retained
      <4> DEFINE b == rows'[d].base
      <4>2. b # None => b < d /\ \A c \in Executions : Succeeded(c) => c <= b \/ d <= c
        BY <4>1 DEF IsNext
      <4>3. b # None => b < d /\ \A c \in Executions : Succeeded(c)' => c <= b \/ d <= c
        BY <1>5, <4>2
      <4> QED
        BY <4>3 DEF IsNext, Succeeded
    <3> QED
      BY <1>1, <1>3, <1>4, <1>5, <1>7, <2>1, <3>1, <3>2, <3>3 DEF TruthInv, Succeeded
  <2> QED
    BY <2>2, <2>3, <2>4
<1> QED
  BY <1>8, <1>9, <1>10 DEF IInv, SteadyInv, CommitInv, Steady

(* The key of the lease, and no step at all. *)
LEMMA OutsideHolds == ASSUME IInv, LeaseExpires \/ UNCHANGED vars PROVE IInv'
<1>1. Core /\ Typed
  BY DEF IInv, Core
<1>2. /\ UNCHANGED <<rows, run, alerts, truth>> /\ seen' \in Seen
      /\ seen'.value = seen.value /\ seen'.by = seen.by /\ seen'.overtaken = seen.overtaken
      /\ lease' \in Executions \cup {Free, Orphan}
  BY <1>1 DEF LeaseExpires, vars, Typed, Seen
<1>3. \/ lease' = lease /\ seen'.lapsed = seen.lapsed
      \/ /\ lease' = Free /\ seen.lapsed => seen'.lapsed
         /\ lease # Orphan => seen'.lapsed /\ Lapses
         /\ lease = Orphan => seen'.lapsed = seen.lapsed
  BY <1>1 DEF LeaseExpires, vars, Typed, Seen
<1>4. seen.lapsed => seen'.lapsed
  BY <1>3
<1>5. Core'
  <2>1. Typed'
    BY <1>1, <1>2 DEF Typed
  <2>2. LapseInv'
    BY <1>1, <1>3 DEF Core, LapseInv
  <2>3. ASSUME NEW e \in Executions PROVE LeaseInv(e)'
    <3>1. ~seen'.lapsed /\ lease = e => lease' = lease
      BY <1>3, DetectionConstants
    <3> QED
      BY <1>1, <1>2, <1>4, <3>1 DEF Core, LeaseInv
  <2>4. ASSUME NEW e \in Executions PROVE JobInv(e)' /\ ReadInv(e)'
    <3>1. Baseline(e)' = Baseline(e) /\ OldValue(e)' = OldValue(e)
      BY <1>2 DEF Baseline, Comparable, OldValue
    <3> QED
      BY <1>1, <1>2, <1>4, <3>1 DEF Core, JobInv, ReadInv
  <2> QED
    BY <2>1, <2>2, <2>3, <2>4 DEF Core
<1>6. SteadyInv'
  BY <1>2 DEF IInv, SteadyInv, BaseInv, Kept, Succeeded, Steady
<1>7. CommitInv'
  BY <1>2, <1>4 DEF IInv, CommitInv, TruthInv, FinalInv, Succeeded, IsNext
<1> QED
  BY <1>5, <1>6, <1>7 DEF IInv

LEMMA Inductive == IInv /\ [Next]_vars => IInv'
BY OutsideHolds, RequestHolds, BeginHolds, AcquireHolds, CrawlHolds, ReadHolds, CommitHolds, RetainHolds,
   InsertHolds, PublishHolds, NoteFailedHolds, RecordHolds, ReleaseHolds, FailHolds, CrashHolds DEF Next, Work

LEMMA Invariant == Spec => []IInv
BY InitHolds, Inductive, PTL DEF Spec

-----------------------------------------------------------------------------
(* A change is announced at most once and nothing else ever is, whatever    *)
(* dies or outlives its lease and whatever rejects, except the publication  *)
(* and the update in its catch block together: elsewhere the insertion of   *)
(* the delivery makes the result final for every later attempt of the job.  *)
THEOREM NoSecondAlert ==
  ASSUME NoteHolds
  PROVE  Spec => []OneAlertPerChange
<1>1. IInv => OneAlertPerChange
  <2>1. ASSUME IInv, NEW e \in Executions
        PROVE  alerts[e].made <= IF rows[e].change = "changed" THEN 1 ELSE 0
    BY <2>1, JobOf DEF AlertSound, IsFinalAt, Alert
  <2> QED
    BY <2>1 DEF OneAlertPerChange
<1> QED
  BY <1>1, Invariant, PTL

(* Nobody commits or removes a result of the monitor between the read of    *)
(* the baseline and the transaction, as long as no crawl outlived its       *)
(* lease: the mutual exclusion that the transaction itself does not give.   *)
THEOREM ComparisonIsCurrent == Spec => BaselineIsCurrent
<1>1. IInv => \A e \in Executions :
         At(e, "commit") /\ rows'[e].status = "succeeded" /\ ~seen.lapsed => run[e].base = Baseline(e)
  BY DEF IInv, Core, ReadInv, At
<1> QED
  BY <1>1, Invariant, PTL DEF BaselineIsCurrent

(* A stored change and the two results it relates agree for good, unless a  *)
(* crawl may outlive its lease and a step may fail after the transaction:   *)
(* a result that is taken back can then be replaced under a comparison.     *)
THEOREM ChangesAgree ==
  ASSUME Steady
  PROVE  Spec => []ChangeAgreesWithBaseline
<1>1. IInv => ChangeAgreesWithBaseline
  BY DEF IInv, SteadyInv, BaseInv, ChangeAgreesWithBaseline, Succeeded
<1> QED
  BY <1>1, Invariant, PTL

(* As long as nothing fails after the transaction, each result committed in *)
(* the order of requestedAt and under the lease reports what the last two   *)
(* crawls saw, although it was compared with a row and not with a crawl.    *)
THEOREM ReportsHold ==
  ASSUME NothingFailsAfterCommit
  PROVE  Spec => []ReportsAreTrue
<1>1. IInv => ReportsAreTrue
  BY DEF IInv, CommitInv, TruthInv, ReportsAreTrue, Succeeded
<1> QED
  BY <1>1, Invariant, PTL

(* Under the same conditions a result is the baseline of one other at most: *)
(* no two executions report the same difference.                            *)
THEOREM NoChangeIsReportedTwice ==
  ASSUME NothingFailsAfterCommit
  PROVE  Spec => []ChangeIsReportedOnce
<1>1. ASSUME IInv, ~seen.overtaken, ~seen.lapsed, NEW d \in Executions, NEW e \in Executions,
             d # e, Succeeded(d), Succeeded(e), rows[d].base = rows[e].base
      PROVE  rows[e].base = None
  <2>1. IsNext(d) /\ IsNext(e)
    BY <1>1 DEF IInv, CommitInv, TruthInv
  <2>2. rows[e].base \in 0..MaxRows /\ d \in Nat /\ e \in Nat /\ d # e
    BY <1>1, JobOf DEF Row, Executions
  <2>3. ASSUME rows[e].base # None
        PROVE  /\ rows[e].base < d /\ rows[e].base < e
               /\ d <= rows[e].base \/ e <= d
               /\ e <= rows[e].base \/ d <= e
    BY <1>1, <2>1, <2>3 DEF IsNext
  <2> QED
    BY <2>2, <2>3
<1>2. IInv => ChangeIsReportedOnce
  BY <1>1 DEF ChangeIsReportedOnce, Succeeded
<1> QED
  BY <1>2, Invariant, PTL

(* And a change whose worker never died is announced before its job ends.   *)
THEOREM NoChangeIsLost ==
  ASSUME NothingFailsAfterCommit
  PROVE  Spec => []ChangesAreAlerted
<1>1. IInv => ChangesAreAlerted
  BY DEF IInv, CommitInv, FinalInv, FinalSound, ChangesAreAlerted, At
<1> QED
  BY <1>1, Invariant, PTL

-----------------------------------------------------------------------------
(* The result of e is deleted, or stays what it was; a reference to its     *)
(* baseline goes with the baseline.                                         *)
Stays(e) == \/ rows'[e].status = "deleted"
            \/ /\ rows'[e].status = "succeeded" /\ rows'[e].base \in {None, rows[e].base}
               /\ rows'[e].value = rows[e].value /\ rows'[e].change = rows[e].change

LEMMA ResultStays ==
  ASSUME IInv, [Next]_vars, NEW e \in Executions, Succeeded(e), run[e].pc # "record"
  PROVE  Stays(e)
<1>1. /\ rows \in [Executions -> Row] /\ rows[e] \in Row /\ rows[e].status = "succeeded"
      /\ run[e].pc \notin {"lease", "crawl", "compare", "commit"}
  BY JobOf DEF IInv, Core, Typed, Succeeded, RowSound
<1>2. CASE rows'[e] = rows[e]
  BY <1>1, <1>2 DEF Stays
<1>3. CASE Request
  BY <1>1, <1>2, <1>3 DEF Request
<1>4. ASSUME NEW d \in Executions, Begin(d) PROVE Stays(e)
  BY <1>1, <1>2, <1>4 DEF Begin, SetStatus
<1>5. ASSUME NEW d \in Executions, Commit(d) PROVE Stays(e)
  <2>1. d # e
    BY <1>1, <1>5 DEF Commit, At
  <2> QED
    BY <1>1, <1>2, <1>5, <2>1 DEF Commit
<1>6. ASSUME NEW d \in Executions, Retain(d) PROVE Stays(e)
  <2>1. PICK cutoff \in 1..(MaxRows + 1) : Expire(d, cutoff)
    BY <1>6 DEF Retain
  <2>2. Retained(e, d)
    BY <2>1, ExpireIs
  <2> QED
    BY <1>1, <2>2, DeletedIs DEF Retained, Stays
<1>7. ASSUME NEW d \in Executions, Record(d) PROVE Stays(e)
  <2>1. d # e
    BY <1>7 DEF Record, At
  <2> QED
    BY <1>1, <1>2, <1>7, <2>1 DEF Record, SetStatus
<1>8. CASE UNCHANGED rows
  BY <1>2, <1>8
<1> QED
  BY <1>3, <1>4, <1>5, <1>6, <1>7, <1>8
  DEF Next, Work, vars, LeaseExpires, AcquireLease, Crawl, ReadBaseline, InsertAlert, PublishAlert,
      NoteFailedPublication, Release, StepFails, Crash

(* What a user was told stays as it was told: a result that has an alert is *)
(* not replaced by a later attempt of its job, unless the publication of    *)
(* the alert and the update in its catch block both rejected.               *)
THEOREM AnnouncedIsFinal ==
  ASSUME NoteHolds
  PROVE  Spec => [][\A e \in Executions : alerts[e].made > 0 => Stays(e)]_vars
<1>1. ASSUME IInv, [Next]_vars, NEW e \in Executions, alerts[e].made > 0 PROVE Stays(e)
  <2>1. Succeeded(e) /\ run[e].pc # "record"
    BY <1>1, JobOf DEF AlertSound, IsFinalAt, Alert, Succeeded
  <2> QED
    BY <1>1, <2>1, ResultStays
<1>2. IInv /\ [Next]_vars => [\A e \in Executions : alerts[e].made > 0 => Stays(e)]_vars
  BY <1>1
<1> QED
  BY <1>2, Invariant, PTL DEF Spec

(* Without alerts it takes that nothing fails after the transaction: a      *)
(* result is final, whoever dies and however often its job is started.      *)
THEOREM ResultsAreFinal ==
  ASSUME NothingFailsAfterCommit
  PROVE  Spec => [][\A e \in Executions : rows[e].status = "succeeded" => Stays(e)]_vars
<1>1. ASSUME IInv, [Next]_vars, NEW e \in Executions, rows[e].status = "succeeded" PROVE Stays(e)
  <2>1. Succeeded(e) /\ run[e].pc # "record"
    BY <1>1, JobOf DEF FinalSound, Succeeded
  <2> QED
    BY <1>1, <2>1, ResultStays
<1>2. IInv /\ [Next]_vars => [\A e \in Executions : rows[e].status = "succeeded" => Stays(e)]_vars
  BY <1>1
<1> QED
  BY <1>2, Invariant, PTL DEF Spec

(* The promise that an unchanged value is never alerted, which overtaking    *)
(* executions break, holds as long as results were committed in the order of *)
(* requestedAt and under the lease, and nothing fails after the transaction. *)
THEOREM SilentWhenInOrder ==
  ASSUME NothingFailsAfterCommit
  PROVE  Spec => [](~seen.overtaken /\ ~seen.lapsed => RepeatedValueIsSilent)
<1>1. ASSUME IInv, ReportsAreTrue, ~seen.overtaken, ~seen.lapsed PROVE RepeatedValueIsSilent
  <2>1. ASSUME NEW e \in Executions, alerts[e].made > 0 PROVE truth[e] = "changed"
    <3>1. rows[e].status = "succeeded" /\ rows[e].change = "changed"
      BY <1>1, <2>1, JobOf, FaultsExcluded DEF AlertSound, Alert
    <3> QED
      BY <1>1, <3>1 DEF ReportsAreTrue
  <2> QED
    BY <2>1 DEF RepeatedValueIsSilent
<1> QED
  BY <1>1, Invariant, ReportsHold, PTL
=============================================================================
