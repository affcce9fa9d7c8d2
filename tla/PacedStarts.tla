---------------------------- MODULE PacedStarts ----------------------------
(***************************************************************************)
(* What the per-domain policy promises about one hostname, said without    *)
(* locks, tokens or workers: two crawls of the host never start less than  *)
(* MinDelay apart.  Time is counted in ticks; sinceStart is the time since *)
(* the last start, saturated at MinDelay because nothing depends on how    *)
(* much longer ago it was.                                                 *)
(***************************************************************************)
EXTENDS Naturals

CONSTANT MinDelay

VARIABLE sinceStart

Init == sinceStart = MinDelay

Start == /\ sinceStart = MinDelay
         /\ sinceStart' = 0

Pass == /\ sinceStart < MinDelay
        /\ sinceStart' = sinceStart + 1

Next == Start \/ Pass

Spec == Init /\ [][Next]_sinceStart
=============================================================================
