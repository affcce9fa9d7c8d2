-------------------------- MODULE MCExtractionJob --------------------------
EXTENDS ExtractionJob

CONSTANTS p1, p2
TwoSlots == {p1, p2}

AllTriggers == TriggerKinds
OnlyManual == {"manual"}

NoFailures == {}
(* Everything that may reject while an execution has no result yet. *)
FailuresInTry == {"lease", "crawl", "store", "commit", "publish"}
(* Every await but those between the commit and the end of the try block. *)
FailuresButFollowUp == (Steps \ {"followup"}) \cup {"publish", "undo"}
(* One rejection before, in and after the try block. *)
FailuresAround == {"load", "crawl", "record", "release"}
FollowUpFails == {"followup"}
=============================================================================
