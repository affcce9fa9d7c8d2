------------------------ MODULE MCChangeDetection --------------------------
EXTENDS ChangeDetection, TLC

CONSTANTS v1, v2
TwoValues == {v1, v2}
Symmetry == Permutations(TwoValues)

NoFailures == {}
(* The last step before a result is stored, and the publication of the alert. *)
CommitAndPublication == {"commit", "publish"}
=============================================================================
