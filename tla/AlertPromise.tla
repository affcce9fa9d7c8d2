---------------------------- MODULE AlertPromise ----------------------------
(***************************************************************************)
(* What change alerts promise to the owner of a monitor, without queues,   *)
(* workers or redirects.  An alert is announced, may be sent any number of *)
(* times while it is pending, and is reported.  It is reported as          *)
(* delivered only after it was sent; what is not announced is never sent,  *)
(* and a discarded alert never comes back.                                 *)
(***************************************************************************)
CONSTANT Deliveries
VARIABLES report, sent

vars == <<report, sent>>

Init == /\ report = [d \in Deliveries |-> "none"]
        /\ sent = [d \in Deliveries |-> FALSE]

Announce(d) == /\ report[d] = "none"
               /\ report' = [report EXCEPT ![d] = "queued"]
               /\ UNCHANGED sent

(* A discarded alert may still be on its way. *)
Send(d) == /\ report[d] # "none"
           /\ sent' = [sent EXCEPT ![d] = TRUE]
           /\ UNCHANGED report

Report(d) == /\ report[d] \notin {"none", "deleted"}
             /\ \E r \in {"failed", "skipped", "deleted"} \cup (IF sent[d] THEN {"delivered"} ELSE {}) :
                  report' = [report EXCEPT ![d] = r]
             /\ UNCHANGED sent

(* The owner's monitor goes with everything that was announced. *)
DiscardAll == /\ report' = [d \in Deliveries |-> IF report[d] = "none" THEN "none" ELSE "deleted"]
              /\ UNCHANGED sent

Next == DiscardAll \/ \E d \in Deliveries : Announce(d) \/ Send(d) \/ Report(d)

Spec == Init /\ [][Next]_vars
=============================================================================
