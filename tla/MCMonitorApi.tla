---------------------------- MODULE MCMonitorApi ----------------------------
EXTENDS MonitorApi
(* Pause; and resume with a schedule and a new page with its fields. *)
NoEdit == [schedule |-> Keep, active |-> Keep, url |-> FALSE, fields |-> FALSE]
AllEdits == {[NoEdit EXCEPT !.active = "no"],
             [NoEdit EXCEPT !.schedule = "hourly", !.active = "yes", !.url = TRUE, !.fields = TRUE]}
EveryStep == RequestSteps \cup JobSteps
=============================================================================
