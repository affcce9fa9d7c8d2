------------------------- MODULE ExecutionLifecycle ------------------------
(***************************************************************************)
(* What a row of the executions table promises its readers, said without   *)
(* queue, workers or faults: a success is final, a verdict is only reached *)
(* by a running execution, a failure is only declared when the attempts    *)
(* are used up, and the attempt number never goes back.  A failed or       *)
(* blocked execution may be started again: that is what happens to a job   *)
(* whose worker died after it wrote the verdict.                           *)
(***************************************************************************)
EXTENDS Naturals

CONSTANTS Executions, MaxAttempts

VARIABLES status, attempt

vars == <<status, attempt>>

Init == /\ status = [e \in Executions |-> "unused"]
        /\ attempt = [e \in Executions |-> 0]

Move(e, from, to) == /\ status[e] = from
                     /\ status' = [status EXCEPT ![e] = to]
                     /\ UNCHANGED attempt

Create(e) == Move(e, "unused", "queued")

Start(e) == /\ status[e] \in {"queued", "running", "failed", "blocked"}
            /\ status' = [status EXCEPT ![e] = "running"]
            /\ \E n \in attempt[e]..MaxAttempts :
                 n > 0 /\ attempt' = [attempt EXCEPT ![e] = n]

Requeue(e) == attempt[e] < MaxAttempts /\ Move(e, "running", "queued")
Succeed(e) == Move(e, "running", "succeeded")
Fail(e)    == attempt[e] = MaxAttempts /\ Move(e, "running", "failed")
Block(e)   == Move(e, "running", "blocked")

(* A monitor takes its executions with it. *)
Delete == \E gone \in SUBSET Executions :
            /\ \A e \in gone : status[e] # "unused"
            /\ status' = [e \in Executions |-> IF e \in gone THEN "deleted" ELSE status[e]]
            /\ UNCHANGED attempt

Next == \/ Delete
        \/ \E e \in Executions :
             Create(e) \/ Start(e) \/ Requeue(e) \/ Succeed(e) \/ Fail(e) \/ Block(e)

Spec == Init /\ [][Next]_vars
=============================================================================
