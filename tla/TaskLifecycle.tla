---------------------------- MODULE TaskLifecycle ----------------------------
(***************************************************************************)
(* What the engine promises about one task instance: the state machine of  *)
(* t_workflow_task_instance.status, as seen in the database.  A task       *)
(* instance is created asleep or ready, a sleeping one is made ready once, *)
(* a ready one ends in SUCCESS or FAIL once, and those are final.  PROCESS *)
(* is not here: it is written and overwritten inside one transaction.      *)
(***************************************************************************)
EXTENDS Integers, Sequences

VARIABLE status

Init == status = << >>

Create == \E s \in {"SLEEP", "WAIT"} : status' = Append(status, s)

Wake == \E r \in DOMAIN status :
           status[r] = "SLEEP" /\ status' = [status EXCEPT ![r] = "WAIT"]

Finish == \E r \in DOMAIN status :
             /\ status[r] = "WAIT"
             /\ \E s \in {"SUCCESS", "FAIL"} : status' = [status EXCEPT ![r] = s]

Next == Create \/ Wake \/ Finish

Spec == Init /\ [][Next]_status
=============================================================================
