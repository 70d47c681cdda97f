----------------------------- MODULE TaskBoard -----------------------------
(***************************************************************************)
(* What task.status promises a client that submits work and comes back     *)
(* later: a session has one status; work that is accepted shows as         *)
(* "running", and a final status only ever replaces "running".             *)
(* DaemonRuns implements this when a client keeps to one run at a time.    *)
(***************************************************************************)
CONSTANT Session

VARIABLE status

Final == {"done", "failed"}
Status == {"not_found", "running"} \cup Final

TypeOK == status \in [Session -> Status]

Init == status = [s \in Session |-> "not_found"]

Submit(s) == status' = [status EXCEPT ![s] = "running"]

Settle(s) ==
  /\ status[s] = "running"
  /\ \E outcome \in Final : status' = [status EXCEPT ![s] = outcome]

Next == \E s \in Session : Submit(s) \/ Settle(s)

Spec == Init /\ [][Next]_status
=============================================================================
