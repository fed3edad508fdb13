-------------------------- MODULE EscalationLedger --------------------------
(***************************************************************************)
(* What escalation promises about one request after another: a request is  *)
(* decided at most once, a decision is never taken back, and a request     *)
(* that was dropped without a decision stays dropped.                      *)
(***************************************************************************)
CONSTANT Id             \* the ids of escalation requests

VARIABLE status         \* what has become of each request

Status == {"unknown", "pending", "approved", "denied", "dropped"}

Init == status = [id \in Id |-> "unknown"]

Submit(id) == status[id] = "unknown" /\ status' = [status EXCEPT ![id] = "pending"]

Decide(id) == /\ status[id] = "pending"
              /\ \E s \in {"approved", "denied"} : status' = [status EXCEPT ![id] = s]

\* Any pending requests may be lost together.
Drop == \E lost \in SUBSET {id \in Id : status[id] = "pending"} :
          status' = [id \in Id |-> IF id \in lost THEN "dropped" ELSE status[id]]

Next == (\E id \in Id : Submit(id) \/ Decide(id)) \/ Drop

Spec == Init /\ [][Next]_status
=============================================================================
