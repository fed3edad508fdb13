----------------------------- MODULE AuditChain -----------------------------
(***************************************************************************)
(* What the audit log promises: records are appended one at a time, each   *)
(* names the record before it, and none is ever changed or removed, until  *)
(* the log has failed for the first time.                                  *)
(***************************************************************************)
EXTENDS Naturals, Sequences

CONSTANT Id             \* identities of records; a record's hash is its id
Genesis == 0            \* the previous hash of the first record

VARIABLES chain,        \* the records of the log, oldest first
          failed        \* a write was cut short by an error or a crash

Tip == IF chain = << >> THEN Genesis ELSE chain[Len(chain)].id

Init == chain = << >> /\ failed = FALSE

Extend(id) == /\ ~ failed /\ UNCHANGED failed
              /\ \A i \in 1..Len(chain) : chain[i].id # id
              /\ chain' = Append(chain, [id |-> id, prev |-> Tip])

\* From then on nothing is promised.
Fail == failed' = TRUE

Next == (\E id \in Id : Extend(id)) \/ Fail

Spec == Init /\ [][Next]_<<chain, failed>>
=============================================================================
