------------------------------ MODULE Escalation ------------------------------
(***************************************************************************)
(* EscalationManager: agents request a more privileged ring, approvers     *)
(* approve or deny the request, and each decision is written to the audit  *)
(* log, exported to a SIEM and answered.                                   *)
(*                                                                         *)
(* approve and deny are async.  A call runs on its own task and other      *)
(* calls, registrations and the end of the process come between its steps  *)
(* at each await: get_ring, get_attestation and the SIEM export.  The      *)
(* runtime has several threads, so they also come between the making of an *)
(* event and the lock under which log_event writes it.  A call whose       *)
(* client goes away is dropped at an await.  A request's agent and reason  *)
(* play no part and are left out; it is immutable, so its id stands for    *)
(* the payload that names it.                                              *)
(***************************************************************************)
EXTENDS JsonlFile, FiniteSets

CONSTANTS Id,         \* request ids (UUIDs)
          Approver,   \* DIDs of approvers
          Key,        \* key pairs
          Ring,       \* the privilege rings in use; 0 is System
          Request,    \* the escalations asked for
          Call,       \* calls of approve and deny; each is made once
          Payload,    \* which payloads are signed: "approval_payload", "cli"
          MaxFailures,  \* failed lookups, log writes and exports, and crashes
          MaxEntries,   \* different entries one approver is registered with
          None

System == 0

ASSUME EscalationAssumption ==
  /\ Ring \subseteq 0..3 /\ System \in Ring
  /\ Request \subseteq [from : Ring, to : Ring]
  /\ Payload \subseteq {"approval_payload", "cli"}
  /\ MaxFailures \in Nat /\ MaxEntries \in Nat

Entry == [key : Key, ring : Ring]
Signature == [by : Key, payload : Payload, id : Id]
Cause == {"ring", "signature", "transition", "explicit"}
Event == [id : Id, approver : Approver, outcome : {"Approved", "Denied"},
          cause : Cause \cup {None}]
Arg == [id : Id, approver : Approver, sig : Signature]

ASSUME NoneAssumption ==
  None \notin Request /\ None \notin Entry /\ None \notin Event /\ None \notin Arg

VARIABLES
  registry,   \* approver DID -> its entry, or None
  request,    \* id -> the request made under it, or None
  pending,    \* ids in the manager's map
  call,       \* call -> where it is
  arg,        \* call -> its arguments
  event,      \* call -> the event it made, or None
  audit,      \* the audit log file
  unflushed,  \* what a failed log_event left in the BufWriter
  exported,   \* the events the SIEM received
  faults, crashes,
  \* History, to state the properties:
  decided,    \* the events made, in order
  earlier,    \* call -> the events that had been answered when it made its own
  registered  \* approver DID -> the entries it ever had

logs == <<audit, unflushed>>
history == <<decided, earlier, registered>>
vars == <<registry, request, pending, call, arg, event, logs, exported, faults,
          crashes, history>>

Init == /\ registry \in [Approver -> Entry \cup {None}]
        /\ registered = [a \in Approver |-> {registry[a]} \ {None}]
        /\ request = [id \in Id |-> None] /\ pending = {}
        /\ call = [c \in Call |-> "free"] /\ arg = [c \in Call |-> None]
        /\ event = [c \in Call |-> None]
        /\ audit = << >> /\ unflushed = << >> /\ exported = {}
        /\ faults = 0 /\ crashes = 0
        /\ decided = << >> /\ earlier = [c \in Call |-> {}]

Fault == faults + crashes < MaxFailures /\ faults' = faults + 1

\* AgentRegistry::register replaces the key and the ring together.
Register(a, e) ==
  /\ Cardinality(registered[a] \cup {e}) <= MaxEntries
  /\ registry' = [registry EXCEPT ![a] = e]
  /\ registered' = [registered EXCEPT ![a] = @ \cup {e}]
  /\ UNCHANGED <<request, pending, call, arg, event, logs, exported, faults,
                 crashes, decided, earlier>>

RequestEscalation(id, r) ==
  /\ request[id] = None
  /\ request' = [request EXCEPT ![id] = r] /\ pending' = pending \cup {id}
  /\ UNCHANGED <<registry, call, arg, event, logs, exported, faults, crashes, history>>

\* Call c makes the event of its request; it has not logged it yet.
Conclude(c, id, approver, outcome, cause) ==
  LET e == [id |-> id, approver |-> approver, outcome |-> outcome, cause |-> cause]
  IN  /\ event' = [event EXCEPT ![c] = e] /\ decided' = Append(decided, e)
      /\ earlier' = [earlier EXCEPT ![c] = {event[d] : d \in {x \in Call : call[x] = "ok"}}]
      /\ call' = [call EXCEPT ![c] = "log"]

\* Mutant: the request is looked up and stays in the map.
TakeKeeps(c, id) == call[c] = "free" /\ id \in pending /\ UNCHANGED pending

\* Call c removes its request from the map.  Of two calls only one finds it.
Take(c, id) == call[c] = "free" /\ id \in pending /\ pending' = pending \ {id}

NotFound(c, id) ==
  /\ call[c] = "free" /\ id \notin pending
  /\ call' = [call EXCEPT ![c] = "err"]
  /\ UNCHANGED <<registry, request, pending, arg, event, logs, exported, faults,
                 crashes, history>>

\* approve removes the request first and checks afterwards.
Approve(c, id, a, sig) ==
  /\ Take(c, id)
  /\ call' = [call EXCEPT ![c] = "ring"]
  /\ arg' = [arg EXCEPT ![c] = [id |-> id, approver |-> a, sig |-> sig]]
  /\ UNCHANGED <<registry, request, event, logs, exported, faults, crashes, history>>

\* deny asks neither for a ring nor for a signature.
Deny(c, id, a) ==
  /\ Take(c, id)
  /\ Conclude(c, id, a, "Denied", "explicit")
  /\ UNCHANGED <<registry, request, arg, logs, exported, faults, crashes, registered>>

\* The registry does not know the approver, or cannot be asked, or its
\* attestation does not verify: approve returns Err and makes no event.
LookupFails(c) ==
  /\ call[c] \in {"ring", "attestation"}
  /\ \/ registry[arg[c].approver] = None /\ UNCHANGED faults
     \/ Fault
  /\ call' = [call EXCEPT ![c] = "err"]
  /\ UNCHANGED <<registry, request, pending, arg, event, logs, exported,
                 crashes, history>>

\* Mutant: any ring will do.
CheckRingForgotten(c) ==
  /\ call[c] = "ring" /\ registry[arg[c].approver] # None
  /\ call' = [call EXCEPT ![c] = "attestation"]
  /\ UNCHANGED <<event, logs, faults, registry, request, pending, arg, exported,
                 crashes, history>>

\* get_ring has answered.
CheckRing(c) ==
  LET a == arg[c]
      e == registry[a.approver]
  IN  /\ call[c] = "ring" /\ e # None
      /\ \/ /\ e.ring = System
            /\ call' = [call EXCEPT ![c] = "attestation"]
            /\ UNCHANGED <<event, decided, earlier>>
         \/ e.ring # System /\ Conclude(c, a.id, a.approver, "Denied", "ring")
      /\ UNCHANGED <<registry, request, pending, arg, logs, exported, faults, crashes,
                     registered>>

\* verify_signature over approval_payload(id, agent, ring): the payload the CLI
\* signs, "<id>:target-agent:<number of the ring>", is never that one.
Signs(sig, key, id) ==
  sig.by = key /\ sig.id = id /\ sig.payload = "approval_payload"

\* get_attestation has answered: signature, then transition, then approval.
CheckAttestation(c) ==
  LET a == arg[c]
      e == registry[a.approver]
      r == request[a.id]
  IN  /\ call[c] = "attestation" /\ e # None
      /\ \/ /\ ~ Signs(a.sig, e.key, a.id)
            /\ Conclude(c, a.id, a.approver, "Denied", "signature")
         \/ /\ Signs(a.sig, e.key, a.id) /\ r.to >= r.from
            /\ Conclude(c, a.id, a.approver, "Denied", "transition")
         \/ /\ Signs(a.sig, e.key, a.id) /\ r.to < r.from
            /\ Conclude(c, a.id, a.approver, "Approved", None)
      /\ UNCHANGED <<registry, request, pending, arg, logs, exported, faults, crashes,
                     registered>>

\* Mutant: the new text overtakes what the BufWriter kept.
LogEventOvertakes(c) ==
  /\ call[c] = "log"
  /\ \/ /\ audit' = (audit \o Text(event[c])) \o unflushed /\ unflushed' = << >>
        /\ UNCHANGED faults
     \/ Fault /\ unflushed' = unflushed \o Text(event[c]) /\ UNCHANGED audit
  /\ call' = [call EXCEPT ![c] = "export"]
  /\ UNCHANGED <<registry, request, pending, arg, event, exported, crashes, history>>

\* write_all or flush fails with the text before it.  Some of it, n pieces, is in
\* the file by then.  What the BufWriter accepted of the rest stays in it, to be
\* written with the next event.  What it did not accept is lost: the newline, when
\* the full buffer could not be flushed for it (1); the rest of a record too large
\* to be buffered (2); the whole record, when older bytes could not be flushed or
\* writing the large record failed at once (3).
LogEventFails(text) ==
  \E lost \in 0..3 : \E n \in 0..(Len(text) - lost) :
    LET rest == Len(text) - n
    IN  /\ rest >= 1
        /\ lost = 1 => rest >= 2
        /\ lost = 2 => rest = 2
        /\ lost = 3 => rest >= 3
        /\ audit' = audit \o SubSeq(text, 1, n)
        /\ unflushed' = SubSeq(text, n + 1, Len(text) - lost)

\* log_event, under the lock of the BufWriter.  approve and deny ignore its error.
LogEvent(c) ==
  LET text == unflushed \o Text(event[c])
  IN  /\ call[c] = "log"
      /\ \/ audit' = audit \o text /\ unflushed' = << >> /\ UNCHANGED faults
         \/ Fault /\ LogEventFails(text)
      /\ call' = [call EXCEPT ![c] = "export"]
      /\ UNCHANGED <<registry, request, pending, arg, event, exported, crashes, history>>

\* The POST to the SIEM ends, and the call answers with the event: an error of
\* the export is ignored and it is not tried again.
Export(c) ==
  /\ call[c] = "export"
  /\ \/ exported' = exported \cup {event[c]} /\ UNCHANGED faults
     \/ Fault /\ UNCHANGED exported
  /\ call' = [call EXCEPT ![c] = "ok"]
  /\ UNCHANGED <<registry, request, pending, arg, event, logs, crashes, history>>

\* The client goes away and the task is dropped at its await; log_event has none.
Cancel(c) ==
  /\ \/ call[c] \in {"ring", "attestation"} /\ UNCHANGED exported
     \/ call[c] = "export" /\ exported' \in {exported, exported \cup {event[c]}}
  /\ call' = [call EXCEPT ![c] = "gone"]
  /\ UNCHANGED <<registry, request, pending, arg, event, logs, faults, crashes, history>>

\* The daemon ends and starts again: the map, the tasks and the BufWriter were in
\* memory.  The file keeps what a log_event that was cut short had written of it.
Crash ==
  /\ faults + crashes < MaxFailures /\ crashes' = crashes + 1
  /\ pending' = {} /\ unflushed' = << >>
  /\ call' = [c \in Call |-> IF call[c] \in {"ring", "attestation", "log", "export"}
                             THEN "gone" ELSE call[c]]
  /\ \/ UNCHANGED audit
     \/ \E c \in {d \in Call : call[d] = "log"} :
          LET text == unflushed \o Text(event[c])
          IN  \E n \in 1..Len(text) : audit' = audit \o SubSeq(text, 1, n)
  /\ UNCHANGED <<registry, request, arg, event, exported, faults, history>>

Next ==
  \/ \E a \in Approver, e \in Entry : Register(a, e)
  \/ \E id \in Id, r \in Request : RequestEscalation(id, r)
  \/ \E c \in Call, id \in Id :
       \/ NotFound(c, id)
       \/ \E a \in Approver : \/ Deny(c, id, a)
                              \/ \E sig \in Signature : Approve(c, id, a, sig)
  \/ \E c \in Call : \/ LookupFails(c) \/ CheckRing(c) \/ CheckAttestation(c)
                     \/ LogEvent(c) \/ Export(c) \/ Cancel(c)
  \/ Crash

Spec == Init /\ [][Next]_vars

\* The registry, the file and the SIEM answer each call, if only with an error.
FairSpec == /\ Spec
            /\ \A c \in Call : WF_vars(LookupFails(c) \/ CheckRing(c)
                                       \/ CheckAttestation(c) \/ LogEvent(c) \/ Export(c))

-------------------------------------------------------------------------------
(* Properties *)

CallOK ==
  /\ call \in [Call -> {"free", "ring", "attestation", "log", "export", "ok", "err", "gone"}]
  /\ arg \in [Call -> Arg \cup {None}] /\ event \in [Call -> Event \cup {None}]
  /\ \A c \in Call : call[c] \in {"ring", "attestation"} => arg[c] # None
  /\ \A c \in Call : call[c] \in {"log", "export", "ok"} => event[c] # None

TypeOK ==
  /\ CallOK
  /\ registry \in [Approver -> Entry \cup {None}]
  /\ request \in [Id -> Request \cup {None}] /\ pending \subseteq Id
  /\ audit \in Seq(Piece(Event)) /\ unflushed \in Seq(Piece(Event))
  /\ decided \in Seq(Event) /\ earlier \in [Call -> SUBSET (Event \cup {None})]
  /\ exported \subseteq Event
  /\ faults \in Nat /\ crashes \in Nat
  /\ registered \in [Approver -> SUBSET Entry]

\* No request is decided twice, whichever approvals and denials of it overlap
\* and whatever fails in them.
OneDecision ==
  \A i, j \in 1..Len(decided) : decided[i].id = decided[j].id => i = j

\* An approval was signed, for this very request, by a key the approver was
\* registered with; the approver was registered in the System ring; and the
\* request was for a more privileged ring.  All of it may have changed while
\* the call waited.
ApprovalAuthorised ==
  \A c \in Call : event[c] # None /\ event[c].outcome = "Approved" =>
    LET e == event[c]
        sig == arg[c].sig
    IN  /\ request[e.id].to < request[e.id].from
        /\ sig.payload = "approval_payload" /\ sig.id = e.id
        /\ \E old \in registered[e.approver] : old.ring = System
        /\ \E old \in registered[e.approver] : old.key = sig.by

\* However log_event fails and the daemon ends, a line of the audit log that
\* parses is a decision, no decision has two lines, and a decision that was
\* answered before another one was made is not logged behind it.  (Calls that
\* overlap may log in another order than they decided in.)
LineOf(e, p) == RecordLine(audit, p) /\ audit[p].rec = e
AuditInOrder ==
  /\ \A p \in 1..Len(audit) : RecordLine(audit, p) => \E c \in Call : event[c] = audit[p].rec
  /\ \A c \in Call : \A p, q \in 1..Len(audit) :
       LineOf(event[c], p) /\ LineOf(event[c], q) => p = q
  /\ \A c \in Call : \A e \in earlier[c] : \A p, q \in 1..Len(audit) :
       LineOf(e, p) /\ LineOf(event[c], q) => p < q

\* A request's way through the manager is that of the ledger: what overlaps,
\* fails, is dropped or crashes can lose it, and never changes its decision or
\* brings it back.
LastDecision(id) ==
  LET made == {i \in 1..Len(decided) : decided[i].id = id}
  IN  decided[CHOOSE i \in made : \A j \in made : j <= i].outcome
StatusOf(id) ==
  IF request[id] = None THEN "unknown"
  ELSE IF \E i \in 1..Len(decided) : decided[i].id = id
    THEN IF LastDecision(id) = "Approved" THEN "approved" ELSE "denied"
  ELSE IF id \in pending \/ \E c \in Call : /\ call[c] \in {"ring", "attestation"}
                                         /\ arg[c].id = id
    THEN "pending" ELSE "dropped"
Ledger == INSTANCE EscalationLedger WITH status <- [id \in Id |-> StatusOf(id)]
RefinesLedger == Ledger!Spec

-------------------------------------------------------------------------------
(* What the documents say of escalation and the code does not keep *)

\* ADR-002: signatures "ensure that only the authorized holder of a System-ring
\* private key can approve".  The ring and the key come from two reads of the
\* registry, and the approver may be registered anew between them.
SystemKeyApproves ==
  \A c \in Call : event[c] # None /\ event[c].outcome = "Approved" =>
    [key |-> arg[c].sig.by, ring |-> System] \in registered[event[c].approver]

\* ADR-002: approval_payload is there "to ensure consistent signature generation
\* and verification across different nodes and CLI versions": an approval that
\* the CLI signs, for the request, with the only key its approver ever had, is
\* not denied for its signature.
HonestApprovalAccepted ==
  \A c \in Call : event[c] # None /\ event[c].cause = "signature" =>
    LET sig == arg[c].sig
    IN  sig.id # event[c].id \/ \E old \in registered[event[c].approver] : old.key # sig.by

\* ADR-001: the manager "flushes the log buffer after every write to ensure that
\* no audit record is lost in a crash": a decision that was answered is on disk, in a
\* line of its own.
AnsweredIsAudited ==
  \A c \in Call : call[c] = "ok" => \E p \in 1..Len(audit) : LineOf(event[c], p)

\* ADR-007: "Implement an in-memory retry buffer with exponential backoff": a
\* decision reaches the SIEM even if an export fails once.
EveryDecisionExported ==
  \A c \in Call :
    call[c] = "export" ~> (event[c] \in exported \/ call[c] = "gone")
===============================================================================
