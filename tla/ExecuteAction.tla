---------------------------- MODULE ExecuteAction ----------------------------
(***************************************************************************)
(* POST /v1/execute: the daemon decides by its compliance rules whether an *)
(* agent may act, and writes the decision to the action log, from which    *)
(* later decisions take the agent's history.                               *)
(*                                                                         *)
(* Handlers run in parallel and share only the log.  The rules tell three  *)
(* requests apart: a "write" to financial records or to the audit log, a   *)
(* "read" of the audit log, and an "export" of personal data outside the   *)
(* US, which no agent may do because none is given any capability.  Time   *)
(* passes in ticks between any two steps.                                  *)
(***************************************************************************)
EXTENDS Naturals, Sequences

CONSTANTS Call,       \* requests; each is made once
          Did,
          Window,     \* isolation_window
          MaxTime, MaxFaults, MaxCrashes,
          None

ASSUME ExecuteAssumption == /\ Window \in Nat \ {0} /\ MaxTime \in Nat
                            /\ MaxFaults \in Nat /\ MaxCrashes \in Nat

Action == {"write", "read", "export"}
Rule == {"GDPR-001", "SOX-001"}
Time == 0..MaxTime
Record == [call : Call, did : Did, action : Action, permitted : BOOLEAN,
           cause : Rule \cup {"Unknown", None}, time : Time]

ASSUME NoneAssumption == None \notin Did /\ None \notin Record

VARIABLES
  log,      \* the records of the action log
  torn,     \* a line of it does not parse
  now,
  call,     \* call -> where it is
  did, action,
  history,  \* call -> the records load_history gave it
  results,  \* call -> the rules evaluate found violated
  record,   \* call -> the record it makes, or None
  faults, crashes,
  \* History, to state the properties:
  earlier,    \* call -> how many records the log had when it began
  decidedAt   \* call -> when is_compliant looked at the time

answers == <<did, action, history, results, record, earlier, decidedAt>>
vars == <<log, torn, now, call, answers, faults, crashes>>

Init == /\ log = << >> /\ torn = FALSE /\ now = 0
        /\ call = [c \in Call |-> "free"]
        /\ did = [c \in Call |-> None] /\ action = [c \in Call |-> None]
        /\ history = [c \in Call |-> {}] /\ results = [c \in Call |-> {}]
        /\ record = [c \in Call |-> None]
        /\ faults = 0 /\ crashes = 0
        /\ earlier = [c \in Call |-> 0] /\ decidedAt = [c \in Call |-> 0]

Fault == faults < MaxFaults /\ faults' = faults + 1
At(c, from, to) == call[c] = from /\ call' = [call EXCEPT ![c] = to]

\* The request of a registered agent has passed the middleware, and get_ring
\* has answered: no rule looks at the ring.
Begin(c, d, a) ==
  /\ At(c, "free", "history")
  /\ did' = [did EXCEPT ![c] = d] /\ action' = [action EXCEPT ![c] = a]
  /\ earlier' = [earlier EXCEPT ![c] = Len(log)]
  /\ UNCHANGED <<log, torn, now, history, results, record, decidedAt, faults, crashes>>

\* What load_history reads: the agent's permitted actions.
History(d) == {log[i] : i \in {k \in 1..Len(log) : log[k].did = d /\ log[k].permitted}}

LoadHistory(c) ==
  /\ At(c, "history", "evaluate") /\ ~ torn
  /\ history' = [history EXCEPT ![c] = History(did[c])]
  /\ UNCHANGED <<log, torn, now, did, action, results, record, earlier, decidedAt,
                 faults, crashes>>

\* The log cannot be opened or read, or a line of it does not parse: the answer
\* is an error and the request leaves no record.
HistoryFails(c) ==
  /\ At(c, "history", "err")
  /\ (torn /\ UNCHANGED faults) \/ Fault
  /\ UNCHANGED <<log, torn, now, answers, crashes>>

\* SoxAuditImmutabilityRule.  Its cutoff is now - isolation_window.
RecentWrite(h) == \E r \in h : r.action = "write" /\ r.time + Window > now

\* Mutant: the comparison with the cutoff is reversed.
ViolatedOldWrite(c) ==
  {rule \in Rule : \/ rule = "GDPR-001" /\ action[c] = "export"
                   \/ /\ rule = "SOX-001" /\ action[c] = "read"
                      /\ \E r \in history[c] : r.action = "write" /\ r.time + Window <= now}

\* The rules that a request violates, at the time they look.
Violated(c) ==
  {rule \in Rule : \/ rule = "GDPR-001" /\ action[c] = "export"
                   \/ rule = "SOX-001" /\ action[c] = "read" /\ RecentWrite(history[c])}

\* The rules are evaluated for the answer ...
Evaluate(c) ==
  /\ At(c, "evaluate", "decide")
  /\ results' = [results EXCEPT ![c] = Violated(c)]
  /\ UNCHANGED <<log, torn, now, did, action, history, record, earlier, decidedAt,
                 faults, crashes>>

\* Mutant: only the last rule is looked at for a cause.
LastViolation(c) == IF "SOX-001" \in results[c] THEN "SOX-001" ELSE "Unknown"

\* ... and again, by is_compliant, for the decision; the cause of a denial is the
\* first violation of the answer.
FirstViolation(c) == IF "GDPR-001" \in results[c] THEN "GDPR-001"
                     ELSE IF "SOX-001" \in results[c] THEN "SOX-001" ELSE "Unknown"

Decide(c) ==
  /\ At(c, "decide", "stamp")
  /\ record' = [record EXCEPT ![c] =
       [call |-> c, did |-> did[c], action |-> action[c],
        permitted |-> Violated(c) = {},
        cause |-> IF Violated(c) = {} THEN None ELSE FirstViolation(c),
        time |-> now]]
  /\ decidedAt' = [decidedAt EXCEPT ![c] = now]
  /\ UNCHANGED <<log, torn, now, did, action, history, results, earlier, faults, crashes>>

\* The record gets its timestamp.
Stamp(c) ==
  /\ At(c, "stamp", "append")
  /\ record' = [record EXCEPT ![c].time = now]
  /\ UNCHANGED <<log, torn, now, did, action, history, results, earlier, decidedAt,
                 faults, crashes>>

\* FileActionLog::append, once it has the lock.
AppendRecord(c) ==
  /\ At(c, "append", "export")
  /\ log' = Append(log, record[c])
  /\ UNCHANGED <<torn, now, answers, faults, crashes>>

\* Mutant: an error of append is ignored.
AppendFailsSilently(c) ==
  /\ At(c, "append", "export") /\ Fault
  /\ log' \in {log, Append(log, record[c])} /\ torn' \in {torn, TRUE}
  /\ UNCHANGED <<now, answers, crashes>>

\* append returns an error, and so does the handler.  The record may be in the
\* log all the same, when it was the checkpoint that failed, or half of it.
AppendFails(c) ==
  /\ At(c, "append", "err") /\ Fault
  /\ \/ log' = Append(log, record[c]) /\ UNCHANGED torn
     \/ UNCHANGED log /\ torn' \in {torn, TRUE}
  /\ UNCHANGED <<now, answers, crashes>>

\* The SIEM took the record or did not, and the answer is sent: success if the
\* decision was to permit, with the results of the first evaluation.
Answer(c) ==
  /\ At(c, "export", "ok")
  /\ UNCHANGED <<log, torn, now, answers, faults, crashes>>

\* The client goes away and the handler is dropped at its await.
Cancel(c) ==
  /\ At(c, "export", "gone")
  /\ UNCHANGED <<log, torn, now, answers, faults, crashes>>

\* The daemon is killed and started again.  An append it was in may have reached
\* the log, in full or in part.
Crash ==
  /\ crashes < MaxCrashes /\ crashes' = crashes + 1
  /\ call' = [c \in Call |-> IF call[c] \in {"free", "ok", "err"} THEN call[c] ELSE "gone"]
  /\ \/ UNCHANGED <<log, torn>>
     \/ \E c \in Call : /\ call[c] = "append"
                        /\ \/ log' = Append(log, record[c]) /\ UNCHANGED torn
                           \/ torn' = TRUE /\ UNCHANGED log
  /\ UNCHANGED <<now, answers, faults>>

Tick == /\ now < MaxTime /\ now' = now + 1
        /\ UNCHANGED <<log, torn, call, answers, faults, crashes>>

Next == \/ \E c \in Call :
             \/ \E d \in Did, a \in Action : Begin(c, d, a)
             \/ LoadHistory(c) \/ HistoryFails(c) \/ Evaluate(c) \/ Decide(c) \/ Stamp(c)
             \/ AppendRecord(c) \/ AppendFails(c) \/ Answer(c) \/ Cancel(c)
        \/ Crash \/ Tick

Spec == Init /\ [][Next]_vars

-------------------------------------------------------------------------------
(* Properties *)

TypeOK ==
  /\ log \in Seq(Record) /\ torn \in BOOLEAN /\ now \in Time
  /\ call \in [Call -> {"free", "history", "evaluate", "decide", "stamp", "append",
                        "export", "ok", "err", "gone"}]
  /\ did \in [Call -> Did \cup {None}] /\ action \in [Call -> Action \cup {None}]
  /\ history \in [Call -> SUBSET Record] /\ results \in [Call -> SUBSET Rule]
  /\ record \in [Call -> Record \cup {None}]
  /\ \A c \in Call : call[c] \in {"stamp", "append", "export"} => record[c] # None
  /\ faults \in 0..MaxFaults /\ crashes \in 0..MaxCrashes
  /\ earlier \in [Call -> 0..Len(log)] /\ decidedAt \in [Call -> Time]

\* A write to audited data by the agent of record i, permitted and logged.
WriteBefore(j, i) == /\ log[j].did = log[i].did /\ log[j].action = "write"
                     /\ log[j].permitted
PermittedRead(i) == log[i].action = "read" /\ log[i].permitted

\* An agent is permitted to read the audit log only if none of its writes that were
\* logged when the request began was within the window when it was decided, also
\* when requests overlap, appends fail and the daemon restarts; and it is denied
\* the audit log only if it has such a write.
ReadIsolated ==
  \A i \in 1..Len(log) : log[i].action = "read" =>
    LET c == log[i].call
        recent(j) == WriteBefore(j, i) /\ log[j].time + Window > decidedAt[c]
    IN  IF log[i].permitted THEN \A j \in 1..earlier[c] : ~ recent(j)
        ELSE \E j \in 1..Len(log) : j < i /\ recent(j)

\* A denial names a rule, the one the answer reports: although the rules are
\* evaluated twice, the cause is never "Unknown".
DenialExplained ==
  \A i \in 1..Len(log) : ~ log[i].permitted => log[i].cause \in results[log[i].call]

\* An answer is sent only when the log has the record of the request, and a request
\* is logged once at most, whatever became of it.
AnswerLogged ==
  \A c \in Call :
    LET mine == {i \in 1..Len(log) : log[i].call = c}
    IN  /\ \A i, j \in mine : i = j
        /\ call[c] = "ok" => \E i \in mine : log[i] = record[c]

-------------------------------------------------------------------------------
(* What the code says and does not keep *)

\* SOX-001, "Agent has recent write history within window ...; audit log read
\* denied": in the log no permitted read comes after a write of the same agent that
\* was within the window.
NoReadAfterWrite ==
  \A i \in 1..Len(log) : PermittedRead(i) =>
    \A j \in 1..(i - 1) :
      WriteBefore(j, i) => log[j].time + Window <= decidedAt[log[i].call]
===============================================================================
