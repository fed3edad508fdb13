------------------------- MODULE ExecuteActionProofs -------------------------
(***************************************************************************)
(* ReadIsolated, DenialExplained and AnswerLogged for any number of        *)
(* requests, agents, faults and crashes, and any window.                   *)
(*                                                                         *)
(* What a request has read from the log stays there, so its history is     *)
(* made of records of the log and misses none that was there when it began *)
(* (HistorySound).  As time passes fewer writes are recent: what is        *)
(* violated at the decision was violated when the answer was evaluated.    *)
(* From the decision on the record of a request is as isolated as it will  *)
(* be in the log (Decided).  Hence the log is isolated as SOX-001 says     *)
(* from an agent that makes one request after the other (SequentialReads). *)
(***************************************************************************)
EXTENDS ExecuteAction, SequenceTheorems, TLAPS

Underway == {"history", "evaluate", "decide", "stamp", "append", "export"}

\* Record j of the log is a write of agent d that was recent at time t.
RecentWriteAt(j, d, t) == /\ log[j].did = d /\ log[j].action = "write" /\ log[j].permitted
                          /\ log[j].time + Window > t

HistorySound(c) ==
  /\ \A r \in history[c] : /\ r.did = did[c] /\ r.permitted
                           /\ \E j \in 1..Len(log) : log[j] = r
  /\ \A j \in 1..earlier[c] : log[j].did = did[c] /\ log[j].permitted => log[j] \in history[c]

Decided(c) ==
  /\ record[c] # None
  /\ record[c].call = c /\ record[c].did = did[c] /\ record[c].action = action[c]
  /\ ~ record[c].permitted => record[c].cause \in results[c]
  /\ record[c].action = "read" =>
       IF record[c].permitted
       THEN \A j \in 1..earlier[c] : ~ RecentWriteAt(j, did[c], decidedAt[c])
       ELSE \E j \in 1..Len(log) : RecentWriteAt(j, did[c], decidedAt[c])

CallOK(c) ==
  /\ call[c] \in Underway => did[c] \in Did /\ action[c] \in Action
  /\ call[c] \in {"evaluate", "decide"} => HistorySound(c)
  /\ call[c] = "decide" => Violated(c) \subseteq results[c]
  /\ call[c] \in {"stamp", "append", "export"} => Decided(c)
  /\ call[c] \in {"export", "ok"} => \E i \in 1..Len(log) : log[i].call = c /\ log[i] = record[c]

CallInv == \A c \in Call : CallOK(c)

\* Where nothing of a request changes any more, but for its answer.
Logs == {"export", "ok", "err", "gone"}

\* A request is logged once.
LogInv ==
  \A i \in 1..Len(log) :
    LET c == log[i].call
    IN  /\ log[i] = record[c] /\ log[i].did = did[c] /\ call[c] \in Logs
        /\ \A j \in 1..Len(log) : log[j].call = c => i = j

-------------------------------------------------------------------------------
(* Types *)

LEMMA RecordOfLog == ASSUME TypeOK, NEW i \in 1..Len(log) PROVE log[i] \in Record
<1>1. log \in Seq(Record)
  BY DEF TypeOK
<1> QED BY <1>1, ElementOfSeq

LEMMA HistoryType == ASSUME TypeOK, NEW d PROVE History(d) \in SUBSET Record
BY RecordOfLog DEF History

LEMMA AppendType ==
  ASSUME TypeOK, NEW c \in Call, call[c] = "append", log' = Append(log, record[c])
  PROVE  /\ record[c] \in Record /\ log' \in Seq(Record) /\ Len(log') = Len(log) + 1
         /\ log'[Len(log) + 1] = record[c] /\ \A j \in 1..Len(log) : log'[j] = log[j]
<1>1. record[c] \in Record /\ log \in Seq(Record)
  BY DEF TypeOK
<1> QED BY <1>1

\* A record that is made, or gets its timestamp, is a record.
LEMMA DecideType ==
  ASSUME TypeOK, CallInv, NEW c \in Call, Decide(c)
  PROVE  record' \in [Call -> Record \cup {None}] /\ record'[c] \in Record
<1>1. did[c] \in Did /\ action[c] \in Action /\ results[c] \subseteq Rule /\ now \in Time
  BY DEF TypeOK, CallInv, CallOK, Underway, Decide, At
<1>2. record'[c] \in Record
  BY <1>1 DEF TypeOK, Decide, Record, FirstViolation, Rule
<1> QED BY <1>2 DEF TypeOK, Decide

LEMMA StampType ==
  ASSUME TypeOK, NEW c \in Call, Stamp(c)
  PROVE  /\ record' \in [Call -> Record \cup {None}] /\ record'[c] \in Record
         /\ record'[c] = [record[c] EXCEPT !.time = now]
<1>1. record[c] \in Record /\ now \in Time
  BY DEF TypeOK, Stamp, At
<1>2. record'[c] = [record[c] EXCEPT !.time = now]
  BY DEF TypeOK, Stamp
<1>3. record'[c] \in Record
  BY <1>1, <1>2 DEF Record
<1> QED BY <1>2, <1>3 DEF TypeOK, Stamp

Stages == {"free", "history", "evaluate", "decide", "stamp", "append",
           "export", "ok", "err", "gone"}

LEMMA TypeCorrect == TypeOK /\ CallInv /\ [Next]_vars => TypeOK'
<1> SUFFICES ASSUME TypeOK, CallInv, [Next]_vars PROVE TypeOK'
  OBVIOUS
<1> USE ExecuteAssumption, NoneAssumption DEF At, Fault, answers, Time
<1>0. /\ log \in Seq(Record) /\ Len(log) \in Nat /\ earlier \in [Call -> 0..Len(log)]
      /\ now \in Time /\ call \in [Call -> Stages]
  BY DEF TypeOK, Stages
<1>1. ASSUME NEW c \in Call, NEW d \in Did, NEW a \in Action, Begin(c, d, a) PROVE TypeOK'
  BY <1>0, <1>1 DEF TypeOK, Begin
<1>2. ASSUME NEW c \in Call, LoadHistory(c) PROVE TypeOK'
  <2>1. History(did[c]) \in SUBSET Record
    BY HistoryType
  <2> QED BY <2>1, <1>2 DEF TypeOK, LoadHistory
<1>3. ASSUME NEW c \in Call, HistoryFails(c) PROVE TypeOK'
  BY <1>3 DEF TypeOK, HistoryFails
<1>4. ASSUME NEW c \in Call, Evaluate(c) PROVE TypeOK'
  BY <1>4 DEF TypeOK, Evaluate, Violated
<1>5. ASSUME NEW c \in Call, Decide(c) PROVE TypeOK'
  <2>1. record' \in [Call -> Record \cup {None}] /\ record'[c] \in Record
    BY <1>5, DecideType
  <2>2. \A e \in Call \ {c} : record'[e] = record[e] /\ call'[e] = call[e]
    BY <1>5 DEF TypeOK, Decide
  <2>3. call' \in [Call -> Stages] /\ decidedAt' \in [Call -> Time]
    BY <1>0, <1>5 DEF TypeOK, Decide, Stages
  <2>4. UNCHANGED <<log, torn, now, did, action, history, results, earlier, faults, crashes>>
    BY <1>5 DEF Decide
  <2> QED BY <2>1, <2>2, <2>3, <2>4 DEF TypeOK, Stages
<1>6. ASSUME NEW c \in Call, Stamp(c) PROVE TypeOK'
  <2>1. record' \in [Call -> Record \cup {None}] /\ record'[c] \in Record
    BY <1>6, StampType
  <2>2. \A e \in Call \ {c} : record'[e] = record[e] /\ call'[e] = call[e]
    BY <1>6 DEF TypeOK, Stamp
  <2>3. call' \in [Call -> Stages]
    BY <1>0, <1>6 DEF TypeOK, Stamp, Stages
  <2>4. UNCHANGED <<log, torn, now, did, action, history, results, earlier, decidedAt, faults, crashes>>
    BY <1>6 DEF Stamp
  <2> QED BY <2>1, <2>2, <2>3, <2>4 DEF TypeOK, Stages
<1>7. ASSUME NEW c \in Call, AppendRecord(c) PROVE TypeOK'
  <2>1. log' \in Seq(Record) /\ Len(log') = Len(log) + 1
    BY <1>7, AppendType DEF AppendRecord
  <2>2. earlier \in [Call -> 0..Len(log')]
    BY <1>0, <2>1
  <2> QED BY <1>7, <2>1, <2>2 DEF TypeOK, AppendRecord
<1>8. ASSUME NEW c \in Call, AppendFails(c) PROVE TypeOK'
  <2>1. log' \in Seq(Record) /\ earlier \in [Call -> 0..Len(log')]
    <3>1. CASE log' = Append(log, record[c])
      <4>1. log' \in Seq(Record) /\ Len(log') = Len(log) + 1
        BY <1>8, <3>1, AppendType DEF AppendFails
      <4> QED BY <1>0, <4>1
    <3> QED BY <1>0, <1>8, <3>1 DEF AppendFails
  <2>2. torn' \in BOOLEAN
    BY <1>8 DEF AppendFails, TypeOK
  <2> QED BY <1>8, <2>1, <2>2 DEF TypeOK, AppendFails
<1>9. ASSUME NEW c \in Call, Answer(c) \/ Cancel(c) PROVE TypeOK'
  BY <1>9 DEF TypeOK, Answer, Cancel
<1>10. CASE Crash
  <2>1. log' \in Seq(Record) /\ earlier \in [Call -> 0..Len(log')] /\ torn' \in BOOLEAN
    <3>1. CASE UNCHANGED <<log, torn>>
      BY <1>0, <3>1 DEF TypeOK
    <3>2. ASSUME NEW c \in Call, call[c] = "append", log' = Append(log, record[c]), UNCHANGED torn
          PROVE  log' \in Seq(Record) /\ earlier \in [Call -> 0..Len(log')] /\ torn' \in BOOLEAN
      <4>1. log' \in Seq(Record) /\ Len(log') = Len(log) + 1
        BY <3>2, AppendType
      <4> QED BY <1>0, <3>2, <4>1 DEF TypeOK
    <3>3. CASE torn' = TRUE /\ UNCHANGED log
      BY <1>0, <3>3
    <3> QED BY <1>10, <3>1, <3>2, <3>3 DEF Crash
  <2>2. call' \in [Call -> Stages] /\ \A c \in Call : call'[c] \in {call[c], "gone"}
    BY <1>0, <1>10 DEF Crash, Stages
  <2>3. crashes' \in 0..MaxCrashes
    BY <1>10 DEF Crash, TypeOK
  <2> QED BY <1>10, <2>1, <2>2, <2>3 DEF TypeOK, Crash, Stages
<1>11. CASE Tick
  BY <1>11 DEF TypeOK, Tick
<1>12. CASE UNCHANGED vars
  BY <1>12 DEF TypeOK, vars
<1> QED BY <1>1, <1>2, <1>3, <1>4, <1>5, <1>6, <1>7, <1>8, <1>9, <1>10, <1>11, <1>12 DEF Next

-------------------------------------------------------------------------------
(* What a request has read stays in the log *)

Grows == /\ Len(log) \in Nat /\ Len(log') \in Nat /\ Len(log) <= Len(log')
         /\ \A j \in 1..Len(log) : log'[j] = log[j]

LEMMA LogGrows == ASSUME TypeOK, [Next]_vars PROVE Grows
<1>1. log \in Seq(Record)
  BY DEF TypeOK
<1>2. CASE log' = log
  BY <1>1, <1>2 DEF Grows
<1>3. ASSUME NEW c \in Call, call[c] = "append", log' = Append(log, record[c]) PROVE Grows
  <2>1. Len(log') = Len(log) + 1 /\ \A j \in 1..Len(log) : log'[j] = log[j]
    BY <1>3, AppendType
  <2> QED BY <1>1, <2>1 DEF Grows
<1> QED BY <1>2, <1>3 DEF Next, vars, Begin, LoadHistory, HistoryFails, Evaluate, Decide, Stamp,
           AppendRecord, AppendFails, Answer, Cancel, Crash, Tick, At

\* No time passes in a step of a request.
LEMMA NowGrows == ASSUME TypeOK, [Next]_vars PROVE now' \in Nat /\ now \in Nat /\ now <= now'
<1>1. now \in Nat
  BY ExecuteAssumption DEF TypeOK, Time
<1>2. now' = now \/ now' = now + 1
  BY DEF Next, vars, Begin, LoadHistory, HistoryFails, Evaluate, Decide, Stamp,
         AppendRecord, AppendFails, Answer, Cancel, Crash, Tick
<1> QED BY <1>1, <1>2

\* As time passes writes stop being recent, and none becomes it.
LEMMA ViolatedShrinks ==
  ASSUME TypeOK, NEW c \in Call, history'[c] = history[c], action'[c] = action[c],
         now \in Nat, now' \in Nat, now <= now'
  PROVE  Violated(c)' \subseteq Violated(c)
<1>1. ASSUME NEW r \in history[c], r.time + Window > now' PROVE r.time + Window > now
  <2>1. r \in Record
    BY DEF TypeOK
  <2>2. r.time \in Nat /\ Window \in Nat
    BY <2>1, ExecuteAssumption DEF Record, Time
  <2> QED BY <1>1, <2>2
<1> QED BY <1>1 DEF Violated, RecentWrite

\* A request of which nothing changes, or which ends, stays as it has to be.
LEMMA KeepCall ==
  ASSUME TypeOK, CallInv, [Next]_vars, NEW c \in Call,
         did'[c] = did[c], action'[c] = action[c], history'[c] = history[c],
         results'[c] = results[c], record'[c] = record[c], earlier'[c] = earlier[c],
         decidedAt'[c] = decidedAt[c],
         \/ call'[c] \in {call[c], "err", "gone"}
         \/ call[c] = "export" /\ call'[c] = "ok"
  PROVE  CallOK(c)'
<1>1. Grows /\ now' \in Nat /\ now \in Nat /\ now <= now'
  BY LogGrows, NowGrows
<1>2. earlier[c] \in 0..Len(log)
  BY DEF TypeOK
<1>3. \A j \in 1..earlier[c] : j \in 1..Len(log) /\ j \in 1..Len(log') /\ log'[j] = log[j]
  BY <1>1, <1>2 DEF Grows
<1>4. \A j \in 1..Len(log) : j \in 1..Len(log') /\ log'[j] = log[j]
  BY <1>1 DEF Grows
<1>5. HistorySound(c) => HistorySound(c)'
  BY <1>3, <1>4 DEF HistorySound
<1>6. Decided(c) => Decided(c)'
  BY <1>3, <1>4 DEF Decided, RecentWriteAt
<1>7. Violated(c)' \subseteq Violated(c)
  BY <1>1, ViolatedShrinks
<1>8. CallOK(c)
  BY DEF CallInv
<1> QED BY <1>4, <1>5, <1>6, <1>7, <1>8 DEF CallOK, Underway

\* What load_history returns is sound.
LEMMA HistoryLoaded ==
  ASSUME TypeOK, CallInv, NEW c \in Call, LoadHistory(c)
  PROVE  HistorySound(c)'
<1>1. /\ history'[c] = History(did[c]) /\ log' = log /\ did' = did /\ earlier' = earlier
  BY DEF LoadHistory, TypeOK
<1>2. \A r \in History(did[c]) : /\ r.did = did[c] /\ r.permitted
                                 /\ \E j \in 1..Len(log) : log[j] = r
  BY DEF History
<1>3. \A j \in 1..Len(log) : log[j].did = did[c] /\ log[j].permitted => log[j] \in History(did[c])
  BY DEF History
<1>4. earlier[c] \in 0..Len(log) /\ Len(log) \in Nat
  BY DEF TypeOK
<1> QED BY <1>1, <1>2, <1>3, <1>4 DEF HistorySound

\* The decision is as isolated as the history it is taken by.
LEMMA DecisionIsolated ==
  ASSUME TypeOK, CallInv, NEW c \in Call, Decide(c)
  PROVE  Decided(c)'
<1>1. HistorySound(c) /\ Violated(c) \subseteq results[c] /\ call[c] = "decide"
  BY DEF CallInv, CallOK, Decide, At
<1>2. record'[c] = [call |-> c, did |-> did[c], action |-> action[c],
                    permitted |-> Violated(c) = {},
                    cause |-> IF Violated(c) = {} THEN None ELSE FirstViolation(c),
                    time |-> now]
      /\ decidedAt'[c] = now
  BY DEF TypeOK, Decide
<1>3. UNCHANGED <<log, did, action, history, results, earlier>>
  BY DEF Decide
<1>4. record'[c] # None
  BY DecideType, NoneAssumption
<1>5. Violated(c) # {} => FirstViolation(c) \in results[c]
  BY <1>1 DEF Violated, FirstViolation, Rule
<1>6. ASSUME action[c] = "read", Violated(c) = {}, NEW j \in 1..earlier[c]
      PROVE  ~ RecentWriteAt(j, did[c], now)
  BY <1>1, <1>6 DEF HistorySound, Violated, RecentWrite, Rule, RecentWriteAt
<1>7. ASSUME action[c] = "read", Violated(c) # {}
      PROVE  \E j \in 1..Len(log) : RecentWriteAt(j, did[c], now)
  <2>1. RecentWrite(history[c])
    BY <1>7 DEF Violated
  <2> QED BY <1>1, <2>1 DEF HistorySound, RecentWrite, RecentWriteAt
<1>8. /\ record'[c].call = c /\ record'[c].did = did[c] /\ record'[c].action = action[c]
      /\ record'[c].permitted = (Violated(c) = {})
      /\ record'[c].cause = IF Violated(c) = {} THEN None ELSE FirstViolation(c)
  BY <1>2
<1> HIDE DEF Violated, FirstViolation
<1> QED BY <1>2, <1>3, <1>4, <1>5, <1>6, <1>7, <1>8 DEF Decided, RecentWriteAt

LEMMA CallStep == TypeOK /\ CallInv /\ [Next]_vars => CallInv'
<1> SUFFICES ASSUME TypeOK, CallInv, [Next]_vars, NEW e \in Call PROVE CallOK(e)'
  BY DEF CallInv
<1> USE DEF answers
<1>0. CallOK(e) /\ call \in [Call -> Stages] /\ e \in DOMAIN call
  BY DEF CallInv, TypeOK, Stages
<1>1. ASSUME NEW c \in Call, NEW d \in Did, NEW a \in Action, Begin(c, d, a) PROVE CallOK(e)'
  <2>1. CASE e = c
    <3>1. call'[c] = "history" /\ did'[c] = d /\ action'[c] = a
      BY <1>1 DEF Begin, At, TypeOK
    <3> QED BY <2>1, <3>1 DEF CallOK
  <2>2. CASE e # c
    <3>1. /\ did'[e] = did[e] /\ action'[e] = action[e] /\ earlier'[e] = earlier[e]
          /\ call'[e] = call[e] /\ UNCHANGED <<history, results, record, decidedAt>>
      BY <1>1, <2>2 DEF Begin, At, TypeOK
    <3> QED BY <3>1, KeepCall
  <2> QED BY <2>1, <2>2
<1>2. ASSUME NEW c \in Call, LoadHistory(c) PROVE CallOK(e)'
  <2>1. CASE e = c
    <3>1. call[c] = "history" /\ call'[c] = "evaluate" /\ UNCHANGED <<did, action>>
      BY <1>2 DEF LoadHistory, At, TypeOK
    <3>2. HistorySound(c)'
      BY <1>2, HistoryLoaded
    <3> QED BY <1>0, <2>1, <3>1, <3>2 DEF CallOK, Underway
  <2>2. CASE e # c
    <3>1. /\ history'[e] = history[e] /\ call'[e] = call[e]
          /\ UNCHANGED <<did, action, results, record, earlier, decidedAt>>
      BY <1>2, <2>2 DEF LoadHistory, At, TypeOK
    <3> QED BY <3>1, KeepCall
  <2> QED BY <2>1, <2>2
<1>3. ASSUME NEW c \in Call, Evaluate(c) PROVE CallOK(e)'
  <2>1. CASE e = c
    <3>1. /\ call[c] = "evaluate" /\ call'[c] = "decide" /\ results'[c] = Violated(c)
          /\ UNCHANGED <<log, now, did, action, history, earlier>>
      BY <1>3 DEF Evaluate, At, TypeOK
    <3>2. HistorySound(c)' /\ Violated(c)' = Violated(c)
      BY <1>0, <2>1, <3>1 DEF CallOK, HistorySound, Violated, RecentWrite
    <3> QED BY <1>0, <2>1, <3>1, <3>2 DEF CallOK, Underway
  <2>2. CASE e # c
    <3>1. /\ results'[e] = results[e] /\ call'[e] = call[e]
          /\ UNCHANGED <<did, action, history, record, earlier, decidedAt>>
      BY <1>3, <2>2 DEF Evaluate, At, TypeOK
    <3> QED BY <3>1, KeepCall
  <2> QED BY <2>1, <2>2
<1>4. ASSUME NEW c \in Call, Decide(c) PROVE CallOK(e)'
  <2>1. CASE e = c
    <3>1. call[c] = "decide" /\ call'[c] = "stamp" /\ UNCHANGED <<did, action>>
      BY <1>4 DEF Decide, At, TypeOK
    <3>2. Decided(c)'
      BY <1>4, DecisionIsolated
    <3> QED BY <1>0, <2>1, <3>1, <3>2 DEF CallOK, Underway
  <2>2. CASE e # c
    <3>1. /\ record'[e] = record[e] /\ call'[e] = call[e] /\ decidedAt'[e] = decidedAt[e]
          /\ UNCHANGED <<did, action, history, results, earlier>>
      BY <1>4, <2>2 DEF Decide, At, TypeOK
    <3> QED BY <3>1, KeepCall
  <2> QED BY <2>1, <2>2
<1>5. ASSUME NEW c \in Call, Stamp(c) PROVE CallOK(e)'
  <2>1. CASE e = c
    <3>1. /\ call[c] = "stamp" /\ call'[c] = "append"
          /\ UNCHANGED <<log, did, action, results, earlier, decidedAt>>
      BY <1>5 DEF Stamp, At, TypeOK
    <3>2. /\ record'[c] # None /\ record[c] \in Record
          /\ record'[c] = [record[c] EXCEPT !.time = now]
      BY <1>5, <3>1, StampType, NoneAssumption DEF TypeOK
    <3>3. /\ record'[c].call = record[c].call /\ record'[c].did = record[c].did
          /\ record'[c].action = record[c].action /\ record'[c].permitted = record[c].permitted
          /\ record'[c].cause = record[c].cause
      BY <3>2 DEF Record
    <3>4. Decided(c)'
      BY <1>0, <2>1, <3>1, <3>2, <3>3 DEF CallOK, Decided, RecentWriteAt
    <3> QED BY <1>0, <2>1, <3>1, <3>4 DEF CallOK, Underway
  <2>2. CASE e # c
    <3>1. /\ record'[e] = record[e] /\ call'[e] = call[e]
          /\ UNCHANGED <<did, action, history, results, earlier, decidedAt>>
      BY <1>5, <2>2 DEF Stamp, At, TypeOK
    <3> QED BY <3>1, KeepCall
  <2> QED BY <2>1, <2>2
<1>6. ASSUME NEW c \in Call, AppendRecord(c) PROVE CallOK(e)'
  <2>1. CASE e = c
    <3>1. /\ call[c] = "append" /\ call'[c] = "export"
          /\ UNCHANGED <<did, action, history, results, record, earlier, decidedAt>>
      BY <1>6 DEF AppendRecord, At, TypeOK
    <3>2. Len(log') = Len(log) + 1 /\ log'[Len(log) + 1] = record[c] /\ log \in Seq(Record)
      BY <1>6, <3>1, AppendType DEF AppendRecord, TypeOK
    <3>3. Decided(c)'
      <4>1. Decided(c) /\ Grows /\ earlier[c] \in 0..Len(log)
        BY <1>0, <2>1, <3>1, LogGrows DEF CallOK, TypeOK
      <4>2. \A j \in 1..earlier[c] : j \in 1..Len(log) /\ log'[j] = log[j]
        BY <4>1 DEF Grows
      <4>3. \A j \in 1..Len(log) : j \in 1..Len(log') /\ log'[j] = log[j]
        BY <4>1 DEF Grows
      <4> QED BY <3>1, <4>1, <4>2, <4>3 DEF Decided, RecentWriteAt
    <3>4. record'[c].call = c
      BY <3>3 DEF Decided
    <3>5. Len(log) + 1 \in 1..Len(log')
      BY <3>2
    <3> QED BY <1>0, <2>1, <3>1, <3>2, <3>3, <3>4, <3>5 DEF CallOK, Underway
  <2>2. CASE e # c
    <3>1. /\ call'[e] = call[e]
          /\ UNCHANGED <<did, action, history, results, record, earlier, decidedAt>>
      BY <1>6, <2>2 DEF AppendRecord, At, TypeOK
    <3> QED BY <3>1, KeepCall
  <2> QED BY <2>1, <2>2
<1>7. ASSUME NEW c \in Call, HistoryFails(c) \/ AppendFails(c) \/ Answer(c) \/ Cancel(c)
      PROVE  CallOK(e)'
  <2>1. /\ \/ call'[e] \in {call[e], "err", "gone"}
           \/ call[e] = "export" /\ call'[e] = "ok"
        /\ UNCHANGED <<did, action, history, results, record, earlier, decidedAt>>
    BY <1>7 DEF HistoryFails, AppendFails, Answer, Cancel, At, TypeOK
  <2> QED BY <2>1, KeepCall
<1>8. CASE Crash
  <2>1. /\ call'[e] \in {call[e], "gone"}
        /\ UNCHANGED <<did, action, history, results, record, earlier, decidedAt>>
    BY <1>8 DEF Crash
  <2> QED BY <2>1, KeepCall
<1>9. CASE Tick \/ UNCHANGED vars
  <2>1. UNCHANGED <<call, did, action, history, results, record, earlier, decidedAt>>
    BY <1>9 DEF Tick, vars
  <2> QED BY <2>1, KeepCall
<1> QED BY <1>1, <1>2, <1>3, <1>4, <1>5, <1>6, <1>7, <1>8, <1>9 DEF Next

-------------------------------------------------------------------------------
(* The log *)

\* What of the requests in the log the properties speak of.
LogOK == LogInv /\ ReadIsolated /\ DenialExplained

\* A step that leaves the log alone, and of the requests in it all but their answer.
LEMMA LogKeeps ==
  ASSUME TypeOK, LogOK, log' = log,
         \A c \in Call : call[c] \in Logs =>
           /\ call'[c] \in Logs
           /\ did'[c] = did[c] /\ record'[c] = record[c] /\ results'[c] = results[c]
           /\ earlier'[c] = earlier[c] /\ decidedAt'[c] = decidedAt[c]
  PROVE  LogOK'
<1>1. \A i \in 1..Len(log) : log[i].call \in Call
  BY RecordOfLog DEF Record
<1>2. LogInv'
  BY <1>1 DEF LogOK, LogInv
<1>3. \A i \in 1..Len(log) : call[log[i].call] \in Logs
  BY DEF LogOK, LogInv
<1>4. ReadIsolated'
  BY <1>1, <1>3 DEF LogOK, ReadIsolated, WriteBefore
<1>5. DenialExplained'
  BY <1>1, <1>3 DEF LogOK, DenialExplained
<1> QED BY <1>2, <1>4, <1>5 DEF LogOK

\* What ReadIsolated says of record i of the log.
Isolated(i) ==
  LET d == log[i].call
  IN  IF log[i].permitted
      THEN \A j \in 1..earlier[d] : ~ RecentWriteAt(j, log[i].did, decidedAt[d])
      ELSE \E j \in 1..Len(log) : j < i /\ RecentWriteAt(j, log[i].did, decidedAt[d])

AllIsolated == \A i \in 1..Len(log) : log[i].action = "read" => Isolated(i)

LEMMA IsolatedIs == (ReadIsolated <=> AllIsolated) /\ (ReadIsolated' <=> AllIsolated')
BY DEF ReadIsolated, AllIsolated, Isolated, WriteBefore, RecentWriteAt

\* A record stays isolated where the records it was compared with are.
LEMMA IsolatedStays ==
  ASSUME NEW i, NEW d, log'[i].call = d, UNCHANGED <<earlier, decidedAt>>,
         \A j \in 1..earlier[d] : log'[j] = log[j],
         \A j \in 1..Len(log) : j < i => j \in 1..Len(log') /\ log'[j] = log[j],
         log'[i].permitted =>
           \A j \in 1..earlier[d] : ~ RecentWriteAt(j, log'[i].did, decidedAt[d]),
         ~ log'[i].permitted =>
           \E j \in 1..Len(log) : j < i /\ RecentWriteAt(j, log'[i].did, decidedAt[d])
  PROVE  Isolated(i)'
<1>1. CASE log'[i].permitted
  BY <1>1 DEF Isolated, RecentWriteAt
<1>2. CASE ~ log'[i].permitted
  <2>1. PICK j \in 1..Len(log) : j < i /\ RecentWriteAt(j, log'[i].did, decidedAt[d])
    BY <1>2
  <2> QED BY <1>2, <2>1 DEF Isolated, RecentWriteAt
<1> QED BY <1>1, <1>2

\* A step that appends the record of a request in "append", which ends.
LEMMA LogAppends ==
  ASSUME TypeOK, CallInv, LogOK, NEW c \in Call,
         call[c] = "append", log' = Append(log, record[c]), call'[c] \in Logs,
         \A d \in Call : call[d] \in Logs => call'[d] \in Logs,
         UNCHANGED <<did, record, results, earlier, decidedAt>>
  PROVE  LogOK'
<1> DEFINE n == Len(log) + 1
<1>1. /\ record[c] \in Record /\ Len(log') = n /\ log'[n] = record[c] /\ n \in Nat
      /\ \A j \in 1..Len(log) : log'[j] = log[j]
      /\ Len(log) \in Nat
  BY AppendType DEF TypeOK
<1>2. Decided(c)
  BY DEF CallInv, CallOK
<1>3. \A i \in 1..Len(log) : log[i].call \in Call /\ log[i].call # c
  BY RecordOfLog DEF Record, LogOK, LogInv, Logs
<1>4. \A i \in 1..Len(log') : i \in 1..Len(log) \/ i = n
  BY <1>1
<1>5. record[c].call = c /\ record[c].did = did[c]
  BY <1>2 DEF Decided
<1>6. earlier \in [Call -> 0..Len(log)]
  BY DEF TypeOK
<1> HIDE DEF n
<1>7. ASSUME NEW i \in 1..Len(log')
      PROVE  LET d == log'[i].call
             IN  /\ log'[i] = record[d] /\ log'[i].did = did[d] /\ call'[d] \in Logs
                 /\ \A j \in 1..Len(log') : log'[j].call = d => i = j
  <2>1. CASE i = n
    BY <1>1, <1>3, <1>4, <1>5, <2>1
  <2>2. CASE i \in 1..Len(log)
    <3>1. log'[i] = log[i]
      BY <1>1, <2>2
    <3> QED BY <1>1, <1>3, <1>4, <1>5, <2>2, <3>1 DEF LogOK, LogInv
  <2> QED BY <1>4, <2>1, <2>2
<1>8. LogInv'
  BY <1>7 DEF LogInv
<1>9. ReadIsolated'
  <2> SUFFICES ASSUME NEW i \in 1..Len(log'), log'[i].action = "read"
               PROVE  Isolated(i)'
    BY IsolatedIs DEF AllIsolated
  <2>1. CASE i = n
    <3>1. log'[i] = record[c]
      BY <1>1, <2>1
    <3>2. record[c].permitted => \A j \in 1..earlier[c] : ~ RecentWriteAt(j, did[c], decidedAt[c])
      BY <1>2, <3>1 DEF Decided
    <3>3. ~ record[c].permitted => \E j \in 1..Len(log) : RecentWriteAt(j, did[c], decidedAt[c])
      BY <1>2, <3>1 DEF Decided
    <3>4. \A j \in 1..earlier[c] : log'[j] = log[j]
      BY <1>1, <1>6
    <3>5. \A j \in 1..Len(log) : j < i /\ j \in 1..Len(log') /\ log'[j] = log[j]
      BY <1>1, <2>1 DEF n
    <3> QED BY <1>5, <3>1, <3>2, <3>3, <3>4, <3>5, IsolatedStays
  <2>2. CASE i \in 1..Len(log)
    <3>1. log'[i] = log[i] /\ log[i].call \in Call
      BY <1>1, <1>3, <2>2
    <3>2. \A j \in 1..earlier[log[i].call] : log'[j] = log[j]
      BY <1>1, <1>6, <3>1
    <3>3. \A j \in 1..Len(log) : j \in 1..Len(log') /\ log'[j] = log[j]
      BY <1>1 DEF n
    <3>4. Isolated(i)
      BY <2>2, <3>1, IsolatedIs DEF LogOK, AllIsolated
    <3> QED BY <3>1, <3>2, <3>3, <3>4, IsolatedStays DEF Isolated
  <2> QED BY <1>4, <2>1, <2>2
<1>10. DenialExplained'
  <2> SUFFICES ASSUME NEW i \in 1..Len(log'), ~ log'[i].permitted
               PROVE  log'[i].cause \in results[log'[i].call]
    BY DEF DenialExplained
  <2>1. CASE i = n
    BY <1>1, <1>2, <1>5, <2>1 DEF Decided
  <2>2. CASE i \in 1..Len(log)
    <3>1. log'[i] = log[i]
      BY <1>1, <2>2
    <3> QED BY <2>2, <3>1 DEF LogOK, DenialExplained
  <2> QED BY <1>4, <2>1, <2>2
<1> QED BY <1>8, <1>9, <1>10 DEF LogOK

LEMMA LogStep == TypeOK /\ CallInv /\ LogOK /\ [Next]_vars => LogOK'
<1> SUFFICES ASSUME TypeOK, CallInv, LogOK, [Next]_vars PROVE LogOK'
  OBVIOUS
<1> USE DEF answers, At, Logs
<1>0. call \in [Call -> Stages]
  BY DEF TypeOK, Stages
<1>1. ASSUME NEW c \in Call, NEW d \in Did, NEW a \in Action, Begin(c, d, a) PROVE LogOK'
  BY <1>0, <1>1, LogKeeps DEF Begin, TypeOK
<1>2. ASSUME NEW c \in Call, LoadHistory(c) \/ HistoryFails(c) PROVE LogOK'
  BY <1>0, <1>2, LogKeeps DEF LoadHistory, HistoryFails
<1>3. ASSUME NEW c \in Call, Evaluate(c) PROVE LogOK'
  BY <1>0, <1>3, LogKeeps DEF Evaluate, TypeOK
<1>4. ASSUME NEW c \in Call, Decide(c) PROVE LogOK'
  BY <1>0, <1>4, LogKeeps DEF Decide, TypeOK
<1>5. ASSUME NEW c \in Call, Stamp(c) PROVE LogOK'
  BY <1>0, <1>5, LogKeeps DEF Stamp, TypeOK
<1>6. ASSUME NEW c \in Call, AppendRecord(c) PROVE LogOK'
  BY <1>0, <1>6, LogAppends DEF AppendRecord
<1>7. ASSUME NEW c \in Call, AppendFails(c) PROVE LogOK'
  <2>1. CASE log' = Append(log, record[c])
    BY <1>0, <1>7, <2>1, LogAppends DEF AppendFails
  <2>2. CASE log' = log
    BY <1>0, <1>7, <2>2, LogKeeps DEF AppendFails
  <2> QED BY <1>7, <2>1, <2>2 DEF AppendFails
<1>8. ASSUME NEW c \in Call, Answer(c) \/ Cancel(c) PROVE LogOK'
  BY <1>0, <1>8, LogKeeps DEF Answer, Cancel
<1>9. CASE Crash
  <2>1. /\ \A c \in Call : call[c] \in Logs => call'[c] \in Logs
        /\ \A c \in Call : call[c] = "append" => call'[c] \in Logs
        /\ UNCHANGED <<did, record, results, earlier, decidedAt>>
    BY <1>9 DEF Crash
  <2>2. CASE log' = log
    BY <2>1, <2>2, LogKeeps
  <2>3. ASSUME NEW c \in Call, call[c] = "append", log' = Append(log, record[c]) PROVE LogOK'
    BY <2>1, <2>3, LogAppends
  <2> QED BY <1>9, <2>2, <2>3 DEF Crash
<1>10. CASE Tick \/ UNCHANGED vars
  BY <1>10, LogKeeps DEF Tick, vars
<1> QED BY <1>1, <1>2, <1>3, <1>4, <1>5, <1>6, <1>7, <1>8, <1>9, <1>10 DEF Next

-------------------------------------------------------------------------------
(* The theorems *)

Inv == TypeOK /\ CallInv /\ LogOK

LEMMA Initially == Init => Inv
<1> SUFFICES ASSUME Init PROVE Inv
  OBVIOUS
<1>1. log = << >> /\ Len(log) = 0 /\ \A i \in 1..Len(log) : FALSE
  BY DEF Init
<1>2. LogOK
  BY <1>1 DEF LogOK, LogInv, ReadIsolated, DenialExplained
<1>3. CallInv
  BY DEF Init, CallInv, CallOK, Underway
<1>4. TypeOK
  <2>1. log \in Seq(Record) /\ earlier \in [Call -> 0..Len(log)]
    BY <1>1 DEF Init
  <2>2. now \in Time /\ faults \in 0..MaxFaults /\ crashes \in 0..MaxCrashes
        /\ decidedAt \in [Call -> Time]
    BY ExecuteAssumption DEF Init, Time
  <2>3. \A c \in Call : call[c] = "free"
    BY DEF Init
  <2>4. call \in [Call -> Stages]
    BY DEF Init, Stages
  <2> QED BY <2>1, <2>2, <2>3, <2>4 DEF Init, TypeOK, Stages
<1> QED BY <1>2, <1>3, <1>4 DEF Inv

LEMMA Invariant == Spec => []Inv
<1>1. Inv /\ [Next]_vars => Inv'
  BY TypeCorrect, CallStep, LogStep DEF Inv
<1> QED BY Initially, <1>1, PTL DEF Spec

\* Every variable of the handler keeps its type: a request past the decision has
\* a record, and began when the log was no longer than it is.
THEOREM ExecuteTypes == Spec => []TypeOK
BY Invariant, PTL DEF Inv

\* ComplianceEngine and execute_action: a read of the audit log is permitted only
\* if none of the agent's writes that were logged when it began was recent, and is
\* denied only if one was, whatever overlaps, fails or restarts.
THEOREM Isolation == Spec => []ReadIsolated
BY Invariant, PTL DEF Inv, LogOK

\* execute_action's two evaluations: a denial names a violation of the answer.
THEOREM Explained == Spec => []DenialExplained
BY Invariant, PTL DEF Inv, LogOK

\* execute_action and FileActionLog::append: an answer is backed by the one record
\* of its request.
THEOREM Logged == Spec => []AnswerLogged
<1>1. ASSUME CallInv, LogOK PROVE AnswerLogged
  <2>1. ASSUME NEW c \in Call, call[c] = "ok"
        PROVE  \E i \in 1..Len(log) : log[i].call = c /\ log[i] = record[c]
    BY <1>1, <2>1 DEF CallInv, CallOK
  <2>2. \A i, j \in 1..Len(log) : log[i].call = log[j].call => i = j
    BY <1>1 DEF LogOK, LogInv
  <2> QED BY <2>1, <2>2 DEF AnswerLogged
<1> QED BY <1>1, Invariant, PTL DEF Inv

\* SOX-001's message, "audit log read denied", is kept towards an agent that makes its
\* requests one at a time: while each request was begun after the agent's earlier
\* records were in the log, no permitted read follows a recent write.
THEOREM SequentialReads ==
  Spec => []((\A i \in 1..Len(log) : \A j \in 1..(i - 1) :
                log[j].did = log[i].did => j <= earlier[log[i].call])
               => NoReadAfterWrite)
<1>1. ASSUME TypeOK, ReadIsolated,
             \A i \in 1..Len(log) : \A j \in 1..(i - 1) :
               log[j].did = log[i].did => j <= earlier[log[i].call]
      PROVE  NoReadAfterWrite
  <2> SUFFICES ASSUME NEW i \in 1..Len(log), PermittedRead(i),
                      NEW j \in 1..(i - 1), WriteBefore(j, i)
               PROVE  log[j].time + Window <= decidedAt[log[i].call]
    BY DEF NoReadAfterWrite
  <2> DEFINE c == log[i].call
  <2>1. /\ c \in Call /\ earlier[c] \in Nat /\ decidedAt[c] \in Nat
        /\ log[j].time \in Nat /\ Window \in Nat /\ j \in Nat
    <3>1. j \in 1..Len(log)
      BY <1>1 DEF TypeOK
    <3>2. log[i] \in Record /\ log[j] \in Record
      BY <1>1, <3>1, RecordOfLog
    <3>3. c \in Call /\ log[j].time \in Nat
      BY <3>2 DEF Record, Time
    <3>4. earlier[c] \in Nat /\ decidedAt[c] \in Nat
      BY <1>1, <3>3 DEF TypeOK, Time
    <3> QED BY <3>3, <3>4, ExecuteAssumption
  <2>2. j \in 1..earlier[c]
    BY <1>1, <2>1 DEF WriteBefore
  <2>3. ~ (WriteBefore(j, i) /\ log[j].time + Window > decidedAt[c])
    BY <1>1, <2>2 DEF ReadIsolated, PermittedRead
  <2> QED BY <2>1, <2>3
<1> QED BY <1>1, ExecuteTypes, Isolation, PTL
==============================================================================
