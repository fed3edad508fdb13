---------------------------- MODULE GatewayProofs ----------------------------
(***************************************************************************)
(* RateLimited, ForwardedAllowed, LogTruthful and UnloggedBounded for any  *)
(* number of calls, agents, policies and faults.                           *)
(*                                                                         *)
(* A call that was admitted is past the limiter, and its time is no later  *)
(* than the last one entered for its agent (Limited).  Where a call stands *)
(* tells whether the upstream server can have received it (Receivable),    *)
(* and whether a record of it is in the log (LogInv).  A step adds at most *)
(* the call it ends to those that are missing in the log, and only if it   *)
(* is a fault (UnloggedStep).                                              *)
(***************************************************************************)
EXTENDS Gateway, SequenceTheorems, FiniteSetTheorems, TLAPS

\* A tool call has an agent from its first step on; another one has none.
Attributed(c) == IF did[c] = None THEN call[c] \in {"free", "relay", "ok", "err", "gone"}
                 ELSE call[c] \notin {"free", "relay"}

Limited(c) == admitted[c] # None => /\ did[c] # None
                                    /\ call[c] \notin {"free", "load", "limit", "limited"}
                                    /\ lastRequests[did[c]] # None
                                    /\ admitted[c] <= lastRequests[did[c]]

\* The agent had a policy that allows the call while it was checked.
Authorised(c) ==
  /\ call[c] \in {"load", "limit", "evaluate"} /\ Allows(policy[did[c]]) => allowed[c]
  /\ call[c] \in {"history", "forward"} => allowed[c]

Receivable(c) == c \in upstream =>
  /\ call[c] \in {"forward", "relay", "ok", "err", "gone"}
  /\ did[c] # None => admitted[c] # None /\ allowed[c]

CallInv == \A c \in Call : Attributed(c) /\ Limited(c) /\ Authorised(c) /\ Receivable(c)

LogInv == \A i \in 1..Len(log) :
  /\ IF log[i].permitted THEN call[log[i].call] = "ok" /\ log[i].call \in upstream
     ELSE call[log[i].call] = "denied"
  /\ did[log[i].call] # None
  /\ \A j \in 1..Len(log) : log[i].call = log[j].call => i = j

IInv == TypeOK /\ CallInv /\ LogInv /\ RateLimited /\ UnloggedBounded

-------------------------------------------------------------------------------
(* Lemmas *)

LEMMA IntervalNat == ASSUME NEW p \in Policy \cup {None} PROVE Interval(p) \in Nat \ {0}
<1>1. CASE p = None
  BY <1>1, GatewayAssumption DEF Interval
<1>2. CASE p # None
  <2>1. p.interval \in 1..Second
    BY <1>2, GatewayAssumption
  <2> QED BY <1>2, <2>1, GatewayAssumption DEF Interval
<1> QED BY <1>1, <1>2

\* Only calls that were answered or denied are in the log.
LEMMA LoggedCalls ==
  ASSUME IInv, NEW c \in Call, call[c] \notin {"ok", "denied"}
  PROVE  \A i \in 1..Len(log) : log[i].call # c /\ log[i].call \in Call
<1> TAKE i \in 1..Len(log)
<1>1. log \in Seq(Record) /\ i \in 1..Len(log)
  BY DEF IInv, TypeOK
<1>2. log[i] \in Record
  BY <1>1, ElementOfSeq
<1>3. call[log[i].call] \in {"ok", "denied"}
  BY DEF IInv, LogInv
<1> QED BY <1>2, <1>3 DEF Record

LEMMA FaultNat == ASSUME TypeOK, Fault PROVE faults' \in 0..MaxFaults /\ faults' = faults + 1
BY GatewayAssumption DEF TypeOK, Fault

\* A step that is no fault adds none to the calls missing in the log, a fault at most one.
LEMMA UnloggedStep ==
  ASSUME UnloggedBounded, faults \in Nat, NEW c,
         Unlogged' \subseteq Unlogged \cup {c}, UNCHANGED faults \/ faults' = faults + 1,
         UNCHANGED faults => Unlogged' \subseteq Unlogged
  PROVE  UnloggedBounded'
<1>1. IsFiniteSet(Unlogged) /\ Cardinality(Unlogged) <= faults /\ Cardinality(Unlogged) \in Nat
  BY FS_CardinalityType DEF UnloggedBounded
<1>2. /\ IsFiniteSet(Unlogged \cup {c})
      /\ Cardinality(Unlogged \cup {c}) \in {Cardinality(Unlogged), Cardinality(Unlogged) + 1}
  BY <1>1, FS_AddElement
<1>3. CASE UNCHANGED faults
  <2>1. IsFiniteSet(Unlogged') /\ Cardinality(Unlogged') <= Cardinality(Unlogged)
    BY <1>1, <1>3, FS_Subset
  <2>2. Cardinality(Unlogged') \in Nat
    BY <2>1, FS_CardinalityType
  <2>3. Cardinality(Unlogged') <= faults'
    BY <1>1, <1>3, <2>1, <2>2
  <2> QED BY <2>1, <2>3 DEF UnloggedBounded
<1>4. CASE faults' = faults + 1
  <2>1. IsFiniteSet(Unlogged') /\ Cardinality(Unlogged') <= Cardinality(Unlogged \cup {c})
    BY <1>2, FS_Subset
  <2>2. Cardinality(Unlogged') \in Nat
    BY <2>1, FS_CardinalityType
  <2>3. Cardinality(Unlogged') <= faults'
    BY <1>1, <1>2, <1>4, <2>1, <2>2
  <2> QED BY <2>1, <2>3 DEF UnloggedBounded
<1> QED BY <1>3, <1>4

\* Steps that leave the log, the calls and what the upstream server received alone.
LEMMA UnloggedSame ==
  ASSUME IInv, UNCHANGED <<log, upstream, faults>>, NEW c \in Call,
         \A d \in Call : d # c => did'[d] = did[d] /\ call'[d] = call[d],
         call'[c] \notin {"ok", "denied", "err"} \/ (did'[c] = did[c] /\ call'[c] = call[c])
  PROVE  UnloggedBounded'
<1>1. Unlogged' \subseteq Unlogged
  BY DEF Unlogged, Logged, IsToolCall
<1>2. UnloggedBounded /\ faults \in Nat
  BY GatewayAssumption DEF IInv, TypeOK
<1> QED BY <1>1, <1>2, UnloggedStep

\* A step that moves c, and perhaps enters faults, but nothing else, keeps the log
\* and the rate limit; what it has to show is where c may stand.
LEMMA MoveInv ==
  ASSUME IInv, NEW c \in Call, UNCHANGED <<stores, now, requests>>,
         NEW s \in {"limit", "limited", "history", "forward", "relay", "ok", "err", "gone"},
         call' = [call EXCEPT ![c] = s],
         UNCHANGED faults \/ Fault,
         call[c] \notin {"ok", "denied"},
         s = "err" /\ did[c] # None /\ c \in upstream => Fault,
         did[c] = None => s \in {"relay", "ok", "err", "gone"},
         did[c] # None => s \notin {"relay", "ok"},
         call[c] = "free" => did[c] = None,
         admitted[c] # None => s \notin {"limit", "limited"},
         s \in {"history", "forward"} => admitted[c] # None /\ allowed[c],
         s = "limit" => call[c] = "load",
         c \in upstream => s \in {"ok", "err", "gone"}
  PROVE  IInv'
<1> USE DEF stores, requests
<1>1. TypeOK'
  <2>1. call' \in [Call -> {"free", "load", "limit", "limited", "evaluate", "history",
                            "forward", "relay", "ok", "denied", "err", "gone"}]
    BY DEF IInv, TypeOK
  <2>2. \A d \in Call : call'[d] = IF d = c THEN s ELSE call[d]
    BY DEF IInv, TypeOK
  <2>3. faults' \in 0..MaxFaults
    BY FaultNat DEF IInv, TypeOK
  <2> QED BY <2>1, <2>2, <2>3 DEF IInv, TypeOK
<1>2. \A d \in Call : call'[d] = IF d = c THEN s ELSE call[d]
  BY DEF IInv, TypeOK
<1>3. CallInv'
  <2> SUFFICES ASSUME NEW d \in Call
               PROVE  (Attributed(d) /\ Limited(d) /\ Authorised(d) /\ Receivable(d))'
    BY DEF CallInv
  <2>0. Attributed(d) /\ Limited(d) /\ Authorised(d) /\ Receivable(d)
    BY DEF IInv, CallInv
  <2>1. Attributed(d)'
    BY <1>2, <2>0 DEF Attributed
  <2>2. Limited(d)'
    BY <1>2, <2>0 DEF Limited
  <2>3. Authorised(d)'
    BY <1>2, <2>0 DEF Authorised, Allows
  <2>4. Receivable(d)'
    BY <1>2, <2>0 DEF Receivable
  <2> QED BY <2>1, <2>2, <2>3, <2>4
<1>4. LogInv'
  <2>1. \A i \in 1..Len(log) : log[i].call # c /\ log[i].call \in Call
    BY LoggedCalls
  <2>2. log' = log /\ upstream' = upstream
    OBVIOUS
  <2> QED BY <1>2, <2>1, <2>2 DEF IInv, LogInv
<1>5. RateLimited'
  BY DEF IInv, RateLimited, Interval
<1>6. UnloggedBounded'
  <2>1. Unlogged' \subseteq Unlogged \cup {c}
    BY <1>2 DEF Unlogged, Logged, IsToolCall
  <2>2. ~ Fault => Unlogged' \subseteq Unlogged
    BY <1>2 DEF Unlogged, Logged, IsToolCall
  <2>3. Fault => faults' = faults + 1
    BY DEF Fault
  <2>4. faults \in Nat
    BY GatewayAssumption DEF IInv, TypeOK
  <2>5. UNCHANGED faults => ~ Fault
    BY <2>4 DEF Fault
  <2> QED BY <2>1, <2>2, <2>3, <2>4, <2>5, UnloggedStep DEF IInv
<1> QED BY <1>1, <1>3, <1>4, <1>5, <1>6 DEF IInv

\* A step that answers or denies the tool call c and logs that, unless the append
\* fails and leaves the record out, keeps the invariant.
LEMMA LogMoveInv ==
  ASSUME IInv, NEW c \in Call, NEW s \in {"ok", "denied"},
         UNCHANGED <<policy, lastRequests, upstream, now, requests>>,
         call' = [call EXCEPT ![c] = s],
         \/ log' = Append(log, [call |-> c, permitted |-> s = "ok"]) /\ UNCHANGED faults
         \/ log' \in {log, Append(log, [call |-> c, permitted |-> s = "ok"])} /\ Fault,
         call[c] = IF s = "ok" THEN "forward" ELSE "evaluate",
         s = "ok" => c \in upstream
  PROVE  IInv'
<1> DEFINE r == [call |-> c, permitted |-> s = "ok"]
<1> USE DEF requests
<1>f. log' \in {log, Append(log, r)} /\ faults' \in 0..MaxFaults
  BY FaultNat DEF IInv, TypeOK
<1>0. /\ log \in Seq(Record) /\ r \in Record /\ did[c] # None
      /\ c \notin upstream \/ s = "ok"
  BY DEF IInv, TypeOK, Record, CallInv, Attributed, Receivable
<1>1. log' \in Seq(Record)
  BY <1>f, <1>0
<1>2. \A d \in Call : call'[d] = IF d = c THEN s ELSE call[d]
  BY DEF IInv, TypeOK
<1>3. TypeOK'
  <2>1. call' \in [Call -> {"free", "load", "limit", "limited", "evaluate", "history",
                            "forward", "relay", "ok", "denied", "err", "gone"}]
    BY DEF IInv, TypeOK
  <2> QED BY <1>f, <1>1, <1>2, <2>1 DEF IInv, TypeOK
<1>4. CallInv'
  <2> SUFFICES ASSUME NEW d \in Call
               PROVE  (Attributed(d) /\ Limited(d) /\ Authorised(d) /\ Receivable(d))'
    BY DEF CallInv
  <2>0. Attributed(d) /\ Limited(d) /\ Authorised(d) /\ Receivable(d)
    BY DEF IInv, CallInv
  <2>1. Attributed(d)'
    BY <1>0, <1>2, <2>0 DEF Attributed
  <2>2. Limited(d)'
    BY <1>2, <2>0 DEF Limited
  <2>3. Authorised(d)'
    BY <1>2, <2>0 DEF Authorised, Allows
  <2>4. Receivable(d)'
    BY <1>0, <1>2, <2>0 DEF Receivable
  <2> QED BY <2>1, <2>2, <2>3, <2>4
<1>5. \A i \in 1..Len(log) : log[i].call # c /\ log[i].call \in Call
  BY LoggedCalls
<1>6. LogInv /\ UnloggedBounded /\ RateLimited
  BY DEF IInv
<1>7. CASE log' = log
  <2>1. LogInv'
    BY <1>2, <1>5, <1>6, <1>7 DEF LogInv
  <2>2. UnloggedBounded'
    <3>1. Fault
      <4>1. Len(Append(log, r)) = Len(log) + 1
        BY <1>0
      <4> QED BY <1>0, <1>7, <4>1
    <3>2. Unlogged' \subseteq Unlogged \cup {c}
      BY <1>2, <1>7 DEF Unlogged, Logged, IsToolCall
    <3>3. faults \in Nat /\ faults' = faults + 1
      BY <3>1, GatewayAssumption DEF Fault, IInv, TypeOK
    <3> QED BY <1>6, <3>2, <3>3, UnloggedStep
  <2> QED BY <1>3, <1>4, <1>6, <2>1, <2>2 DEF IInv, RateLimited, Interval
<1>8. CASE log' = Append(log, r)
  <2>1. /\ Len(log') = Len(log) + 1 /\ Len(log) \in Nat
        /\ \A i \in 1..Len(log) : log'[i] = log[i]
        /\ log'[Len(log) + 1] = r
    BY <1>0, <1>8
  <2>2. LogInv'
    <3> SUFFICES ASSUME NEW i \in 1..(Len(log) + 1), NEW j \in 1..(Len(log) + 1)
                 PROVE  /\ IF log'[i].permitted
                             THEN call'[log'[i].call] = "ok" /\ log'[i].call \in upstream
                             ELSE call'[log'[i].call] = "denied"
                        /\ did[log'[i].call] # None
                        /\ log'[i].call = log'[j].call => i = j
      BY <2>1 DEF LogInv
    <3>1. CASE i \in 1..Len(log) /\ j \in 1..Len(log)
      BY <1>2, <1>5, <1>6, <2>1, <3>1 DEF LogInv
    <3>2. CASE i \in 1..Len(log) /\ j = Len(log) + 1
      BY <1>2, <1>5, <1>6, <2>1, <3>2 DEF LogInv
    <3>3. ASSUME i = Len(log) + 1
          PROVE  /\ IF log'[i].permitted
                      THEN call'[log'[i].call] = "ok" /\ log'[i].call \in upstream
                      ELSE call'[log'[i].call] = "denied"
                 /\ did[log'[i].call] # None
      <4>1. log'[i].permitted = (s = "ok") /\ log'[i].call = c
        BY <2>1, <3>3
      <4>2. call'[c] = s
        BY <1>2
      <4> QED BY <1>0, <4>1, <4>2
    <3>4. CASE i = Len(log) + 1 /\ j \in 1..Len(log)
      <4>1. log'[i].call = c /\ log'[j].call # c
        BY <1>5, <2>1, <3>4
      <4> QED BY <3>3, <3>4, <4>1
    <3>5. CASE i = Len(log) + 1 /\ j = Len(log) + 1
      BY <3>3, <3>5
    <3> QED BY <2>1, <3>1, <3>2, <3>4, <3>5
  <2>3. UnloggedBounded'
    <3>1. Logged(c)'
      <4>1. log'[Len(log) + 1] = [call |-> c, permitted |-> c \in upstream]
        BY <1>0, <2>1
      <4> QED BY <2>1, <4>1 DEF Logged
    <3>2. \A d \in Call : Logged(d) => Logged(d)'
      BY <2>1 DEF Logged
    <3>3. Unlogged' \subseteq Unlogged
      BY <1>2, <3>1, <3>2 DEF Unlogged, IsToolCall
    <3>4. faults \in Nat /\ (UNCHANGED faults \/ faults' = faults + 1)
      BY GatewayAssumption DEF Fault, IInv, TypeOK
    <3> QED BY <1>6, <3>3, <3>4, UnloggedStep
  <2> QED BY <1>3, <1>4, <1>6, <2>2, <2>3 DEF IInv, RateLimited, Interval
<1> QED BY <1>7, <1>8

-------------------------------------------------------------------------------
(* The steps *)

LEMMA InitIInv == Init => IInv
<1> SUFFICES ASSUME Init PROVE IInv
  OBVIOUS
<1> USE DEF Init
<1>1. TypeOK
  BY GatewayAssumption DEF TypeOK, Time
<1>2. CallInv
  BY DEF CallInv, Attributed, Limited, Authorised, Receivable
<1>3. UnloggedBounded
  <2>1. Unlogged = {}
    BY DEF Unlogged
  <2> QED BY <2>1, FS_EmptySet DEF UnloggedBounded
<1> QED BY <1>1, <1>2, <1>3 DEF IInv, LogInv, RateLimited

LEMMA BeginInv == ASSUME IInv, NEW c \in Call, NEW d \in Did, Begin(c, d) PROVE IInv'
<1> USE DEF Begin, At, stores
<1>1. call[c] = "free" /\ c \notin upstream /\ admitted[c] = None /\ d # None
  BY NoneAssumption DEF IInv, TypeOK, CallInv, Limited, Receivable
<1>2. /\ \A e \in Call : call'[e] = IF e = c THEN "load" ELSE call[e]
      /\ \A e \in Call : did'[e] = IF e = c THEN d ELSE did[e]
      /\ \A e \in Call : allowed'[e] = IF e = c THEN Allows(policy[d]) ELSE allowed[e]
  BY DEF IInv, TypeOK
<1>3. TypeOK'
  <2>1. Allows(policy[d]) \in BOOLEAN
    BY GatewayAssumption DEF Allows, IInv, TypeOK
  <2>2. /\ call' \in [Call -> {"free", "load", "limit", "limited", "evaluate", "history",
                               "forward", "relay", "ok", "denied", "err", "gone"}]
        /\ did' \in [Call -> Did \cup {None}] /\ allowed' \in [Call -> BOOLEAN]
    BY <2>1 DEF IInv, TypeOK
  <2> QED BY <1>2, <2>2 DEF IInv, TypeOK
<1>4. CallInv'
  <2> SUFFICES ASSUME NEW e \in Call
               PROVE  (Attributed(e) /\ Limited(e) /\ Authorised(e) /\ Receivable(e))'
    BY DEF CallInv
  <2>0. Attributed(e) /\ Limited(e) /\ Authorised(e) /\ Receivable(e)
    BY DEF IInv, CallInv
  <2>1. Attributed(e)'
    BY <1>1, <1>2, <2>0 DEF Attributed
  <2>2. Limited(e)'
    BY <1>1, <1>2, <2>0 DEF Limited
  <2>3. Authorised(e)'
    <3>1. CASE e # c
      BY <1>2, <2>0, <3>1 DEF Authorised, Allows
    <3>2. CASE e = c
      <4>1. call'[c] = "load" /\ policy'[did'[c]] = policy[d]
        BY <1>2
      <4>2. allowed'[c] = (policy[d] # None /\ policy[d].unknown)
        BY <1>2 DEF Allows
      <4> QED BY <3>2, <4>1, <4>2, Zenon DEF Authorised, Allows
    <3> QED BY <3>1, <3>2
  <2>4. Receivable(e)'
    BY <1>1, <1>2, <2>0 DEF Receivable
  <2> QED BY <2>1, <2>2, <2>3, <2>4
<1>5. LogInv'
  <2>1. \A i \in 1..Len(log) : log[i].call # c /\ log[i].call \in Call
    BY <1>1, LoggedCalls
  <2> QED BY <1>2, <2>1 DEF IInv, LogInv
<1>6. RateLimited'
  BY <1>1, <1>2 DEF IInv, RateLimited, Interval
<1>7. UnloggedBounded'
  BY <1>1, <1>2, UnloggedSame
<1> QED BY <1>3, <1>4, <1>5, <1>6, <1>7 DEF IInv

\* The rate limit is not broken by the call that is let pass now: the calls before it
\* came no later than the time that was entered for the agent.
LEMMA LimitInv == ASSUME IInv, NEW c \in Call, Limit(c) PROVE IInv'
<1>0. call[c] = "limit" /\ did[c] # None /\ admitted[c] = None /\ c \notin upstream
  BY DEF IInv, CallInv, Attributed, Limited, Receivable, Limit, At
<1>1. CASE TooSoon(c)
  <2>1. call' = [call EXCEPT ![c] = "limited"] /\ UNCHANGED <<stores, now, requests, faults>>
    BY <1>1 DEF Limit, At
  <2> QED BY <1>0, <2>1, MoveInv
<1>2. CASE ~ TooSoon(c)
  <2> USE DEF At
  <2>1. /\ call' = [call EXCEPT ![c] = "evaluate"]
        /\ lastRequests' = [lastRequests EXCEPT ![did[c]] = now]
        /\ admitted' = [admitted EXCEPT ![c] = now]
        /\ UNCHANGED <<policy, log, upstream, now, did, loaded, faults, allowed>>
    BY <1>2 DEF Limit
  <2>2. did[c] \in Did /\ now \in Nat /\ now \in Time /\ now # None
    BY <1>0, NoneAssumption, GatewayAssumption DEF IInv, TypeOK, Time
  <2>3. /\ \A e \in Call : call'[e] = IF e = c THEN "evaluate" ELSE call[e]
        /\ \A e \in Call : admitted'[e] = IF e = c THEN now ELSE admitted[e]
        /\ \A e \in Did : lastRequests'[e] = IF e = did[c] THEN now ELSE lastRequests[e]
    BY <2>1, <2>2 DEF IInv, TypeOK
  <2>4. \A e \in Call : e # c /\ did[e] = did[c] /\ admitted[e] # None =>
          admitted[e] \in Nat /\ admitted[e] + Interval(loaded[c]) <= now
    <3> SUFFICES ASSUME NEW e \in Call, did[e] = did[c], admitted[e] # None
                 PROVE  admitted[e] \in Nat /\ admitted[e] + Interval(loaded[c]) <= now
      OBVIOUS
    <3>1. /\ admitted[e] \in Time /\ lastRequests[did[c]] # None
          /\ admitted[e] <= lastRequests[did[c]]
      BY DEF IInv, CallInv, Limited, TypeOK
    <3>2. lastRequests[did[c]] \in Time
      BY <2>2, <3>1 DEF IInv, TypeOK
    <3>3. Interval(loaded[c]) \in Nat
      BY IntervalNat DEF IInv, TypeOK
    <3>4. ~ (now < lastRequests[did[c]] + Interval(loaded[c]))
      BY <1>2, <3>1 DEF TooSoon
    <3> QED BY <2>2, <3>1, <3>2, <3>3, <3>4, GatewayAssumption DEF Time
  <2>5. TypeOK'
    <3>1. /\ call' \in [Call -> {"free", "load", "limit", "limited", "evaluate", "history",
                                 "forward", "relay", "ok", "denied", "err", "gone"}]
          /\ lastRequests' \in [Did -> Time \cup {None}]
          /\ admitted' \in [Call -> Time \cup {None}]
      BY <2>1, <2>2 DEF IInv, TypeOK
    <3> QED BY <2>1, <2>2, <2>3, <3>1 DEF IInv, TypeOK
  <2>6. CallInv'
    <3> SUFFICES ASSUME NEW e \in Call
                 PROVE  (Attributed(e) /\ Limited(e) /\ Authorised(e) /\ Receivable(e))'
      BY DEF CallInv
    <3>0. Attributed(e) /\ Limited(e) /\ Authorised(e) /\ Receivable(e)
      BY DEF IInv, CallInv
    <3>1. Attributed(e)'
      BY <1>0, <2>1, <2>3, <3>0 DEF Attributed
    <3>2. Limited(e)'
      <4>1. CASE e = c
        BY <1>0, <2>1, <2>2, <2>3, <4>1 DEF Limited
      <4>2. CASE e # c /\ admitted[e] # None
        <5>1. did[e] \in Did
          BY <3>0, <4>2 DEF Limited, IInv, TypeOK
        <5>2. CASE did[e] = did[c]
          <6>1. admitted[e] <= now
            <7>1. Interval(loaded[c]) \in Nat
              BY IntervalNat DEF IInv, TypeOK
            <7> QED BY <2>2, <2>4, <4>2, <5>2, <7>1
          <6> QED BY <2>1, <2>2, <2>3, <3>0, <4>2, <5>1, <5>2, <6>1 DEF Limited
        <5>3. CASE did[e] # did[c]
          BY <2>1, <2>3, <3>0, <4>2, <5>1, <5>3 DEF Limited
        <5> QED BY <5>2, <5>3
      <4>3. CASE e # c /\ admitted[e] = None
        BY <2>3, <4>3 DEF Limited
      <4> QED BY <4>1, <4>2, <4>3
    <3>3. Authorised(e)'
      BY <1>0, <2>1, <2>3, <3>0 DEF Authorised, Allows
    <3>4. Receivable(e)'
      BY <1>0, <2>1, <2>3, <3>0 DEF Receivable
    <3> QED BY <3>1, <3>2, <3>3, <3>4
  <2>7. LogInv'
    <3>1. \A i \in 1..Len(log) : log[i].call # c /\ log[i].call \in Call
      BY <1>0, LoggedCalls
    <3> QED BY <2>1, <2>3, <3>1 DEF IInv, LogInv
  <2>8. RateLimited'
    <3> SUFFICES ASSUME NEW e \in Call, NEW f \in Call, e # f, did[e] = did[f],
                        admitted'[e] # None, admitted'[f] # None
                 PROVE  \/ admitted'[e] + Interval(loaded[f]) <= admitted'[f]
                        \/ admitted'[f] + Interval(loaded[e]) <= admitted'[e]
      BY <2>1 DEF RateLimited, Interval
    <3>1. CASE e = c
      BY <2>3, <2>4, <3>1
    <3>2. CASE f = c
      BY <2>3, <2>4, <3>2
    <3>3. CASE e # c /\ f # c
      BY <2>3, <3>3 DEF IInv, RateLimited
    <3> QED BY <3>1, <3>2, <3>3
  <2>9. UnloggedBounded'
    BY <2>1, <2>3, UnloggedSame
  <2> QED BY <2>5, <2>6, <2>7, <2>8, <2>9 DEF IInv
<1> QED BY <1>1, <1>2

\* A call whose policy is loaded has not been let pass.
LEMMA LoadPolicyInv == ASSUME IInv, NEW c \in Call, LoadPolicy(c) PROVE IInv'
<1> USE DEF LoadPolicy, At, stores
<1>1. call[c] = "load" /\ c \notin upstream /\ admitted[c] = None /\ did[c] # None
  BY DEF IInv, CallInv, Attributed, Limited, Receivable
<1>2. /\ \A e \in Call : call'[e] = IF e = c THEN "limit" ELSE call[e]
      /\ \A e \in Call : e # c => loaded'[e] = loaded[e]
  BY DEF IInv, TypeOK
<1>3. TypeOK'
  <2>1. policy[did[c]] \in Policy \cup {None}
    BY <1>1 DEF IInv, TypeOK
  <2>2. /\ call' \in [Call -> {"free", "load", "limit", "limited", "evaluate", "history",
                               "forward", "relay", "ok", "denied", "err", "gone"}]
        /\ loaded' \in [Call -> Policy \cup {None}]
    BY <2>1 DEF IInv, TypeOK
  <2> QED BY <1>2, <2>2 DEF IInv, TypeOK
<1>4. CallInv'
  <2> SUFFICES ASSUME NEW e \in Call
               PROVE  (Attributed(e) /\ Limited(e) /\ Authorised(e) /\ Receivable(e))'
    BY DEF CallInv
  <2>0. Attributed(e) /\ Limited(e) /\ Authorised(e) /\ Receivable(e)
    BY DEF IInv, CallInv
  <2>1. Attributed(e)'
    BY <1>1, <1>2, <2>0 DEF Attributed
  <2>2. Limited(e)'
    BY <1>1, <1>2, <2>0 DEF Limited
  <2>3. Authorised(e)'
    BY <1>1, <1>2, <2>0 DEF Authorised, Allows
  <2>4. Receivable(e)'
    BY <1>1, <1>2, <2>0 DEF Receivable
  <2> QED BY <2>1, <2>2, <2>3, <2>4
<1>5. LogInv'
  <2>1. \A i \in 1..Len(log) : log[i].call # c /\ log[i].call \in Call
    BY <1>1, LoggedCalls
  <2> QED BY <1>2, <2>1 DEF IInv, LogInv
<1>6. RateLimited'
  BY <1>1, <1>2 DEF IInv, RateLimited, Interval
<1>7. UnloggedBounded'
  BY <1>1, <1>2, UnloggedSame
<1> QED BY <1>3, <1>4, <1>5, <1>6, <1>7 DEF IInv

\* Whatever fails, what is not loaded denies.
LEMMA EvaluateInv == ASSUME IInv, NEW c \in Call, Evaluate(c) PROVE IInv'
<1>0. /\ call[c] = "evaluate" /\ did[c] # None /\ c \notin upstream /\ admitted[c] # None
      /\ Allows(policy[did[c]]) => allowed[c]
  BY DEF IInv, TypeOK, CallInv, Attributed, Authorised, Receivable, Evaluate, At
<1>3. UNCHANGED <<policy, lastRequests, upstream, now, requests>>
  BY DEF Evaluate
<1>4. CASE At(c, "evaluate", "history") /\ Allows(policy[did[c]]) /\ UNCHANGED <<log, faults>>
  <2>1. UNCHANGED <<stores, now, requests>> /\ call' = [call EXCEPT ![c] = "history"]
    BY <1>3, <1>4 DEF At, stores
  <2> QED BY <1>0, <1>4, <2>1, MoveInv
<1>5. CASE /\ At(c, "evaluate", "denied")
           /\ \/ LogRecord([call |-> c, permitted |-> FALSE])
              \/ Fault /\ log' = Append(log, [call |-> c, permitted |-> FALSE])
  <2> DEFINE r == [call |-> c, permitted |-> FALSE]
  <2>1. /\ call' = [call EXCEPT ![c] = "denied"]
        /\ \/ log' = Append(log, r) /\ UNCHANGED faults
           \/ Fault /\ log' \in {log, Append(log, r)}
    BY <1>5 DEF At, LogRecord
  <2>2. r = [call |-> c, permitted |-> "denied" = "ok"]
    OBVIOUS
  <2> QED BY <1>0, <1>3, <2>1, <2>2, LogMoveInv
<1> QED BY <1>4, <1>5 DEF Evaluate

LEMMA AnswerInv == ASSUME IInv, NEW c \in Call, Answer(c) PROVE IInv'
<1> DEFINE r == [call |-> c, permitted |-> TRUE]
<1>1. /\ call[c] = "forward" /\ c \in upstream /\ call' = [call EXCEPT ![c] = "ok"]
      /\ UNCHANGED <<policy, lastRequests, upstream, now, requests>>
      /\ \/ log' = Append(log, r) /\ UNCHANGED faults
         \/ Fault /\ log' \in {log, Append(log, r)}
  BY DEF Answer, At, LogRecord
<1>2. r = [call |-> c, permitted |-> "ok" = "ok"]
  OBVIOUS
<1> QED BY <1>1, <1>2, LogMoveInv

LEMMA ReceiveInv == ASSUME IInv, NEW c \in Call, Receive(c) PROVE IInv'
<1> USE DEF Receive, requests
<1>1. TypeOK'
  BY DEF IInv, TypeOK
<1>2. CallInv'
  <2> SUFFICES ASSUME NEW e \in Call
               PROVE  (Attributed(e) /\ Limited(e) /\ Authorised(e) /\ Receivable(e))'
    BY DEF CallInv
  <2>0. Attributed(e) /\ Limited(e) /\ Authorised(e) /\ Receivable(e)
    BY DEF IInv, CallInv
  <2>1. (Attributed(e) /\ Limited(e) /\ Authorised(e))'
    BY <2>0 DEF Attributed, Limited, Authorised, Allows
  <2>2. Receivable(e)'
    BY <2>0 DEF Attributed, Authorised, Receivable, IInv, TypeOK
  <2> QED BY <2>1, <2>2
<1>3. LogInv'
  BY DEF IInv, LogInv
<1>4. RateLimited'
  BY DEF IInv, RateLimited, Interval
<1>5. UnloggedBounded'
  <2>1. \A d \in Call : d # c => Logged(d)' = Logged(d)
    BY DEF Logged
  <2>2. Unlogged' \subseteq Unlogged
    BY <2>1 DEF Unlogged, IsToolCall
  <2>3. UnloggedBounded /\ faults \in Nat
    BY GatewayAssumption DEF IInv, TypeOK
  <2> QED BY <2>2, <2>3, UnloggedStep
<1> QED BY <1>1, <1>2, <1>3, <1>4, <1>5 DEF IInv

\* A policy that allows, saved while a call is checked, authorises the call.
LEMMA SavePolicyInv ==
  ASSUME IInv, NEW d \in Did, NEW p \in Policy \cup {None}, SavePolicy(d, p) PROVE IInv'
<1> USE DEF SavePolicy
<1>1. \A e \in Did : policy'[e] = IF e = d THEN p ELSE policy[e]
  BY DEF IInv, TypeOK
<1>2. \A c \in Call : allowed[c] => allowed'[c]
  OBVIOUS
<1>3. \A c \in Call : did[c] = d /\ call[c] \in {"load", "limit", "evaluate"} /\ Allows(p)
                        => allowed'[c]
  OBVIOUS
<1>4. TypeOK'
  <2>1. policy' \in [Did -> Policy \cup {None}]
    BY DEF IInv, TypeOK
  <2>2. Allows(p) \in BOOLEAN
    BY GatewayAssumption DEF Allows
  <2>3. allowed' \in [Call -> BOOLEAN]
    BY <2>2 DEF IInv, TypeOK
  <2> QED BY <2>1, <2>3 DEF IInv, TypeOK
<1>5. CallInv'
  <2> SUFFICES ASSUME NEW e \in Call
               PROVE  (Attributed(e) /\ Limited(e) /\ Authorised(e) /\ Receivable(e))'
    BY DEF CallInv
  <2>0. Attributed(e) /\ Limited(e) /\ Authorised(e) /\ Receivable(e)
    BY DEF IInv, CallInv
  <2>1. (Attributed(e) /\ Limited(e))'
    BY <2>0 DEF Attributed, Limited
  <2>2. Authorised(e)'
    <3>1. call[e] \in {"history", "forward"} => allowed'[e]
      BY <1>2, <2>0 DEF Authorised
    <3>2. ASSUME call[e] \in {"load", "limit", "evaluate"}, Allows(policy'[did[e]])
          PROVE  allowed'[e]
      <4>1. did[e] \in Did
        BY <2>0, <3>2 DEF Attributed, IInv, TypeOK
      <4>2. CASE did[e] = d
        BY <1>1, <1>3, <3>2, <4>1, <4>2
      <4>3. CASE did[e] # d
        BY <1>1, <1>2, <2>0, <3>2, <4>1, <4>3 DEF Authorised
      <4> QED BY <4>2, <4>3
    <3> QED BY <3>1, <3>2 DEF Authorised
  <2>3. Receivable(e)'
    BY <1>2, <2>0 DEF Receivable
  <2> QED BY <2>1, <2>2, <2>3
<1>6. LogInv' /\ RateLimited' /\ UnloggedBounded'
  BY DEF IInv, LogInv, RateLimited, UnloggedBounded, Unlogged, Logged, Interval, IsToolCall
<1> QED BY <1>4, <1>5, <1>6 DEF IInv

LEMMA TickInv == ASSUME IInv, Tick PROVE IInv'
<1> USE DEF Tick, stores, requests
<1>1. TypeOK'
  BY GatewayAssumption DEF IInv, TypeOK, Time
<1>2. CallInv'
  BY DEF IInv, CallInv, Attributed, Limited, Authorised, Receivable, Allows
<1>3. LogInv' /\ RateLimited' /\ UnloggedBounded'
  BY DEF IInv, LogInv, RateLimited, UnloggedBounded, Unlogged, Logged, Interval, IsToolCall
<1> QED BY <1>1, <1>2, <1>3 DEF IInv

\* The steps that only move a call.
LEMMA MovesInv ==
  ASSUME IInv, NEW c \in Call,
         \/ BeginOther(c) \/ LoadFails(c) \/ Comply(c) \/ HistoryFails(c)
         \/ AnswerOther(c) \/ UpstreamFails(c) \/ Cancel(c)
  PROVE  IInv'
<1>2. /\ did[c] = None => call[c] \in {"free", "relay", "ok", "err", "gone"}
      /\ did[c] # None => call[c] \notin {"free", "relay"}
      /\ admitted[c] # None => call[c] \notin {"free", "load", "limit", "limited"}
      /\ call[c] \in {"evaluate", "history", "forward"} => admitted[c] # None
      /\ call[c] \in {"history", "forward"} => allowed[c]
      /\ c \in upstream => call[c] \in {"forward", "relay", "ok", "err", "gone"}
  BY DEF IInv, TypeOK, CallInv, Attributed, Limited, Authorised, Receivable
<1>3. CASE BeginOther(c)
  BY <1>2, <1>3, MoveInv DEF BeginOther, At
<1>4. CASE LoadFails(c)
  BY <1>2, <1>4, MoveInv DEF LoadFails, At
<1>5. CASE Comply(c)
  BY <1>2, <1>5, MoveInv DEF Comply, At
<1>6. CASE HistoryFails(c)
  BY <1>2, <1>6, MoveInv DEF HistoryFails, At
<1>7. CASE AnswerOther(c)
  BY <1>2, <1>7, MoveInv DEF AnswerOther, At
<1>8. CASE UpstreamFails(c)
  BY <1>2, <1>8, MoveInv DEF UpstreamFails, At
<1>9. CASE Cancel(c)
  BY <1>2, <1>9, MoveInv DEF Cancel
<1> QED BY <1>3, <1>4, <1>5, <1>6, <1>7, <1>8, <1>9

LEMMA NextInv == IInv /\ [Next]_vars => IInv'
<1> SUFFICES ASSUME IInv, [Next]_vars PROVE IInv'
  OBVIOUS
<1>1. ASSUME NEW c \in Call,
             \/ \E d \in Did : Begin(c, d)
             \/ BeginOther(c) \/ LoadPolicy(c) \/ LoadFails(c) \/ Limit(c) \/ Evaluate(c)
             \/ Comply(c) \/ HistoryFails(c) \/ Receive(c) \/ Answer(c) \/ AnswerOther(c)
             \/ UpstreamFails(c) \/ Cancel(c)
      PROVE  IInv'
  BY <1>1, BeginInv, LoadPolicyInv, LimitInv, EvaluateInv, ReceiveInv, AnswerInv, MovesInv
<1>2. ASSUME NEW d \in Did, NEW p \in Policy \cup {None}, SavePolicy(d, p) PROVE IInv'
  BY <1>2, SavePolicyInv
<1>3. CASE Tick
  BY <1>3, TickInv
<1>4. CASE UNCHANGED vars
  BY <1>4 DEF vars, stores, requests, IInv, TypeOK, CallInv, Attributed, Limited, Authorised,
              Receivable, LogInv, RateLimited, UnloggedBounded, Unlogged, Logged, Allows, Interval,
              IsToolCall
<1> QED BY <1>1, <1>2, <1>3, <1>4 DEF Next

LEMMA Invariant == Spec => []IInv
<1> QED BY InitIInv, NextInv, PTL DEF Spec

-------------------------------------------------------------------------------
(* Theorems *)

\* The variables of the gateway keep their types.
THEOREM TypeTheorem == Spec => []TypeOK
<1>1. IInv => TypeOK
  BY DEF IInv
<1> QED BY <1>1, Invariant, PTL

\* The rate limiter lets no two tool calls of an agent pass too soon after one another.
THEOREM RateTheorem == Spec => []RateLimited
<1>1. IInv => RateLimited
  BY DEF IInv
<1> QED BY <1>1, Invariant, PTL

\* What the upstream server receives for an agent was admitted and allowed by a policy.
THEOREM ForwardTheorem == Spec => []ForwardedAllowed
<1>1. IInv => ForwardedAllowed
  BY DEF IInv, TypeOK, CallInv, Receivable, ForwardedAllowed, IsToolCall
<1> QED BY <1>1, Invariant, PTL

\* A record says "permitted" of exactly the logged calls that the upstream server received,
\* all of which a policy allowed.
THEOREM LogTheorem == Spec => []LogTruthful
<1>1. IInv => LogTruthful
  <2> SUFFICES ASSUME IInv, NEW i \in 1..Len(log)
               PROVE  /\ log[i].permitted <=> log[i].call \in upstream
                      /\ log[i].permitted => admitted[log[i].call] # None /\ allowed[log[i].call]
                      /\ \A j \in 1..Len(log) : log[i].call = log[j].call => i = j
    BY DEF LogTruthful
  <2>1. log[i].permitted => log[i].call \in upstream
    BY DEF IInv, LogInv
  <2>2. ~ log[i].permitted => log[i].call \notin upstream
    <3>1. ASSUME ~ log[i].permitted PROVE call[log[i].call] = "denied"
      BY <3>1 DEF IInv, LogInv
    <3> QED BY <3>1 DEF IInv, TypeOK, CallInv, Receivable
  <2>3. log[i].permitted => admitted[log[i].call] # None /\ allowed[log[i].call]
    BY <2>1 DEF IInv, LogInv, TypeOK, CallInv, Receivable
  <2> QED BY <2>1, <2>2, <2>3 DEF IInv, LogInv
<1> QED BY <1>1, Invariant, PTL

\* No more tool calls are missing in the log than there were faults.
THEOREM UnloggedTheorem == Spec => []UnloggedBounded
<1>1. IInv => UnloggedBounded
  BY DEF IInv
<1> QED BY <1>1, Invariant, PTL
===============================================================================
