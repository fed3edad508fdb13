--------------------------- MODULE EscalationProofs ---------------------------
(***************************************************************************)
(* OneDecision, ApprovalAuthorised, AuditInOrder and the refinement of the *)
(* ledger, for any number of requests, calls, approvers, faults, crashes.  *)
(*                                                                         *)
(* A request is in one place only: in the map, in the hands of one call    *)
(* that has removed it and not yet decided it, or decided (Exclusive).     *)
(* What a call has read from the registry is true of an entry its approver *)
(* once had (Witnessed).  The ledger's status of a request follows from    *)
(* the place it is in.  The log, with what the BufWriter keeps, is made of *)
(* the texts of different events, each put behind those of the events that *)
(* had been answered when it was made (Sound), and a write that fails cuts *)
(* only the end of it.                                                     *)
(*                                                                         *)
(* The last section proves of what the documents say, and faults, crashes  *)
(* and new registrations break, that it holds without them (CompleteInv).  *)
(***************************************************************************)
EXTENDS Escalation, SequenceTheorems, TLAPS

Holds(c) == call[c] \in {"ring", "attestation"}

IsDecided(id) == \E i \in 1..Len(decided) : decided[i].id = id

Exclusive ==
  /\ \A id \in pending : ~ IsDecided(id)
  /\ \A id \in Id : id \in pending \/ IsDecided(id) => request[id] # None
  /\ \A c \in Call : Holds(c) => /\ arg[c].id \notin pending /\ ~ IsDecided(arg[c].id)
                                 /\ request[arg[c].id] # None
  /\ \A c, d \in Call : Holds(c) /\ Holds(d) /\ arg[c].id = arg[d].id => c = d

Witnessed ==
  /\ \A a \in Approver : registry[a] # None => registry[a] \in registered[a]
  /\ \A c \in Call : call[c] = "attestation" =>
       \E old \in registered[arg[c].approver] : old.ring = System
  /\ \A c \in Call : call[c] = "free" \/ Holds(c) => event[c] = None
  /\ \A c \in Call : event[c] # None => request[event[c].id] # None

IInv == TypeOK /\ OneDecision /\ Exclusive /\ Witnessed /\ ApprovalAuthorised

------------------------------------------------------------------------------
(* Types *)

\* What making an event does to the variables it touches.
LEMMA ConcludeFacts ==
  ASSUME TypeOK, NEW c \in Call, NEW id \in Id, NEW a \in Approver,
         NEW outcome \in {"Approved", "Denied"}, NEW cause \in Cause \cup {None},
         Conclude(c, id, a, outcome, cause)
  PROVE  \E e \in Event :
           /\ e = [id |-> id, approver |-> a, outcome |-> outcome, cause |-> cause]
           /\ event' = [event EXCEPT ![c] = e] /\ decided' = Append(decided, e)
           /\ call' = [call EXCEPT ![c] = "log"]
           /\ decided' \in Seq(Event)
           /\ earlier' = [earlier EXCEPT ![c] = {event[d] : d \in {x \in Call : call[x] = "ok"}}]
           /\ earlier' \in [Call -> SUBSET (Event \cup {None})]
<1> DEFINE e == [id |-> id, approver |-> a, outcome |-> outcome, cause |-> cause]
           answered == {event[d] : d \in {x \in Call : call[x] = "ok"}}
<1>1. e \in Event
  BY DEF Event
<1>2. /\ event' = [event EXCEPT ![c] = e] /\ decided' = Append(decided, e)
      /\ call' = [call EXCEPT ![c] = "log"] /\ earlier' = [earlier EXCEPT ![c] = answered]
  BY DEF Conclude
<1>3. e = [id |-> id, approver |-> a, outcome |-> outcome, cause |-> cause]
  OBVIOUS
<1>4. answered \subseteq Event \cup {None}
  BY DEF TypeOK, CallOK
<1> HIDE DEF e
<1>5. decided' \in Seq(Event)
  BY <1>1, <1>2 DEF TypeOK
<1>6. earlier' \in [Call -> SUBSET (Event \cup {None})]
  BY <1>2, <1>4 DEF TypeOK
<1> QED BY <1>1, <1>2, <1>3, <1>5, <1>6

\* What is cut from a sequence.
LEMMA CutSeq ==
  ASSUME NEW S, NEW t \in Seq(S), NEW m \in Nat, NEW n \in Nat, n <= Len(t)
  PROVE  /\ SubSeq(t, m + 1, n) \in Seq(S)
         /\ Len(SubSeq(t, m + 1, n)) = IF m <= n THEN n - m ELSE 0
         /\ \A i \in 1..Len(SubSeq(t, m + 1, n)) : SubSeq(t, m + 1, n)[i] = t[m + i]
<1>1. \A i \in (m + 1)..n : t[i] \in S
  OBVIOUS
<1>2. m + 1 \in Int /\ n \in Int
  OBVIOUS
<1>3. /\ SubSeq(t, m + 1, n) \in Seq(S)
      /\ Len(SubSeq(t, m + 1, n)) = IF m + 1 <= n THEN n - (m + 1) + 1 ELSE 0
      /\ \A i \in 1..(n - (m + 1) + 1) : SubSeq(t, m + 1, n)[i] = t[(m + 1) + i - 1]
  BY <1>1, <1>2, SubSeqProperties
<1> DEFINE u == SubSeq(t, m + 1, n)
<1>4. u = SubSeq(t, m + 1, n)
  OBVIOUS
<1> HIDE DEF u
<1>5. Len(u) = IF m <= n THEN n - m ELSE 0
  BY <1>3, <1>4
<1>6. \A i \in 1..Len(u) : i \in 1..(n - (m + 1) + 1) /\ (m + 1) + i - 1 = m + i
  BY <1>5
<1> QED BY <1>3, <1>4, <1>5, <1>6

LEMMA TextSeq ==
  ASSUME NEW e \in Event
  PROVE  Text(e) \in Seq(Piece(Event)) /\ Len(Text(e)) = 3
<1>1. \A part \in {"head", "tail", "nl"} : [rec |-> e, part |-> part] \in Piece(Event)
  BY DEF Piece
<1> HIDE DEF Piece
<1>2. /\ [rec |-> e, part |-> "head"] \in Piece(Event) /\ [rec |-> e, part |-> "tail"] \in Piece(Event)
      /\ [rec |-> e, part |-> "nl"] \in Piece(Event)
  BY <1>1
<1> QED BY <1>2 DEF Text

\* What a write of the text, whole or not, does: the file grows by its start, and
\* the BufWriter has what follows, or nothing.
Written(text) ==
  \E m, n \in Nat : /\ m <= Len(text) /\ n <= Len(text)
                    /\ audit' = audit \o SubSeq(text, 1, m)
                    /\ unflushed' = SubSeq(text, m + 1, n)

\* Then the file and the BufWriter together are a start of the log and the text.
LEMMA WrittenFacts ==
  ASSUME TypeOK, NEW text \in Seq(Piece(Event)), Written(text)
  PROVE  /\ audit' \in Seq(Piece(Event)) /\ unflushed' \in Seq(Piece(Event))
         /\ Len(audit' \o unflushed') <= Len(audit \o text)
         /\ \A i \in 1..Len(audit' \o unflushed') : (audit' \o unflushed')[i] = (audit \o text)[i]
<1> DEFINE P == Piece(Event)
<1>0. audit \in Seq(P)
  BY DEF TypeOK
<1> HIDE DEF P
<1>1. PICK m, n \in Nat : /\ m <= Len(text) /\ n <= Len(text)
                          /\ audit' = audit \o SubSeq(text, 1, m)
                          /\ unflushed' = SubSeq(text, m + 1, n)
  BY DEF Written
<1> DEFINE a == SubSeq(text, 1, m)
           u == SubSeq(text, m + 1, n)
           k == Len(audit)
           x == audit \o a
<1>2. text \in Seq(P)
  BY DEF P
<1>3. /\ a \in Seq(P) /\ Len(a) = m /\ \A i \in 1..m : a[i] = text[i]
  <2>1. 0 \in Nat /\ m <= Len(text)
    BY <1>1
  <2>2. /\ SubSeq(text, 0 + 1, m) \in Seq(P)
        /\ Len(SubSeq(text, 0 + 1, m)) = IF 0 <= m THEN m - 0 ELSE 0
        /\ \A i \in 1..Len(SubSeq(text, 0 + 1, m)) : SubSeq(text, 0 + 1, m)[i] = text[0 + i]
    BY <1>2, <2>1, CutSeq
  <2>3. a = SubSeq(text, 0 + 1, m)
    OBVIOUS
  <2> HIDE DEF a
  <2>4. Len(a) = m
    BY <2>2, <2>3
  <2>5. \A i \in 1..m : 0 + i = i
    OBVIOUS
  <2> QED BY <2>2, <2>3, <2>4, <2>5
<1>4. /\ u \in Seq(P) /\ Len(u) = (IF m <= n THEN n - m ELSE 0)
      /\ \A i \in 1..Len(u) : u[i] = text[m + i]
  BY <1>1, <1>2, CutSeq
<1>5. audit' = x /\ unflushed' = u
  BY <1>1
<1> HIDE DEF a, u
<1>6. k \in Nat /\ Len(text) \in Nat /\ m \in Nat /\ n \in Nat /\ Len(u) \in Nat
  BY <1>0, <1>2, <1>4
<1>7. /\ x \in Seq(P) /\ Len(x) = k + m
      /\ \A i \in 1..(k + m) : x[i] = IF i <= k THEN audit[i] ELSE a[i - k]
  BY <1>0, <1>3, ConcatProperties
<1> HIDE DEF x
<1>8. /\ x \o u \in Seq(P) /\ Len(x \o u) = k + m + Len(u)
      /\ \A i \in 1..(k + m + Len(u)) : (x \o u)[i] = IF i <= k + m THEN x[i] ELSE u[i - (k + m)]
  <2>1. /\ x \o u \in Seq(P) /\ Len(x \o u) = Len(x) + Len(u)
        /\ \A i \in 1..(Len(x) + Len(u)) : (x \o u)[i] = IF i <= Len(x) THEN x[i] ELSE u[i - Len(x)]
    BY <1>4, <1>7, ConcatProperties
  <2> QED BY <1>7, <2>1
<1>9. /\ Len(audit \o text) = k + Len(text)
      /\ \A i \in 1..(k + Len(text)) : (audit \o text)[i] = IF i <= k THEN audit[i] ELSE text[i - k]
  BY <1>0, <1>2, ConcatProperties
<1>10. m + Len(u) <= Len(text)
  BY <1>1, <1>4, <1>6
<1> HIDE DEF k
<1>11. ASSUME NEW i \in 1..(k + m + Len(u)) PROVE (x \o u)[i] = (audit \o text)[i]
  <2>0. i \in 1..(k + Len(text))
    BY <1>6, <1>10
  <2>1. CASE i <= k
    <3>1. i \in 1..(k + m) /\ i <= k + m
      BY <1>6, <2>1
    <3> QED BY <1>7, <1>8, <1>9, <2>0, <2>1, <3>1
  <2>2. CASE ~ (i <= k) /\ i <= k + m
    <3>1. i \in 1..(k + m) /\ i - k \in 1..m
      BY <1>6, <2>2
    <3> QED BY <1>3, <1>7, <1>8, <1>9, <2>0, <2>2, <3>1
  <2>3. CASE ~ (i <= k + m)
    <3>1. i - (k + m) \in 1..Len(u) /\ m + (i - (k + m)) = i - k /\ ~ (i <= k)
      BY <1>6, <2>3
    <3> QED BY <1>4, <1>8, <1>9, <2>0, <2>3, <3>1
  <2> QED BY <2>1, <2>2, <2>3
<1>12. Len(x \o u) <= Len(audit \o text)
  BY <1>6, <1>8, <1>9, <1>10
<1>13. \A i \in 1..Len(x \o u) : (x \o u)[i] = (audit \o text)[i]
  BY <1>8, <1>11
<1> QED BY <1>4, <1>5, <1>7, <1>12, <1>13 DEF P

LEMMA LogEventFacts ==
  ASSUME TypeOK, NEW c \in Call, LogEvent(c)
  PROVE  /\ event[c] \in Event /\ call[c] = "log" /\ call' = [call EXCEPT ![c] = "export"]
         /\ unflushed \o Text(event[c]) \in Seq(Piece(Event))
         /\ Written(unflushed \o Text(event[c]))
         /\ faults' \in Nat /\ (faults' = 0 => faults = 0)
         /\ faults' = 0 => audit' = audit \o (unflushed \o Text(event[c])) /\ unflushed' = << >>
<1> DEFINE text == unflushed \o Text(event[c])
<1>1. event[c] \in Event /\ call[c] = "log" /\ call' = [call EXCEPT ![c] = "export"]
  BY DEF LogEvent, TypeOK, CallOK
<1>2. text \in Seq(Piece(Event))
  <2>1. Text(event[c]) \in Seq(Piece(Event)) /\ unflushed \in Seq(Piece(Event))
    BY <1>1, TextSeq DEF TypeOK
  <2> QED BY <2>1, ConcatProperties
<1>3. \/ audit' = audit \o text /\ unflushed' = << >> /\ UNCHANGED faults
      \/ Fault /\ LogEventFails(text)
  BY DEF LogEvent
<1>4. faults \in Nat
  BY DEF TypeOK
<1> HIDE DEF text
<1>5. CASE audit' = audit \o text /\ unflushed' = << >> /\ UNCHANGED faults
  <2>1. Len(text) \in Nat /\ SubSeq(text, 1, Len(text)) = text
    BY <1>2, SubSeqFull
  <2>2. SubSeq(text, Len(text) + 1, 0) = << >>
    BY <2>1
  <2>3. Written(text)
    BY <1>5, <2>1, <2>2 DEF Written
  <2> QED BY <1>1, <1>2, <1>4, <1>5, <2>3 DEF text
<1>6. CASE Fault /\ LogEventFails(text)
  <2>1. Len(text) \in Nat
    BY <1>2
  <2>2. PICK lost \in 0..3 : \E n \in 0..(Len(text) - lost) :
          /\ audit' = audit \o SubSeq(text, 1, n)
          /\ unflushed' = SubSeq(text, n + 1, Len(text) - lost)
    BY <1>6 DEF LogEventFails
  <2>3. PICK n \in 0..(Len(text) - lost) :
          /\ audit' = audit \o SubSeq(text, 1, n)
          /\ unflushed' = SubSeq(text, n + 1, Len(text) - lost)
    BY <2>2
  <2>4. n \in Nat /\ Len(text) - lost \in Nat /\ n <= Len(text) /\ Len(text) - lost <= Len(text)
    BY <2>1
  <2>5. Written(text)
    BY <2>3, <2>4 DEF Written
  <2>6. faults' = faults + 1
    BY <1>6 DEF Fault
  <2> QED BY <1>1, <1>2, <1>4, <2>5, <2>6 DEF text
<1> QED BY <1>3, <1>5, <1>6

\* The end of the process leaves a start of the log, or of the log and the text of
\* a log_event that was cut short.
LEMMA CrashFacts ==
  ASSUME TypeOK, Crash
  PROVE  \E text \in Seq(Piece(Event)) :
           /\ Written(text)
           /\ \/ text = unflushed
              \/ \E c \in Call : call[c] = "log" /\ text = unflushed \o Text(event[c])
<1>1. unflushed' = << >> /\ unflushed \in Seq(Piece(Event)) /\ audit \in Seq(Piece(Event))
  BY DEF Crash, TypeOK
<1>2. CASE UNCHANGED audit
  <2>1. SubSeq(unflushed, 1, 0) = << >> /\ audit \o << >> = audit /\ Len(unflushed) \in Nat
    BY <1>1
  <2>2. 0 \in Nat /\ 0 <= Len(unflushed) /\ audit' = audit \o SubSeq(unflushed, 1, 0)
        /\ unflushed' = SubSeq(unflushed, 0 + 1, 0)
    BY <1>1, <1>2, <2>1
  <2>3. Written(unflushed)
    BY <2>2 DEF Written
  <2> QED BY <1>1, <2>3
<1>3. CASE \E c \in {d \in Call : call[d] = "log"} :
             \E n \in 1..Len(unflushed \o Text(event[c])) :
               audit' = audit \o SubSeq(unflushed \o Text(event[c]), 1, n)
  <2>1. PICK c \in Call : call[c] = "log" /\
             \E n \in 1..Len(unflushed \o Text(event[c])) :
               audit' = audit \o SubSeq(unflushed \o Text(event[c]), 1, n)
    BY <1>3
  <2> DEFINE text == unflushed \o Text(event[c])
  <2>2. text \in Seq(Piece(Event))
    <3>1. event[c] \in Event
      BY <2>1 DEF TypeOK, CallOK
    <3>2. Text(event[c]) \in Seq(Piece(Event))
      BY <3>1, TextSeq
    <3> QED BY <1>1, <3>2, ConcatProperties
  <2>3. PICK n \in 1..Len(text) : audit' = audit \o SubSeq(text, 1, n)
    BY <2>1
  <2> HIDE DEF text
  <2>4. n \in Nat /\ 0 \in Nat /\ n <= Len(text) /\ 0 <= Len(text)
    BY <2>2
  <2>5. SubSeq(text, n + 1, 0) = << >>
    BY <2>4
  <2>6. Written(text)
    BY <1>1, <2>3, <2>4, <2>5 DEF Written
  <2> QED BY <2>1, <2>2, <2>6 DEF text
<1> QED BY <1>2, <1>3 DEF Crash

\* A call that has taken its request has arguments.
LEMMA HolderArg == ASSUME CallOK, NEW c \in Call, Holds(c) PROVE arg[c] \in Arg
BY DEF CallOK, Holds

\* Every step keeps the calls, their arguments and their events in their types.
LEMMA CallCorrect == TypeOK /\ [Next]_vars => CallOK'
<1> SUFFICES ASSUME TypeOK, [Next]_vars PROVE CallOK'
  OBVIOUS
<1> USE NoneAssumption
<1>0. CallOK
  BY DEF TypeOK
<1>1. ASSUME NEW c \in Call, NEW s \in {"export", "ok", "err", "gone"},
             call' = [call EXCEPT ![c] = s], UNCHANGED <<arg, event>>,
             s \in {"export", "ok"} => call[c] \in {"log", "export"}
      PROVE  CallOK'
  BY <1>0, <1>1 DEF CallOK
<1>2. ASSUME NEW c \in Call, NEW e \in Event, call' = [call EXCEPT ![c] = "log"],
             event' = [event EXCEPT ![c] = e], UNCHANGED arg
      PROVE  CallOK'
  BY <1>0, <1>2 DEF CallOK
<1>3. ASSUME NEW c \in Call, call' = [call EXCEPT ![c] = "attestation"], call[c] = "ring",
             UNCHANGED <<arg, event>>
      PROVE  CallOK'
  BY <1>0, <1>3 DEF CallOK
<1>4. ASSUME NEW c \in Call, NEW r \in Arg, call' = [call EXCEPT ![c] = "ring"],
             arg' = [arg EXCEPT ![c] = r], UNCHANGED event
      PROVE  CallOK'
  BY <1>0, <1>4 DEF CallOK
<1>5. CASE UNCHANGED <<call, arg, event>>
  BY <1>0, <1>5 DEF CallOK
<1>6. CASE Crash
  BY <1>0, <1>6 DEF Crash, CallOK
<1>7. ASSUME NEW c \in Call, NEW id \in Id, NEW a \in Approver,
             NEW o \in {"Approved", "Denied"}, NEW k \in Cause \cup {None},
             Conclude(c, id, a, o, k), UNCHANGED arg
      PROVE  CallOK'
  BY <1>2, <1>7, ConcludeFacts
<1>8. ASSUME NEW c \in Call, NEW id \in Id, NEW a \in Approver,
             \/ Deny(c, id, a)
             \/ \E sig \in Signature : Approve(c, id, a, sig)
      PROVE  CallOK'
  BY <1>4, <1>7, <1>8 DEF Deny, Approve, Arg, Cause
<1>9. ASSUME NEW c \in Call, CheckRing(c) \/ CheckAttestation(c) PROVE CallOK'
  <2>1. arg[c].id \in Id /\ arg[c].approver \in Approver
    BY <1>0, <1>9, HolderArg DEF CheckRing, CheckAttestation, Holds, Arg
  <2> QED BY <1>3, <1>7, <1>9, <2>1 DEF CheckRing, CheckAttestation, Cause
<1> QED
  BY <1>1, <1>5, <1>6, <1>8, <1>9
     DEF Next, vars, Register, RequestEscalation, NotFound, LookupFails, LogEvent, Export,
         Cancel

\* Every step keeps the variables in their types.
LEMMA TypeCorrect == TypeOK /\ [Next]_vars => TypeOK'
<1> SUFFICES ASSUME TypeOK, [Next]_vars PROVE TypeOK'
  OBVIOUS
<1> USE EscalationAssumption
<1>0. CallOK' /\ CallOK
  BY CallCorrect DEF TypeOK
<1>1. ASSUME NEW a \in Approver, NEW e \in Entry, Register(a, e) PROVE TypeOK'
  BY <1>0, <1>1 DEF Register, TypeOK, logs
<1>2. ASSUME NEW id \in Id, NEW r \in Request, RequestEscalation(id, r) PROVE TypeOK'
  BY <1>0, <1>2 DEF RequestEscalation, TypeOK, logs, history
<1>3. ASSUME UNCHANGED <<registry, request, logs, history>>,
             pending' \subseteq pending, exported' \subseteq Event,
             faults' \in Nat, crashes' \in Nat
      PROVE  TypeOK'
  BY <1>0, <1>3 DEF TypeOK, logs, history
<1>4. ASSUME NEW c \in Call, NEW id \in Id, NEW a \in Approver,
             NEW o \in {"Approved", "Denied"}, NEW k \in Cause \cup {None},
             Conclude(c, id, a, o, k), pending' \subseteq pending,
             UNCHANGED <<registry, request, logs, exported, faults, crashes, registered>>
      PROVE  TypeOK'
  <2>1. decided' \in Seq(Event) /\ earlier' \in [Call -> SUBSET (Event \cup {None})]
    BY <1>4, ConcludeFacts
  <2>2. UNCHANGED <<registry, request, audit, unflushed, exported, faults, crashes, registered>>
        /\ pending' \subseteq pending
    BY <1>4 DEF logs
  <2>3. /\ registry' \in [Approver -> Entry \cup {None}]
        /\ request' \in [Id -> Request \cup {None}] /\ pending' \subseteq Id
        /\ audit' \in Seq(Piece(Event)) /\ unflushed' \in Seq(Piece(Event))
        /\ exported' \subseteq Event /\ faults' \in Nat /\ crashes' \in Nat
        /\ registered' \in [Approver -> SUBSET Entry]
    BY <2>2 DEF TypeOK
  <2> QED BY <1>0, <2>1, <2>3 DEF TypeOK
<1>5. ASSUME NEW c \in Call, NEW id \in Id, NEW a \in Approver, Deny(c, id, a)
      PROVE  TypeOK'
  BY <1>4, <1>5 DEF Deny, Take, Cause
<1>10. ASSUME NEW c \in Call, NEW id \in Id,
              \/ NotFound(c, id)
              \/ \E a \in Approver, sig \in Signature : Approve(c, id, a, sig)
       PROVE  TypeOK'
  BY <1>3, <1>10 DEF NotFound, Approve, Take, TypeOK
<1>6. ASSUME NEW c \in Call, LookupFails(c) \/ Export(c) \/ Cancel(c) PROVE TypeOK'
  <2>1. faults' \in Nat
    BY <1>6 DEF LookupFails, Export, Cancel, Fault, TypeOK
  <2>2. exported' \subseteq Event
    BY <1>0, <1>6 DEF LookupFails, Export, Cancel, TypeOK, CallOK
  <2> QED BY <1>3, <1>6, <2>1, <2>2 DEF LookupFails, Export, Cancel, TypeOK
<1>7. ASSUME NEW c \in Call, CheckRing(c) \/ CheckAttestation(c) PROVE TypeOK'
  <2>1. arg[c].id \in Id /\ arg[c].approver \in Approver
    BY <1>0, <1>7, HolderArg DEF CheckRing, CheckAttestation, Holds, Arg
  <2>2. CASE UNCHANGED <<event, decided, earlier>>
    BY <1>3, <1>7, <2>2 DEF CheckRing, CheckAttestation, TypeOK, history
  <2>3. CASE \E o \in {"Approved", "Denied"}, k \in Cause \cup {None} :
               Conclude(c, arg[c].id, arg[c].approver, o, k)
    BY <1>4, <1>7, <2>1, <2>3 DEF CheckRing, CheckAttestation
  <2> QED BY <1>7, <2>2, <2>3 DEF CheckRing, CheckAttestation, Cause
<1>11. ASSUME audit' \in Seq(Piece(Event)), unflushed' \in Seq(Piece(Event)), faults' \in Nat,
              crashes' \in Nat, pending' \subseteq pending,
              UNCHANGED <<registry, request, exported, history>>
       PROVE  TypeOK'
  BY <1>0, <1>11 DEF TypeOK, history
<1>12. ASSUME NEW c \in Call, LogEvent(c) PROVE TypeOK'
  <2>1. audit' \in Seq(Piece(Event)) /\ unflushed' \in Seq(Piece(Event)) /\ faults' \in Nat
    BY <1>12, LogEventFacts, WrittenFacts
  <2> QED BY <1>11, <1>12, <2>1 DEF LogEvent, TypeOK
<1>8. CASE Crash
  <2>1. audit' \in Seq(Piece(Event)) /\ unflushed' \in Seq(Piece(Event))
    BY <1>8, CrashFacts, WrittenFacts
  <2> QED BY <1>8, <1>11, <2>1 DEF Crash, TypeOK
<1>9. CASE UNCHANGED vars
  BY <1>3, <1>9 DEF vars, TypeOK
<1> QED BY <1>1, <1>2, <1>5, <1>6, <1>7, <1>8, <1>9, <1>10, <1>12 DEF Next

------------------------------------------------------------------------------
(* A request is in one place *)

\* A call that is the only one to hold a request decides it for the first time.
LEMMA ConcludeOnce ==
  ASSUME TypeOK, OneDecision, Exclusive,
         NEW c \in Call, NEW id \in Id, NEW a \in Approver,
         NEW o \in {"Approved", "Denied"}, NEW k \in Cause \cup {None},
         Conclude(c, id, a, o, k), UNCHANGED <<arg, request>>, pending' = pending \ {id},
         ~ IsDecided(id), request[id] # None,
         \A d \in Call : Holds(d) /\ arg[d].id = id => d = c
  PROVE  OneDecision' /\ Exclusive'
<1>1. PICK e \in Event : /\ e.id = id /\ decided' = Append(decided, e)
                        /\ call' = [call EXCEPT ![c] = "log"]
  BY ConcludeFacts
<1>2. decided \in Seq(Event) /\ CallOK
  BY DEF TypeOK
<1>3. \A x : IsDecided(x)' <=> IsDecided(x) \/ x = id
  BY <1>1, <1>2 DEF IsDecided
<1>4. \A d \in Call : Holds(d)' => Holds(d) /\ d # c
  BY <1>1, <1>2 DEF Holds, CallOK
<1>5. OneDecision'
  BY <1>1, <1>2 DEF OneDecision, IsDecided
<1>6. Exclusive'
  BY <1>3, <1>4 DEF Exclusive
<1> QED BY <1>5, <1>6

\* Steps that decide nothing and take nothing.
LEMMA KeepsExclusive ==
  ASSUME OneDecision, Exclusive, UNCHANGED <<arg, request, decided>>, pending' \subseteq pending,
         \A c \in Call : Holds(c)' => Holds(c)
  PROVE  OneDecision' /\ Exclusive'
BY DEF OneDecision, Exclusive, IsDecided, Holds

\* Every step keeps a request in one place and decides none twice.
LEMMA ExclusiveStep == TypeOK /\ OneDecision /\ Exclusive /\ [Next]_vars => OneDecision' /\ Exclusive'
<1> SUFFICES ASSUME TypeOK, OneDecision, Exclusive, [Next]_vars
             PROVE  OneDecision' /\ Exclusive'
  OBVIOUS
<1>0. CallOK /\ request \in [Id -> Request \cup {None}]
  BY DEF TypeOK
<1>1. ASSUME NEW id \in Id, NEW r \in Request, RequestEscalation(id, r)
      PROVE  OneDecision' /\ Exclusive'
  <2>1. ~ IsDecided(id) /\ \A c \in Call : Holds(c) => arg[c].id # id
    BY <1>1 DEF RequestEscalation, Exclusive
  <2>2. /\ request[id] = None /\ request' = [request EXCEPT ![id] = r] /\ r # None
        /\ pending' = pending \cup {id} /\ UNCHANGED <<call, arg, decided>>
    BY <1>1, NoneAssumption DEF RequestEscalation, history
  <2>3. \A x : IsDecided(x)' <=> IsDecided(x)
    BY <2>2 DEF IsDecided
  <2>4. \A c \in Call : Holds(c)' <=> Holds(c)
    BY <2>2 DEF Holds
  <2>5. \A c \in Call : Holds(c) => arg[c].id \in Id
    BY <1>0, HolderArg DEF Arg
  <2>6. Exclusive'
    BY <1>0, <2>1, <2>2, <2>3, <2>4, <2>5 DEF Exclusive
  <2> QED BY <2>2, <2>6 DEF OneDecision
<1>2. ASSUME NEW c \in Call, NEW id \in Id, NEW a \in Approver, Deny(c, id, a)
      PROVE  OneDecision' /\ Exclusive'
  <2>1. /\ ~ IsDecided(id) /\ request[id] # None
        /\ \A d \in Call : Holds(d) => arg[d].id # id
    BY <1>2 DEF Deny, Take, Exclusive
  <2> QED BY <1>2, <2>1, ConcludeOnce DEF Deny, Take, Cause
<1>3. ASSUME NEW c \in Call, NEW id \in Id, NEW a \in Approver, NEW sig \in Signature,
             Approve(c, id, a, sig)
      PROVE  OneDecision' /\ Exclusive'
  <2>1. /\ id \in pending /\ call[c] = "free" /\ pending' = pending \ {id}
        /\ call' = [call EXCEPT ![c] = "ring"]
        /\ arg' = [arg EXCEPT ![c] = [id |-> id, approver |-> a, sig |-> sig]]
        /\ UNCHANGED <<request, decided>>
    BY <1>3 DEF Approve, Take, history
  <2>2. \A x : IsDecided(x)' <=> IsDecided(x)
    BY <2>1 DEF IsDecided
  <2>3. \A d \in Call : d # c => (Holds(d)' <=> Holds(d)) /\ arg'[d] = arg[d]
    BY <1>0, <2>1 DEF Holds, CallOK
  <2>4. arg'[c].id = id /\ ~ Holds(c)
    BY <1>0, <2>1 DEF CallOK, Holds
  <2>5. \A d \in Call : Holds(d) => arg[d].id # id
    BY <2>1 DEF Exclusive
  <2>6. Exclusive'
    BY <2>1, <2>2, <2>3, <2>4, <2>5 DEF Exclusive
  <2> QED BY <2>1, <2>6 DEF OneDecision
<1>4. ASSUME NEW c \in Call, CheckRing(c) \/ CheckAttestation(c)
      PROVE  OneDecision' /\ Exclusive'
  <2>1. Holds(c) /\ arg[c].id \in Id /\ arg[c].approver \in Approver
    BY <1>0, <1>4, HolderArg DEF CheckRing, CheckAttestation, Holds, Arg
  <2>2. /\ ~ IsDecided(arg[c].id) /\ request[arg[c].id] # None /\ pending = pending \ {arg[c].id}
        /\ \A d \in Call : Holds(d) /\ arg[d].id = arg[c].id => d = c
    BY <2>1 DEF Exclusive
  <2>3. CASE \E o \in {"Approved", "Denied"}, k \in Cause \cup {None} :
               Conclude(c, arg[c].id, arg[c].approver, o, k)
    BY <1>4, <2>1, <2>2, <2>3, ConcludeOnce DEF CheckRing, CheckAttestation
  <2>4. CASE call' = [call EXCEPT ![c] = "attestation"] /\ UNCHANGED <<event, decided, earlier>>
    <3>1. \A d \in Call : Holds(d)' => Holds(d)
      BY <1>0, <2>1, <2>4 DEF Holds, CallOK
    <3> QED BY <1>4, <2>4, <3>1, KeepsExclusive DEF CheckRing, CheckAttestation
  <2> QED BY <1>4, <2>3, <2>4 DEF CheckRing, CheckAttestation, Cause
<1>5. ASSUME NEW c \in Call, NEW s \in {"export", "ok", "err", "gone"},
             call' = [call EXCEPT ![c] = s], UNCHANGED <<arg, request, decided, pending>>
      PROVE  OneDecision' /\ Exclusive'
  <2>1. \A d \in Call : Holds(d)' => Holds(d)
    BY <1>0, <1>5 DEF Holds, CallOK
  <2> QED BY <1>5, <2>1, KeepsExclusive
<1>6. CASE Crash
  <2>1. \A d \in Call : Holds(d)' => Holds(d)
    BY <1>6 DEF Crash, Holds
  <2> QED BY <1>6, <2>1, KeepsExclusive DEF Crash, history
<1>7. CASE UNCHANGED <<arg, request, decided, pending, call>>
  BY <1>7, KeepsExclusive DEF Holds
<1> QED
  BY <1>1, <1>2, <1>3, <1>4, <1>5, <1>6, <1>7
     DEF Next, vars, history, Register, NotFound, LookupFails, LogEvent, Export, Cancel

------------------------------------------------------------------------------
(* What an approval rests on *)

\* Nothing an approval rests on is ever taken away.
LEMMA AuthorisedStays ==
  ASSUME TypeOK, Witnessed, ApprovalAuthorised,
         UNCHANGED registered \/ (\E a \in Approver, e \in Entry : Register(a, e)),
         \A c \in Call : event[c] # None => /\ event'[c] = event[c] /\ arg'[c] = arg[c]
                                           /\ request'[event[c].id] = request[event[c].id],
         NEW c \in Call, event'[c] = event[c], event'[c] # None,
         event'[c].outcome = "Approved"
  PROVE  LET e == event'[c]
             sig == arg'[c].sig
         IN  /\ request'[e.id].to < request'[e.id].from
             /\ sig.payload = "approval_payload" /\ sig.id = e.id
             /\ \E old \in registered'[e.approver] : old.ring = System
             /\ \E old \in registered'[e.approver] : old.key = sig.by
<1>1. event[c] \in Event /\ event[c].approver \in Approver
  BY DEF TypeOK, CallOK, Event
<1>2. registered[event[c].approver] \subseteq registered'[event[c].approver]
  <2>1. CASE UNCHANGED registered
    BY <2>1
  <2>2. ASSUME NEW a \in Approver, NEW e \in Entry, Register(a, e)
        PROVE  registered[event[c].approver] \subseteq registered'[event[c].approver]
    <3>1. /\ registered' = [registered EXCEPT ![a] = @ \cup {e}]
          /\ registered \in [Approver -> SUBSET Entry]
      BY <2>2 DEF Register, TypeOK
    <3> QED BY <1>1, <3>1
  <2> QED BY <2>1, <2>2
<1>3. /\ request[event[c].id].to < request[event[c].id].from
      /\ arg[c].sig.payload = "approval_payload" /\ arg[c].sig.id = event[c].id
      /\ \E old \in registered[event[c].approver] : old.ring = System
      /\ \E old \in registered[event[c].approver] : old.key = arg[c].sig.by
  BY DEF ApprovalAuthorised
<1>4. arg'[c] = arg[c] /\ request'[event[c].id] = request[event[c].id]
  OBVIOUS
<1> QED BY <1>2, <1>3, <1>4

\* Every step keeps what approvals, made and in flight, rest on.
LEMMA AuthorisedStep == IInv /\ [Next]_vars => Witnessed' /\ ApprovalAuthorised'
<1> SUFFICES ASSUME IInv, [Next]_vars PROVE Witnessed' /\ ApprovalAuthorised'
  OBVIOUS
<1>0. /\ CallOK /\ request \in [Id -> Request \cup {None}]
      /\ registry \in [Approver -> Entry \cup {None}]
      /\ registered \in [Approver -> SUBSET Entry]
  BY DEF IInv, TypeOK
<1>10. /\ \A c \in Call : event[c] # None => event[c].id \in Id
      /\ \A c \in Call : Holds(c) => arg[c] \in Arg /\ arg[c].approver \in Approver
                                   /\ arg[c].id \in Id
  BY <1>0, HolderArg DEF CallOK, Event, Arg
<1>1. ASSUME NEW a \in Approver, NEW e \in Entry, Register(a, e)
      PROVE  Witnessed' /\ ApprovalAuthorised'
  <2>1. /\ registry' = [registry EXCEPT ![a] = e]
        /\ registered' = [registered EXCEPT ![a] = @ \cup {e}]
        /\ UNCHANGED <<request, call, arg, event>>
    BY <1>1 DEF Register
  <2>2. \A b \in Approver : /\ registered[b] \subseteq registered'[b]
                            /\ registry'[b] # None => registry'[b] \in registered'[b]
    BY <1>0, <2>1 DEF IInv, Witnessed
  <2>3. Witnessed'
    BY <1>10, <2>1, <2>2 DEF IInv, Witnessed, Holds
  <2>4. ApprovalAuthorised'
    BY <1>1, <2>1, AuthorisedStays DEF IInv, ApprovalAuthorised
  <2> QED BY <2>3, <2>4
<1>2. ASSUME NEW id \in Id, NEW r \in Request, RequestEscalation(id, r)
      PROVE  Witnessed' /\ ApprovalAuthorised'
  <2>1. /\ request[id] = None /\ request' = [request EXCEPT ![id] = r] /\ r # None
        /\ UNCHANGED <<registry, registered, call, arg, event>>
    BY <1>2, NoneAssumption DEF RequestEscalation, history
  <2>2. \A c \in Call : event[c] # None => /\ event[c].id # id
                                           /\ request'[event[c].id] = request[event[c].id]
    BY <1>0, <1>10, <2>1 DEF IInv, Witnessed
  <2>3. Witnessed'
    BY <2>1, <2>2 DEF IInv, Witnessed, Holds
  <2>4. ApprovalAuthorised'
    BY <2>1, <2>2, AuthorisedStays DEF IInv, ApprovalAuthorised
  <2> QED BY <2>3, <2>4
<1>3. ASSUME NEW c \in Call, NEW id \in Id, NEW a \in Approver,
             NEW o \in {"Approved", "Denied"}, NEW k \in Cause \cup {None},
             Conclude(c, id, a, o, k), call[c] = "free" \/ Holds(c), request[id] # None,
             UNCHANGED <<registry, registered, request, arg>>,
             o = "Approved" =>
               LET sig == arg[c].sig
               IN  /\ request[id].to < request[id].from
                   /\ sig.payload = "approval_payload" /\ sig.id = id
                   /\ \E old \in registered[a] : old.ring = System
                   /\ \E old \in registered[a] : old.key = sig.by
      PROVE  Witnessed' /\ ApprovalAuthorised'
  <2>1. PICK e \in Event :
          /\ e = [id |-> id, approver |-> a, outcome |-> o, cause |-> k]
          /\ event' = [event EXCEPT ![c] = e] /\ call' = [call EXCEPT ![c] = "log"]
    BY <1>3, ConcludeFacts DEF IInv
  <2>2. /\ event[c] = None /\ event'[c] = e /\ call'[c] = "log"
        /\ \A d \in Call : d # c => event'[d] = event[d] /\ call'[d] = call[d]
    BY <1>0, <1>3, <2>1 DEF IInv, Witnessed, CallOK
  <2>3. Witnessed'
    BY <1>3, <2>1, <2>2 DEF IInv, Witnessed, Holds
  <2>4. ASSUME NEW d \in Call, d # c, event'[d] # None, event'[d].outcome = "Approved"
        PROVE  LET f == event'[d]
                   sig == arg'[d].sig
               IN  /\ request'[f.id].to < request'[f.id].from
                   /\ sig.payload = "approval_payload" /\ sig.id = f.id
                   /\ \E old \in registered'[f.approver] : old.ring = System
                   /\ \E old \in registered'[f.approver] : old.key = sig.by
    BY <1>3, <2>2, <2>4 DEF IInv, ApprovalAuthorised
  <2>5. ApprovalAuthorised'
    BY <1>3, <2>1, <2>2, <2>4 DEF ApprovalAuthorised
  <2> QED BY <2>3, <2>5
<1>4. ASSUME NEW c \in Call, NEW id \in Id, NEW a \in Approver, Deny(c, id, a)
      PROVE  Witnessed' /\ ApprovalAuthorised'
  <2>1. request[id] # None
    BY <1>4 DEF Deny, Take, IInv, Exclusive
  <2> QED BY <1>3, <1>4, <2>1 DEF Deny, Take, Cause
<1>5. ASSUME NEW c \in Call, NEW id \in Id, NEW a \in Approver, NEW sig \in Signature,
             Approve(c, id, a, sig)
      PROVE  Witnessed' /\ ApprovalAuthorised'
  <2>1. /\ call[c] = "free" /\ call' = [call EXCEPT ![c] = "ring"]
        /\ UNCHANGED <<registry, registered, request, event>>
        /\ \A d \in Call : d # c => arg'[d] = arg[d] /\ call'[d] = call[d]
        /\ call'[c] = "ring"
    BY <1>0, <1>5 DEF Approve, Take, CallOK, history
  <2>2. event[c] = None
    BY <2>1 DEF IInv, Witnessed
  <2>3. Witnessed'
    BY <2>1, <2>2 DEF IInv, Witnessed, Holds
  <2>4. ApprovalAuthorised'
    BY <2>1, <2>2 DEF IInv, ApprovalAuthorised
  <2> QED BY <2>3, <2>4
<1>6. ASSUME NEW c \in Call, CheckRing(c) PROVE Witnessed' /\ ApprovalAuthorised'
  <2>1. /\ Holds(c) /\ arg[c].id \in Id /\ arg[c].approver \in Approver
        /\ request[arg[c].id] # None
        /\ registry[arg[c].approver] \in registered[arg[c].approver]
    BY <1>6, <1>10 DEF CheckRing, Holds, IInv, Exclusive, Witnessed
  <2>2. CASE Conclude(c, arg[c].id, arg[c].approver, "Denied", "ring")
    BY <1>3, <1>6, <2>1, <2>2 DEF CheckRing, Cause
  <2>3. CASE /\ registry[arg[c].approver].ring = System
             /\ call' = [call EXCEPT ![c] = "attestation"] /\ UNCHANGED event
    <3>1. UNCHANGED <<registry, registered, request, arg, event>>
      BY <1>6, <2>3 DEF CheckRing
    <3>2. \A d \in Call : call'[d] = IF d = c THEN "attestation" ELSE call[d]
      BY <1>0, <2>3 DEF CallOK
    <3>3. Witnessed'
      BY <2>1, <2>3, <3>1, <3>2 DEF IInv, Witnessed, Holds
    <3> QED BY <3>1, <3>3 DEF IInv, ApprovalAuthorised
  <2> QED BY <1>6, <2>2, <2>3 DEF CheckRing
<1>7. ASSUME NEW c \in Call, CheckAttestation(c) PROVE Witnessed' /\ ApprovalAuthorised'
  <2>1. /\ Holds(c) /\ arg[c].id \in Id /\ arg[c].approver \in Approver
        /\ request[arg[c].id] # None
        /\ registry[arg[c].approver] \in registered[arg[c].approver]
        /\ \E old \in registered[arg[c].approver] : old.ring = System
    BY <1>7, <1>10 DEF CheckAttestation, Holds, IInv, Exclusive, Witnessed
  <2>2. CASE \E k \in Cause : Conclude(c, arg[c].id, arg[c].approver, "Denied", k)
    BY <1>3, <1>7, <2>1, <2>2 DEF CheckAttestation
  <2>3. CASE /\ Conclude(c, arg[c].id, arg[c].approver, "Approved", None)
             /\ Signs(arg[c].sig, registry[arg[c].approver].key, arg[c].id)
             /\ request[arg[c].id].to < request[arg[c].id].from
    BY <1>3, <1>7, <2>1, <2>3 DEF CheckAttestation, Signs
  <2> QED BY <1>7, <2>2, <2>3 DEF CheckAttestation, Cause
<1>8. ASSUME NEW c \in Call, NEW s \in {"export", "ok", "err", "gone"},
             call' = [call EXCEPT ![c] = s],
             UNCHANGED <<registry, registered, request, arg, event>>
      PROVE  Witnessed' /\ ApprovalAuthorised'
  <2>1. \A d \in Call : call'[d] = IF d = c THEN s ELSE call[d]
    BY <1>0, <1>8 DEF CallOK
  <2>2. Witnessed'
    BY <1>8, <2>1 DEF IInv, Witnessed, Holds
  <2> QED BY <1>8, <2>2 DEF IInv, ApprovalAuthorised
<1>9. CASE Crash
  <2>1. \A d \in Call : call'[d] = call[d] \/ call'[d] = "gone"
    BY <1>9 DEF Crash
  <2>2. UNCHANGED <<registry, registered, request, arg, event>>
    BY <1>9 DEF Crash, history
  <2>3. Witnessed'
    BY <2>1, <2>2 DEF IInv, Witnessed, Holds
  <2> QED BY <2>2, <2>3 DEF IInv, ApprovalAuthorised
<1>11. CASE UNCHANGED <<registry, registered, request, arg, event, call>>
  BY <1>11 DEF IInv, Witnessed, Holds, ApprovalAuthorised
<1> QED
  BY <1>1, <1>2, <1>4, <1>5, <1>6, <1>7, <1>8, <1>9, <1>11
     DEF Next, vars, history, NotFound, LookupFails, LogEvent, Export, Cancel

------------------------------------------------------------------------------
(* Theorems *)

\* The invariant holds when the daemon starts for the first time.
LEMMA InitIInv == Init => IInv
<1> SUFFICES ASSUME Init PROVE IInv
  OBVIOUS
<1>1. CallOK
  BY DEF Init, CallOK
<1>2. TypeOK
  BY <1>1, EmptySeq, EscalationAssumption DEF Init, TypeOK
<1>3. OneDecision /\ Exclusive /\ ApprovalAuthorised
  BY DEF Init, OneDecision, Exclusive, ApprovalAuthorised, IsDecided, Holds
<1>4. Witnessed
  BY DEF Init, Witnessed, Holds
<1> QED BY <1>2, <1>3, <1>4 DEF IInv

\* The inductive invariant of EscalationManager.
THEOREM IInvHolds == Spec => []IInv
<1>1. IInv /\ [Next]_vars => IInv'
  BY TypeCorrect, ExclusiveStep, AuthorisedStep DEF IInv
<1> QED BY InitIInv, <1>1, PTL DEF Spec

\* Whatever overlaps, fails or crashes, no escalation request is decided twice.
THEOREM OneDecisionTheorem == Spec => []OneDecision
BY IInvHolds, PTL DEF IInv

\* Every approval rests on a signature over that request by a key its approver
\* was registered with, and on a registration of the approver as System.
THEOREM ApprovalTheorem == Spec => []ApprovalAuthorised
BY IInvHolds, PTL DEF IInv

------------------------------------------------------------------------------
(* The audit log *)

Logged(c) == event[c] # None /\ call[c] # "log"

\* The events of different calls differ, and those a call found answered still are.
EventsInv ==
  /\ \A c \in Call : event[c] # None => IsDecided(event[c].id)
  /\ \A c, d \in Call : event[c] # None /\ event[c] = event[d] => c = d
  /\ \A c \in Call : \A e \in earlier[c] : \E d \in Call : call[d] = "ok" /\ event[d] = e

\* What a sequence of pieces l, the file's or the file's and the BufWriter's, is: its
\* pieces are of calls that have logged, none is there twice, and none of an answered
\* event is behind one of an event made later.
Sound(l) ==
  /\ \A i \in 1..Len(l) : \E c \in Call : Logged(c) /\ event[c] = l[i].rec
  /\ \A i, j \in 1..Len(l) : l[i] = l[j] => i = j
  /\ \A c \in Call : \A i, j \in 1..Len(l) :
       l[i].rec \in earlier[c] /\ l[j].rec = event[c] => i < j

OrderInv == EventsInv /\ Sound(audit \o unflushed)

\* A step that makes no event keeps what EventsInv says.
LEMMA EventsKept ==
  ASSUME TypeOK, EventsInv, UNCHANGED <<event, earlier, decided>>,
         \A c \in Call : call[c] = "ok" => call'[c] = "ok"
  PROVE  EventsInv'
BY DEF EventsInv, IsDecided

\* A step that makes no event leaves a start of a sound sequence sound.
LEMMA StartSound ==
  ASSUME UNCHANGED <<event, earlier>>, \A c \in Call : Logged(c) => Logged(c)',
         Sound(audit \o unflushed),
         Len(audit' \o unflushed') \in Nat, Len(audit \o unflushed) \in Nat,
         Len(audit' \o unflushed') <= Len(audit \o unflushed),
         \A i \in 1..Len(audit' \o unflushed') :
           (audit' \o unflushed')[i] = (audit \o unflushed)[i]
  PROVE  Sound(audit \o unflushed)'
<1> DEFINE l == audit \o unflushed
           m == audit' \o unflushed'
<1>1. /\ \A i \in 1..Len(l) : \E c \in Call : Logged(c) /\ event[c] = l[i].rec
      /\ \A i, j \in 1..Len(l) : l[i] = l[j] => i = j
      /\ \A c \in Call : \A i, j \in 1..Len(l) :
           l[i].rec \in earlier[c] /\ l[j].rec = event[c] => i < j
  BY DEF Sound
<1>2. Len(m) \in Nat /\ Len(l) \in Nat /\ Len(m) <= Len(l) /\ \A i \in 1..Len(m) : m[i] = l[i]
  OBVIOUS
<1> HIDE DEF l, m
<1>3. \A i \in 1..Len(m) : i \in 1..Len(l) /\ m[i] = l[i]
  BY <1>2
<1>4. \A i \in 1..Len(m) : \E c \in Call : Logged(c)' /\ event'[c] = m[i].rec
  BY <1>1, <1>3
<1>5. /\ \A i, j \in 1..Len(m) : m[i] = m[j] => i = j
      /\ \A c \in Call : \A i, j \in 1..Len(m) :
           m[i].rec \in earlier'[c] /\ m[j].rec = event'[c] => i < j
  BY <1>1, <1>3
<1> QED BY <1>4, <1>5 DEF Sound, m

LEMMA LogAndText ==
  ASSUME TypeOK, NEW e \in Event
  PROVE  /\ audit \o unflushed \in Seq(Piece(Event)) /\ Len(audit \o unflushed) \in Nat
         /\ Len(audit \o (unflushed \o Text(e))) = Len(audit \o unflushed) + 3
         /\ \A i \in 1..(Len(audit \o unflushed) + 3) :
              (audit \o (unflushed \o Text(e)))[i]
                = IF i <= Len(audit \o unflushed) THEN (audit \o unflushed)[i]
                  ELSE Text(e)[i - Len(audit \o unflushed)]
<1> DEFINE P == Piece(Event)
           t == Text(e)
           l == audit \o unflushed
<1>1. audit \in Seq(P) /\ unflushed \in Seq(P) /\ t \in Seq(P) /\ Len(t) = 3
  BY TextSeq DEF TypeOK
<1> HIDE DEF t, P
<1>2. l \in Seq(P) /\ Len(l) \in Nat /\ l \o t = audit \o (unflushed \o t)
  BY <1>1, ConcatProperties, ConcatAssociative
<1> HIDE DEF l
<1>3. /\ Len(l \o t) = Len(l) + Len(t)
      /\ \A i \in 1..(Len(l) + Len(t)) : (l \o t)[i] = IF i <= Len(l) THEN l[i] ELSE t[i - Len(l)]
  BY <1>1, <1>2, ConcatProperties
<1>4. /\ Len(audit \o (unflushed \o t)) = Len(l) + 3
      /\ \A i \in 1..(Len(l) + 3) :
           (audit \o (unflushed \o t))[i] = IF i <= Len(l) THEN l[i] ELSE t[i - Len(l)]
  BY <1>1, <1>2, <1>3
<1> QED BY <1>2, <1>4 DEF l, t, P

\* Behind a sound log, the text of an event that is being logged is sound.
LEMMA TextSound ==
  ASSUME TypeOK, EventsInv, UNCHANGED <<event, earlier>>,
         \A d \in Call : Logged(d) => Logged(d)',
         Sound(audit \o unflushed), NEW c \in Call, call[c] = "log", call'[c] # "log",
         Len(audit' \o unflushed') \in Nat,
         Len(audit' \o unflushed') <= Len(audit \o (unflushed \o Text(event[c]))),
         \A i \in 1..Len(audit' \o unflushed') :
           (audit' \o unflushed')[i] = (audit \o (unflushed \o Text(event[c])))[i]
  PROVE  Sound(audit \o unflushed)'
<1> DEFINE l == audit \o unflushed
           e == event[c]
           t == Text(e)
           m == audit' \o unflushed'
           k == Len(l)
<1>1. event[c] \in Event /\ event[c] # None
  BY DEF TypeOK, CallOK
<1>2. /\ l \in Seq(Piece(Event)) /\ k \in Nat /\ Len(audit \o (unflushed \o t)) = k + 3
      /\ \A i \in 1..(k + 3) :
           (audit \o (unflushed \o t))[i] = IF i <= k THEN l[i] ELSE t[i - k]
  BY <1>1, LogAndText
<1>3. \A x \in 1..3 : t[x].rec = e /\ \A y \in 1..3 : t[x] = t[y] => x = y
  BY DEF Text
<1>4. /\ \A i \in 1..k : \E d \in Call : Logged(d) /\ event[d] = l[i].rec
      /\ \A i, j \in 1..k : l[i] = l[j] => i = j
      /\ \A d \in Call : \A i, j \in 1..k :
           l[i].rec \in earlier[d] /\ l[j].rec = event[d] => i < j
  BY DEF Sound
<1>11. /\ Len(m) \in Nat /\ Len(m) <= Len(audit \o (unflushed \o t))
      /\ \A i \in 1..Len(m) : m[i] = (audit \o (unflushed \o t))[i]
  OBVIOUS
<1> HIDE DEF l, m, t, e, k
<1>5. /\ Len(m) \in Nat /\ Len(m) <= k + 3
      /\ \A i \in 1..Len(m) : m[i] = IF i <= k THEN l[i] ELSE t[i - k]
  <2>1. \A i \in 1..Len(m) : i \in 1..(k + 3)
    BY <1>2, <1>11
  <2> QED BY <1>2, <1>11, <2>1
<1>6. \A i \in 1..Len(m) : \/ i \in 1..k /\ m[i] = l[i]
                           \/ i > k /\ i - k \in 1..3 /\ m[i] = t[i - k]
  BY <1>2, <1>5
\* Pieces of the log are of other events than the one being logged.
<1>7. \A i \in 1..k : l[i].rec # e
  BY <1>1, <1>4 DEF EventsInv, Logged, e
<1>8. ASSUME NEW i \in 1..Len(m) PROVE \E d \in Call : Logged(d)' /\ event'[d] = m[i].rec
  <2>1. CASE i \in 1..k /\ m[i] = l[i]
    BY <1>4, <2>1
  <2>2. CASE i - k \in 1..3 /\ m[i] = t[i - k]
    <3>1. m[i].rec = e
      BY <1>3, <2>2
    <3>2. Logged(c)' /\ event'[c] = e
      BY <1>1 DEF Logged, e
    <3> QED BY <3>1, <3>2
  <2> QED BY <1>6, <2>1, <2>2
<1>9. ASSUME NEW i \in 1..Len(m), NEW j \in 1..Len(m), m[i] = m[j] PROVE i = j
  <2>1. CASE i \in 1..k /\ m[i] = l[i] /\ j \in 1..k /\ m[j] = l[j]
    BY <1>4, <1>9, <2>1
  <2>2. CASE i \in 1..k /\ m[i] = l[i] /\ j - k \in 1..3 /\ m[j] = t[j - k]
    <3>1. m[i].rec # e
      BY <1>7, <2>2
    <3>2. m[j].rec = e
      BY <1>3, <2>2
    <3> QED BY <1>9, <3>1, <3>2
  <2>3. CASE i - k \in 1..3 /\ m[i] = t[i - k] /\ j \in 1..k /\ m[j] = l[j]
    <3>1. m[i].rec = e
      BY <1>3, <2>3
    <3>2. m[j].rec # e
      BY <1>7, <2>3
    <3> QED BY <1>9, <3>1, <3>2
  <2>4. CASE i - k \in 1..3 /\ m[i] = t[i - k] /\ j - k \in 1..3 /\ m[j] = t[j - k]
    <3>1. i - k = j - k
      BY <1>3, <1>9, <2>4
    <3> QED BY <1>2, <3>1
  <2> QED BY <1>6, <2>1, <2>2, <2>3, <2>4
<1>10. ASSUME NEW d \in Call, NEW i \in 1..Len(m), NEW j \in 1..Len(m),
              m[i].rec \in earlier'[d], m[j].rec = event'[d]
       PROVE  i < j
  <2>1. m[i].rec \in earlier[d] /\ m[j].rec = event[d]
    BY <1>10
  \* An event that is being logged has not been answered.
  <2>2. e \notin earlier[d]
    BY <1>1 DEF EventsInv, e
  <2>3. CASE i \in 1..k /\ m[i] = l[i] /\ j \in 1..k /\ m[j] = l[j]
    BY <1>4, <2>1, <2>3
  <2>4. CASE i \in 1..k /\ m[i] = l[i] /\ j > k
    BY <1>2, <2>4
  <2>5. CASE i - k \in 1..3 /\ m[i] = t[i - k]
    BY <1>3, <2>1, <2>2, <2>5
  <2> QED BY <1>6, <2>3, <2>4, <2>5
<1> QED BY <1>8, <1>9, <1>10 DEF Sound, m

\* Whatever a write of that text comes to.
LEMMA WrittenSound ==
  ASSUME TypeOK, OrderInv, UNCHANGED <<event, earlier>>,
         \A d \in Call : Logged(d) => Logged(d)',
         NEW c \in Call, call[c] = "log", call'[c] # "log",
         Written(unflushed \o Text(event[c]))
  PROVE  Sound(audit \o unflushed)'
<1> DEFINE text == unflushed \o Text(event[c])
<1>1. text \in Seq(Piece(Event))
  <2>1. event[c] \in Event
    BY DEF TypeOK, CallOK
  <2>2. Text(event[c]) \in Seq(Piece(Event)) /\ unflushed \in Seq(Piece(Event))
    BY <2>1, TextSeq DEF TypeOK
  <2> QED BY <2>2, ConcatProperties
<1>2. text = unflushed \o Text(event[c])
  OBVIOUS
<1> HIDE DEF text
<1>3. /\ audit' \in Seq(Piece(Event)) /\ unflushed' \in Seq(Piece(Event))
      /\ Len(audit' \o unflushed') <= Len(audit \o text)
      /\ \A i \in 1..Len(audit' \o unflushed') : (audit' \o unflushed')[i] = (audit \o text)[i]
  BY <1>1, <1>2, WrittenFacts
<1>4. Len(audit' \o unflushed') \in Nat
  BY <1>3, ConcatProperties
<1> QED BY <1>2, <1>3, <1>4, TextSound DEF OrderInv

\* An event that is made is a new one and finds answered what is answered.
LEMMA OrderConclude ==
  ASSUME TypeOK, OrderInv, NEW c \in Call, NEW id \in Id, NEW a \in Approver,
         NEW o \in {"Approved", "Denied"}, NEW k \in Cause \cup {None},
         Conclude(c, id, a, o, k), UNCHANGED logs, call[c] # "ok", event[c] = None,
         ~ IsDecided(id)
  PROVE  OrderInv'
<1> DEFINE l == audit \o unflushed
           answered == {event[d] : d \in {x \in Call : call[x] = "ok"}}
<1>1. PICK e \in Event :
        /\ e.id = id /\ event' = [event EXCEPT ![c] = e] /\ decided' = Append(decided, e)
        /\ call' = [call EXCEPT ![c] = "log"]
        /\ earlier' = [earlier EXCEPT ![c] = answered]
  BY ConcludeFacts
<1>2. CallOK /\ decided \in Seq(Event) /\ earlier \in [Call -> SUBSET (Event \cup {None})]
  BY DEF TypeOK
<1> HIDE DEF answered
<1>3. /\ event'[c] = e /\ call'[c] = "log" /\ earlier'[c] = answered /\ e # None
      /\ \A d \in Call \ {c} : /\ event'[d] = event[d] /\ call'[d] = call[d]
                               /\ earlier'[d] = earlier[d]
  BY <1>1, <1>2, NoneAssumption DEF CallOK
<1>4. \A x : IsDecided(x)' <=> IsDecided(x) \/ x = id
  BY <1>1, <1>2 DEF IsDecided
<1>5. \A d \in Call : event[d] # None => event[d].id # id /\ event[d] # e
  BY <1>1 DEF OrderInv, EventsInv
<1>6. EventsInv'
  <2>1. ASSUME NEW d \in Call, event'[d] # None PROVE IsDecided(event[d].id)'
    <3>1. CASE d = c
      BY <1>1, <1>3, <1>4, <3>1
    <3>2. CASE d # c
      BY <1>3, <1>4, <2>1, <3>2 DEF OrderInv, EventsInv
    <3> QED BY <3>1, <3>2
  <2>2. \A b, d \in Call : event'[b] # None /\ event'[b] = event'[d] => b = d
    BY <1>3, <1>5 DEF OrderInv, EventsInv
  <2>3. ASSUME NEW b \in Call, NEW f \in earlier'[b]
        PROVE  \E d \in Call : call'[d] = "ok" /\ event'[d] = f
    <3>1. \E d \in Call : call[d] = "ok" /\ event[d] = f
      <4>1. CASE b = c
        BY <1>3, <2>3, <4>1 DEF answered
      <4>2. CASE b # c
        BY <1>3, <2>3, <4>2 DEF OrderInv, EventsInv
      <4> QED BY <4>1, <4>2
    <3>2. PICK d \in Call : call[d] = "ok" /\ event[d] = f
      BY <3>1
    <3>3. d # c
      BY <3>2
    <3> QED BY <1>3, <3>2, <3>3
  <2> QED BY <2>1, <2>2, <2>3 DEF EventsInv
<1>7. Sound(audit \o unflushed)'
  <2>1. audit' \o unflushed' = l
    BY DEF logs
  <2>2. /\ \A i \in 1..Len(l) : \E d \in Call : Logged(d) /\ event[d] = l[i].rec
        /\ \A i, j \in 1..Len(l) : l[i] = l[j] => i = j
        /\ \A d \in Call : \A i, j \in 1..Len(l) :
             l[i].rec \in earlier[d] /\ l[j].rec = event[d] => i < j
    BY DEF OrderInv, Sound
  <2> HIDE DEF l
  <2>3. \A i \in 1..Len(l) : l[i].rec # e
    BY <1>5, <2>2 DEF Logged
  <2>4. \A d \in Call : Logged(d) => d # c
    BY DEF Logged
  <2>5. \A d \in Call \ {c} : Logged(d)' <=> Logged(d)
    BY <1>3 DEF Logged
  <2>6. \A i \in 1..Len(l) : \E d \in Call : Logged(d)' /\ event'[d] = l[i].rec
    BY <1>3, <2>2, <2>4, <2>5
  <2>7. \A d \in Call : \A i, j \in 1..Len(l) :
          l[i].rec \in earlier'[d] /\ l[j].rec = event'[d] => i < j
    BY <1>3, <2>2, <2>3
  <2> QED BY <2>1, <2>2, <2>6, <2>7 DEF Sound
<1> QED BY <1>6, <1>7 DEF OrderInv

LEMMA OrderStep == IInv /\ OrderInv /\ [Next]_vars => OrderInv'
<1> SUFFICES ASSUME IInv, OrderInv, [Next]_vars PROVE OrderInv'
  OBVIOUS
<1> DEFINE l == audit \o unflushed
<1>0. /\ CallOK /\ TypeOK /\ l \in Seq(Piece(Event)) /\ Len(l) \in Nat
      /\ \A c \in Call : call[c] = "free" \/ Holds(c) => event[c] = None
  BY ConcatProperties DEF IInv, TypeOK, Witnessed
<1>1. ASSUME UNCHANGED <<event, earlier, decided, logs>>,
             \A c \in Call : call[c] = "ok" => call'[c] = "ok",
             \A c \in Call : Logged(c) => Logged(c)'
      PROVE  OrderInv'
  <2>1. audit' \o unflushed' = l
    BY <1>1 DEF logs
  <2>2. Sound(audit \o unflushed)'
    BY <1>0, <1>1, <2>1, StartSound DEF OrderInv
  <2> QED BY <1>0, <1>1, <2>2, EventsKept DEF OrderInv
<1>2. ASSUME NEW c \in Call, NEW id \in Id, NEW a \in Approver, Deny(c, id, a)
      PROVE  OrderInv'
  <2>1. call[c] # "ok" /\ event[c] = None /\ ~ IsDecided(id) /\ UNCHANGED logs
    BY <1>0, <1>2 DEF Deny, Take, IInv, Exclusive
  <2> QED BY <1>0, <1>2, <2>1, OrderConclude DEF Deny, Cause
<1>3. ASSUME NEW c \in Call, CheckRing(c) \/ CheckAttestation(c) PROVE OrderInv'
  <2>1. /\ Holds(c) /\ arg[c].id \in Id /\ arg[c].approver \in Approver
        /\ UNCHANGED logs
    BY <1>0, <1>3, HolderArg DEF CheckRing, CheckAttestation, Holds, Arg
  <2>2. call[c] # "ok" /\ event[c] = None /\ ~ IsDecided(arg[c].id)
    BY <1>0, <2>1 DEF Holds, IInv, Exclusive
  <2>3. CASE \E o \in {"Approved", "Denied"}, k \in Cause \cup {None} :
               Conclude(c, arg[c].id, arg[c].approver, o, k)
    BY <1>0, <2>1, <2>2, <2>3, OrderConclude
  <2>4. CASE call' = [call EXCEPT ![c] = "attestation"] /\ UNCHANGED <<event, decided, earlier>>
    <3>1. \A d \in Call : call'[d] = IF d = c THEN "attestation" ELSE call[d]
      BY <1>0, <2>4 DEF CallOK
    <3>2. \A d \in Call : Logged(d) => Logged(d)'
      BY <2>4, <3>1 DEF Logged
    <3> QED BY <1>1, <2>1, <2>2, <2>4, <3>1, <3>2
  <2> QED BY <1>3, <2>3, <2>4 DEF CheckRing, CheckAttestation, Cause
<1>4. ASSUME NEW c \in Call, LogEvent(c) PROVE OrderInv'
  <2>1. /\ call[c] = "log" /\ call' = [call EXCEPT ![c] = "export"]
        /\ unflushed \o Text(event[c]) \in Seq(Piece(Event)) /\ Written(unflushed \o Text(event[c]))
        /\ UNCHANGED <<event, earlier, decided>>
    BY <1>0, <1>4, LogEventFacts DEF LogEvent, history
  <2>2. \A d \in Call : call'[d] = IF d = c THEN "export" ELSE call[d]
    BY <1>0, <2>1 DEF CallOK
  <2>3. \A d \in Call : Logged(d) => Logged(d)'
    BY <2>1, <2>2 DEF Logged
  <2>4. EventsInv'
    BY <1>0, <2>1, <2>2, EventsKept DEF OrderInv
  <2>5. Sound(audit \o unflushed)'
    BY <1>0, <2>1, <2>2, <2>3, WrittenSound DEF OrderInv
  <2> QED BY <2>4, <2>5 DEF OrderInv
<1>5. CASE Crash
  <2>1. PICK text \in Seq(Piece(Event)) :
          /\ Written(text)
          /\ \/ text = unflushed
             \/ \E c \in Call : call[c] = "log" /\ text = unflushed \o Text(event[c])
    BY <1>0, <1>5, CrashFacts
  <2>2. \A d \in Call : call'[d] = IF call[d] \in {"ring", "attestation", "log", "export"}
                                   THEN "gone" ELSE call[d]
    BY <1>5 DEF Crash
  <2>3. UNCHANGED <<event, earlier, decided>>
    BY <1>5 DEF Crash, history
  <2>4. \A d \in Call : Logged(d) => Logged(d)'
    BY <2>2, <2>3 DEF Logged
  <2>5. EventsInv'
    BY <1>0, <2>2, <2>3, EventsKept DEF OrderInv
  <2>6. CASE text = unflushed
    <3>1. /\ Len(audit' \o unflushed') <= Len(l) /\ Len(audit' \o unflushed') \in Nat
          /\ \A i \in 1..Len(audit' \o unflushed') : (audit' \o unflushed')[i] = l[i]
      BY <1>0, <2>1, <2>6, WrittenFacts, ConcatProperties
    <3> QED BY <1>0, <2>3, <2>4, <2>5, <3>1, StartSound DEF OrderInv
  <2>7. CASE \E c \in Call : call[c] = "log" /\ text = unflushed \o Text(event[c])
    BY <1>0, <2>1, <2>2, <2>3, <2>4, <2>5, <2>7, WrittenSound DEF OrderInv
  <2> QED BY <2>1, <2>6, <2>7
<1>6. ASSUME NEW c \in Call, NEW s \in {"ring", "ok", "err", "gone"},
             call' = [call EXCEPT ![c] = s], call[c] \notin {"log", "ok"},
             UNCHANGED <<event, earlier, decided, logs>>
      PROVE  OrderInv'
  <2>1. \A d \in Call : call'[d] = IF d = c THEN s ELSE call[d]
    BY <1>0, <1>6 DEF CallOK
  <2>2. \A d \in Call : Logged(d) => Logged(d)'
    BY <1>6, <2>1 DEF Logged
  <2> QED BY <1>1, <1>6, <2>1, <2>2
<1>7. ASSUME NEW c \in Call, NEW id \in Id,
             \/ NotFound(c, id)
             \/ \E a \in Approver, sig \in Signature : Approve(c, id, a, sig)
      PROVE  OrderInv'
  BY <1>6, <1>7 DEF NotFound, Approve, Take, history
<1>8. ASSUME NEW c \in Call, LookupFails(c) \/ Export(c) \/ Cancel(c) PROVE OrderInv'
  BY <1>6, <1>8 DEF LookupFails, Export, Cancel, history
<1>9. CASE UNCHANGED <<event, earlier, decided, logs, call>>
  BY <1>1, <1>9 DEF Logged
<1> QED
  BY <1>2, <1>3, <1>4, <1>5, <1>7, <1>8, <1>9
     DEF Next, vars, history, Register, RequestEscalation

\* However writes fail and the daemon restarts, a line of the audit log is a decision,
\* no decision has two, and no answered one is behind one that was made afterwards.
THEOREM AuditTheorem == Spec => []AuditInOrder
<1>1. Init => OrderInv
  <2> SUFFICES ASSUME Init PROVE OrderInv
    OBVIOUS
  <2>1. Len(audit \o unflushed) = 0
    BY DEF Init
  <2>2. Sound(audit \o unflushed)
    BY <2>1 DEF Sound
  <2> QED BY <2>2 DEF Init, OrderInv, EventsInv
<1>2. ASSUME TypeOK, OrderInv PROVE AuditInOrder
  <2> DEFINE l == audit \o unflushed
  <2>1. /\ audit \in Seq(Piece(Event)) /\ Len(audit) \in Nat /\ Len(l) \in Nat
        /\ Len(audit) <= Len(l) /\ \A i \in 1..Len(audit) : l[i] = audit[i]
    BY <1>2 DEF TypeOK
  <2>2. /\ \A i \in 1..Len(l) : \E d \in Call : Logged(d) /\ event[d] = l[i].rec
        /\ \A i, j \in 1..Len(l) : l[i] = l[j] => i = j
        /\ \A d \in Call : \A i, j \in 1..Len(l) :
             l[i].rec \in earlier[d] /\ l[j].rec = event[d] => i < j
    BY <1>2 DEF OrderInv, Sound
  <2> HIDE DEF l
  <2>3. \A i \in 1..Len(audit) : i \in 1..Len(l) /\ l[i] = audit[i]
    BY <2>1
  <2>4. \A p \in 1..Len(audit) : RecordLine(audit, p) => \E c \in Call : event[c] = audit[p].rec
    BY <2>2, <2>3
  <2>5. \A c \in Call : \A p, q \in 1..Len(audit) :
          LineOf(event[c], p) /\ LineOf(event[c], q) => p = q
    <3>1. ASSUME NEW c \in Call, NEW p \in 1..Len(audit), NEW q \in 1..Len(audit),
                 LineOf(event[c], p), LineOf(event[c], q)
          PROVE  p = q
      <4>1. /\ audit[p].rec = audit[q].rec /\ audit[p].part = audit[q].part
        BY <3>1 DEF LineOf, RecordLine, RecordAt
      <4>2. audit[p] = audit[q]
        <5>1. audit[p] \in Piece(Event) /\ audit[q] \in Piece(Event)
          BY <2>1
        <5> QED BY <4>1, <5>1 DEF Piece
      <4> QED BY <2>2, <2>3, <4>2
    <3> QED BY <3>1
  <2>6. \A c \in Call : \A e \in earlier[c] : \A p, q \in 1..Len(audit) :
          LineOf(e, p) /\ LineOf(event[c], q) => p < q
    BY <2>2, <2>3 DEF LineOf
  <2> QED BY <2>4, <2>5, <2>6 DEF AuditInOrder
<1>3. IInv => TypeOK
  BY DEF IInv
<1> QED BY <1>1, <1>2, <1>3, OrderStep, IInvHolds, PTL DEF Spec

------------------------------------------------------------------------------
(* The ledger *)

InPlay(id) == id \in pending \/ \E c \in Call : Holds(c) /\ arg[c].id = id

LEMMA StatusIs ==
  ASSUME NEW id \in Id
  PROVE  StatusOf(id) = IF request[id] = None THEN "unknown"
                        ELSE IF IsDecided(id)
                          THEN IF LastDecision(id) = "Approved" THEN "approved" ELSE "denied"
                        ELSE IF InPlay(id) THEN "pending" ELSE "dropped"
BY DEF StatusOf, IsDecided, InPlay, Holds

\* Steps that decide nothing and accept no request can only drop some.
LEMMA DropStep ==
  ASSUME UNCHANGED <<request, decided>>, \A id \in Id : InPlay(id)' => InPlay(id)
  PROVE  Ledger!Drop
<1> DEFINE lost == {id \in Id : StatusOf(id) = "pending" /\ ~ InPlay(id)'}
<1>1. \A id \in Id : StatusOf(id)' = IF id \in lost THEN "dropped" ELSE StatusOf(id)
  <2> TAKE id \in Id
  <2>1. LastDecision(id)' = LastDecision(id) /\ IsDecided(id)' = IsDecided(id)
    BY DEF LastDecision, IsDecided
  <2>2. StatusOf(id)' = IF request'[id] = None THEN "unknown"
                        ELSE IF IsDecided(id)'
                          THEN IF LastDecision(id)' = "Approved" THEN "approved" ELSE "denied"
                        ELSE IF InPlay(id)' THEN "pending" ELSE "dropped"
    BY DEF StatusOf, IsDecided, InPlay, Holds
  <2> QED BY <2>1, <2>2, StatusIs
<1>2. lost \in SUBSET {id \in Id : [j \in Id |-> StatusOf(j)][id] = "pending"}
  OBVIOUS
<1>3. [id \in Id |-> StatusOf(id)]'
        = [id \in Id |-> IF id \in lost THEN "dropped" ELSE [j \in Id |-> StatusOf(j)][id]]
  BY <1>1
<1> QED BY <1>2, <1>3 DEF Ledger!Drop

LEMMA SubmitStep ==
  ASSUME IInv, NEW id \in Id, NEW r \in Request, RequestEscalation(id, r)
  PROVE  Ledger!Submit(id)
<1>1. /\ request[id] = None /\ r # None /\ ~ IsDecided(id)
      /\ \A j \in Id : request'[j] = IF j = id THEN r ELSE request[j]
      /\ pending' = pending \cup {id} /\ UNCHANGED <<call, arg, decided>>
  BY NoneAssumption DEF RequestEscalation, history, IInv, Exclusive, TypeOK
<1>2. \A j \in Id : StatusOf(j)' = IF j = id THEN "pending" ELSE StatusOf(j)
  <2> TAKE j \in Id
  <2>1. LastDecision(j)' = LastDecision(j) /\ IsDecided(j)' = IsDecided(j)
    BY <1>1 DEF LastDecision, IsDecided
  <2>2. InPlay(j)' = (j = id \/ InPlay(j))
    BY <1>1 DEF InPlay, Holds
  <2>3. StatusOf(j)' = IF request'[j] = None THEN "unknown"
                       ELSE IF IsDecided(j)'
                         THEN IF LastDecision(j)' = "Approved" THEN "approved" ELSE "denied"
                       ELSE IF InPlay(j)' THEN "pending" ELSE "dropped"
    BY DEF StatusOf, IsDecided, InPlay, Holds
  <2> QED BY <1>1, <2>1, <2>2, <2>3, StatusIs
<1>3. StatusOf(id) = "unknown"
  BY <1>1 DEF StatusOf
<1>4. [j \in Id |-> StatusOf(j)]' = [[j \in Id |-> StatusOf(j)] EXCEPT ![id] = "pending"]
  BY <1>2
<1> QED BY <1>3, <1>4 DEF Ledger!Submit

\* A call that concludes decides its request, which was pending until then, and
\* leaves every other one where it is.
LEMMA DecideStep ==
  ASSUME IInv, NEW c \in Call, NEW id \in Id, NEW a \in Approver,
         NEW o \in {"Approved", "Denied"}, NEW k \in Cause \cup {None},
         Conclude(c, id, a, o, k), UNCHANGED <<request, arg>>,
         InPlay(id), pending' \in {pending, pending \ {id}},
         Holds(c) => arg[c].id = id
  PROVE  Ledger!Decide(id)
<1> DEFINE e == [id |-> id, approver |-> a, outcome |-> o, cause |-> k]
<1>1. /\ decided' = Append(decided, e) /\ decided \in Seq(Event)
      /\ call' = [call EXCEPT ![c] = "log"]
  BY ConcludeFacts DEF IInv, TypeOK
<1>2. /\ Len(decided) \in Nat /\ Len(decided') = Len(decided) + 1
      /\ \A i \in 1..Len(decided) : decided'[i] = decided[i]
      /\ decided'[Len(decided) + 1] = e
  BY <1>1
<1>3. ~ IsDecided(id) /\ request[id] # None
  BY DEF InPlay, IInv, Exclusive
<1>4. \A j \in Id : j # id =>
        /\ {i \in 1..Len(decided') : decided'[i].id = j} = {i \in 1..Len(decided) : decided[i].id = j}
        /\ IsDecided(j)' <=> IsDecided(j)
  <2> SUFFICES ASSUME NEW j \in Id, j # id
               PROVE  {i \in 1..Len(decided') : decided'[i].id = j}
                        = {i \in 1..Len(decided) : decided[i].id = j}
    BY DEF IsDecided
  <2>1. decided'[Len(decided) + 1].id = id
    BY <1>2
  <2> HIDE DEF e
  <2> QED BY <1>2, <2>1
<1>5. \A j \in Id : j # id => StatusOf(j)' = StatusOf(j)
  <2> SUFFICES ASSUME NEW j \in Id, j # id PROVE StatusOf(j)' = StatusOf(j)
    OBVIOUS
  <2>1. IsDecided(j) => LastDecision(j)' = LastDecision(j)
    <3> SUFFICES ASSUME IsDecided(j) PROVE LastDecision(j)' = LastDecision(j)
      OBVIOUS
    <3> DEFINE made == {i \in 1..Len(decided) : decided[i].id = j}
               last == CHOOSE i \in made : \A l \in made : l <= i
    <3>1. LastDecision(j) = decided[last].outcome /\ LastDecision(j)' = decided'[last].outcome
      BY <1>4 DEF LastDecision
    <3>2. PICK i \in made : \A l \in made : l <= i
      <4>1. PICK i \in made : TRUE
        BY DEF IsDecided
      <4>2. \A l \in made : l = i
        BY <4>1 DEF IInv, OneDecision
      <4> QED BY <4>1, <4>2
    <3>3. last \in 1..Len(decided)
      BY <3>2
    <3> QED BY <1>2, <3>1, <3>3
  <2>2. InPlay(j)' <=> InPlay(j)
    <3>1. \A d \in Call : call'[d] = IF d = c THEN "log" ELSE call[d]
      BY <1>1 DEF IInv, TypeOK, CallOK
    <3> QED BY <3>1 DEF InPlay, Holds
  <2>3. StatusOf(j)' = IF request'[j] = None THEN "unknown"
                       ELSE IF IsDecided(j)'
                         THEN IF LastDecision(j)' = "Approved" THEN "approved" ELSE "denied"
                       ELSE IF InPlay(j)' THEN "pending" ELSE "dropped"
    BY DEF StatusOf, IsDecided, InPlay, Holds
  <2> QED BY <1>4, <2>1, <2>2, <2>3, StatusIs
<1>6. StatusOf(id) = "pending"
  BY <1>3, StatusIs
<1>7. StatusOf(id)' \in {"approved", "denied"}
  <2>1. IsDecided(id)'
    BY <1>2 DEF IsDecided
  <2> QED BY <1>3, <2>1 DEF StatusOf, IsDecided
<1>8. [j \in Id |-> StatusOf(j)]'
        = [[j \in Id |-> StatusOf(j)] EXCEPT ![id] = StatusOf(id)']
  BY <1>5
<1> QED BY <1>6, <1>7, <1>8 DEF Ledger!Decide

\* Every step of the manager is one of the ledger, which may drop nothing.
LEMMA LedgerStep == IInv /\ [Next]_vars => Ledger!Next
<1> SUFFICES ASSUME IInv, [Next]_vars PROVE Ledger!Next
  OBVIOUS
<1>0. CallOK /\ pending \subseteq Id
  BY DEF IInv, TypeOK
<1>1. ASSUME NEW id \in Id, NEW r \in Request, RequestEscalation(id, r) PROVE Ledger!Next
  BY <1>1, SubmitStep DEF Ledger!Next
<1>2. ASSUME NEW c \in Call, NEW id \in Id, NEW a \in Approver, Deny(c, id, a)
      PROVE  Ledger!Next
  <2>1. InPlay(id) /\ ~ Holds(c)
    BY <1>2 DEF Deny, Take, InPlay, Holds
  <2>2. Conclude(c, id, a, "Denied", "explicit") /\ UNCHANGED <<request, arg>>
        /\ pending' = pending \ {id}
    BY <1>2 DEF Deny, Take
  <2>3. Ledger!Decide(id)
    BY <2>1, <2>2, DecideStep DEF Cause
  <2> QED BY <2>3 DEF Ledger!Next
<1>3. ASSUME NEW c \in Call, CheckRing(c) \/ CheckAttestation(c) PROVE Ledger!Next
  <2>1. /\ Holds(c) /\ arg[c].id \in Id /\ arg[c].approver \in Approver
        /\ UNCHANGED <<request, pending, arg>> /\ InPlay(arg[c].id)
    BY <1>0, <1>3, HolderArg DEF CheckRing, CheckAttestation, Holds, Arg, InPlay
  <2>2. CASE \E o \in {"Approved", "Denied"}, k \in Cause \cup {None} :
               Conclude(c, arg[c].id, arg[c].approver, o, k)
    <3>1. Ledger!Decide(arg[c].id)
      BY <2>1, <2>2, DecideStep
    <3> QED BY <2>1, <3>1 DEF Ledger!Next
  <2>3. CASE call' = [call EXCEPT ![c] = "attestation"] /\ UNCHANGED <<event, decided, earlier>>
    <3>1. \A d \in Call : Holds(d)' => Holds(d)
      BY <1>0, <2>1, <2>3 DEF Holds, CallOK
    <3>2. Ledger!Drop
      BY <2>1, <2>3, <3>1, DropStep DEF InPlay
    <3> QED BY <3>2 DEF Ledger!Next
  <2> QED BY <1>3, <2>2, <2>3 DEF CheckRing, CheckAttestation, Cause
<1>4. ASSUME NEW c \in Call, NEW id \in Id, NEW a \in Approver, NEW sig \in Signature,
             Approve(c, id, a, sig)
      PROVE  Ledger!Next
  <2>1. \A d \in Call : /\ call'[d] = IF d = c THEN "ring" ELSE call[d]
                        /\ arg'[d] = IF d = c THEN [id |-> id, approver |-> a, sig |-> sig]
                                     ELSE arg[d]
    BY <1>0, <1>4 DEF Approve, CallOK
  <2>2. UNCHANGED <<request, decided>> /\ pending' = pending \ {id} /\ id \in pending
    BY <1>4 DEF Approve, Take, history
  <2>3. \A j \in Id : InPlay(j)' => InPlay(j)
    BY <2>1, <2>2 DEF InPlay, Holds
  <2>4. Ledger!Drop
    BY <2>2, <2>3, DropStep
  <2> QED BY <2>4 DEF Ledger!Next
<1>5. ASSUME UNCHANGED <<request, decided, arg>>, pending' \subseteq pending,
             \A d \in Call : call'[d] = call[d] \/ call'[d] \in {"export", "ok", "err", "gone"}
      PROVE  Ledger!Next
  <2>1. \A j \in Id : InPlay(j)' => InPlay(j)
    BY <1>5 DEF InPlay, Holds
  <2>2. Ledger!Drop
    BY <1>5, <2>1, DropStep
  <2> QED BY <2>2 DEF Ledger!Next
<1>6. ASSUME NEW c \in Call,
             \/ LookupFails(c) \/ LogEvent(c) \/ Export(c) \/ Cancel(c)
             \/ \E id \in Id : NotFound(c, id)
      PROVE  Ledger!Next
  <2>1. /\ UNCHANGED <<request, decided, arg, pending>>
        /\ \E s \in {"export", "ok", "err", "gone"} : call' = [call EXCEPT ![c] = s]
    BY <1>6 DEF LookupFails, LogEvent, Export, Cancel, NotFound, history
  <2> QED BY <1>0, <1>5, <2>1 DEF CallOK
<1>7. CASE Crash
  BY <1>5, <1>7 DEF Crash, history
<1>8. CASE UNCHANGED <<request, pending, call, arg, decided>>
  BY <1>5, <1>8
<1> QED
  BY <1>1, <1>2, <1>3, <1>4, <1>6, <1>7, <1>8 DEF Next, vars, history, Register

\* The manager is a ledger of requests: each goes from unknown to pending, and from
\* there to one decision or to being dropped, and what is decided stays.
THEOREM LedgerTheorem == Spec => RefinesLedger
<1>1. Init => Ledger!Init
  BY DEF Init, Ledger!Init, StatusOf
<1>2. IInv /\ [Next]_vars => [Ledger!Next]_([id \in Id |-> StatusOf(id)])
  BY LedgerStep
<1> QED BY <1>1, <1>2, IInvHolds, PTL DEF Spec, RefinesLedger, Ledger!Spec
------------------------------------------------------------------------------
(* Where what the documents say does hold *)

SignedOtherwise(c) ==
  \E old \in registered[event[c].approver] : ~ Signs(arg[c].sig, old.key, event[c].id)

DeniedForSignature(c) ==
  event[c] # None /\ event[c].outcome = "Denied" /\ event[c].cause = "signature"

\* Without a fault or a crash the log ends with a line, and each logged event has one.
LinesInv ==
  faults = 0 /\ crashes = 0 =>
    /\ unflushed = << >>
    /\ audit # << >> => audit[Len(audit)].part = "nl"
    /\ \A c \in Call : Logged(c) => \E p \in 1..Len(audit) :
         LineOf(event[c], p) /\ p + 2 \in 1..Len(audit)

CompleteInv ==
  /\ faults = 0 => \A c \in Call : call[c] = "ok" => event[c] \in exported
  /\ \A c \in Call : DeniedForSignature(c) => SignedOtherwise(c)
  /\ LinesInv

\* The text of an event, behind a line, is a line, and leaves the others what they are.
AddsLine(t, s, e) ==
  /\ t[Len(t)].part = "nl"
  /\ \E p \in 1..Len(t) : RecordLine(t, p) /\ t[p].rec = e /\ p + 2 \in 1..Len(t)
  /\ \A p \in 1..Len(s) : RecordLine(s, p) /\ p + 2 \in 1..Len(s) =>
       /\ p \in 1..Len(t) /\ RecordLine(t, p) /\ t[p].rec = s[p].rec
       /\ p + 2 \in 1..Len(t)

LEMMA LineAdded ==
  ASSUME NEW e \in Event, NEW s \in Seq(Piece(Event)), s # << >> => s[Len(s)].part = "nl"
  PROVE  AddsLine(s \o Text(e), s, e)
<1> DEFINE t == s \o Text(e)
<1> DEFINE n == Len(s)
           x == Text(e)
<1>1. x \in Seq(Piece(Event)) /\ Len(x) = 3
  BY TextSeq
<1>2. /\ x[1] = [rec |-> e, part |-> "head"] /\ x[2] = [rec |-> e, part |-> "tail"]
      /\ x[3] = [rec |-> e, part |-> "nl"]
  BY DEF Text
<1> HIDE DEF x
<1>3. n \in Nat /\ Len(t) = n + 3
      /\ \A i \in 1..(n + 3) : t[i] = IF i <= n THEN s[i] ELSE x[i - n]
  <2>1. /\ Len(s \o x) = Len(s) + Len(x)
        /\ \A i \in 1..(Len(s) + Len(x)) : (s \o x)[i] = IF i <= Len(s) THEN s[i] ELSE x[i - Len(s)]
    BY <1>1, ConcatProperties
  <2>2. n \in Nat /\ t = s \o x
    BY DEF x
  <2> HIDE DEF t
  <2> QED BY <1>1, <2>1, <2>2
<1>4. n # 0 => s[n].part = "nl"
  OBVIOUS
<1> HIDE DEF n, t
<1>5. /\ n + 1 \in 1..(n + 3) /\ ~ (n + 1 <= n) /\ (n + 1) - n = 1
      /\ n + 2 \in 1..(n + 3) /\ ~ (n + 2 <= n) /\ (n + 2) - n = 2
      /\ n + 3 \in 1..(n + 3) /\ ~ (n + 3 <= n) /\ (n + 3) - n = 3
      /\ \A i \in 1..n : i \in 1..(n + 3) /\ i <= n
  BY <1>3
<1>6. /\ t[n + 1] = [rec |-> e, part |-> "head"] /\ t[n + 2] = [rec |-> e, part |-> "tail"]
      /\ t[n + 3] = [rec |-> e, part |-> "nl"] /\ \A i \in 1..n : t[i] = s[i]
  BY <1>2, <1>3, <1>5
<1>7. RecordLine(t, n + 1)
  <2>1. n # 0 => t[n].part = "nl"
    <3> SUFFICES ASSUME n # 0 PROVE t[n].part = "nl"
      OBVIOUS
    <3>1. n \in 1..n
      BY <1>3
    <3> QED BY <1>4, <1>6, <3>1
  <2>2. LineStart(t, n + 1)
    <3>1. (n + 1) - 1 = n /\ (n = 0 => n + 1 = 1)
      BY <1>3
    <3> QED BY <1>3, <1>5, <2>1, <3>1 DEF LineStart
  <2>3. (n + 1) + 1 = n + 2 /\ (n + 1) + 2 = n + 3
    BY <1>3
  <2>4. RecordAt(t, n + 1)
    BY <1>3, <1>5, <1>6, <2>3 DEF RecordAt
  <2>5. t[(n + 1) + 2].part = "nl"
    <3>1. t[n + 3].part = "nl"
      BY <1>6
    <3> QED BY <2>3, <3>1
  <2> QED BY <2>2, <2>4, <2>5 DEF RecordLine
<1>8. ASSUME NEW p \in 1..n, RecordLine(s, p), p + 2 \in 1..n
      PROVE  p \in 1..Len(t) /\ RecordLine(t, p) /\ t[p].rec = s[p].rec /\ p + 2 \in 1..Len(t)
  <2>1. p + 1 \in 1..n /\ p - 1 \in 0..n /\ p + 1 \in 1..(n + 3) /\ (p # 1 => p - 1 \in 1..n)
    BY <1>3, <1>8
  <2>2. t[p] = s[p] /\ t[p + 1] = s[p + 1] /\ t[p + 2] = s[p + 2] /\ (p # 1 => t[p - 1] = s[p - 1])
    BY <1>6, <1>8, <2>1
  <2>3. LineStart(t, p)
    BY <1>3, <1>5, <1>8, <2>2 DEF RecordLine, LineStart, n
  <2>4. RecordAt(t, p)
    BY <1>3, <1>5, <1>8, <2>1, <2>2 DEF RecordLine, RecordAt
  <2>5. t[p + 2].part = "nl"
    BY <1>8, <2>2 DEF RecordLine, n
  <2> QED BY <1>3, <1>5, <1>8, <2>2, <2>3, <2>4, <2>5 DEF RecordLine
<1>9. n + 1 \in 1..Len(t) /\ (n + 1) + 2 \in 1..Len(t)
  BY <1>3
<1>10. t[n + 1].rec = e /\ t[Len(t)].part = "nl"
  BY <1>3, <1>6
<1>11. AddsLine(t, s, e)
  BY <1>7, <1>8, <1>9, <1>10 DEF n, AddsLine
<1> QED BY <1>11 DEF t

\* A log_event that succeeds adds a line.
LEMMA LinesLogged ==
  ASSUME IInv, LinesInv, NEW c \in Call, LogEvent(c) PROVE LinesInv'
<1> SUFFICES ASSUME faults' = 0, crashes' = 0
             PROVE  /\ unflushed' = << >>
                    /\ audit' # << >> => audit'[Len(audit')].part = "nl"
                    /\ \A d \in Call : Logged(d)' => \E p \in 1..Len(audit') :
                         LineOf(event[d], p)' /\ p + 2 \in 1..Len(audit')
  BY DEF LinesInv
<1> DEFINE e == event[c]
<1>1. /\ e \in Event /\ call[c] = "log" /\ call' = [call EXCEPT ![c] = "export"] /\ faults = 0
      /\ audit' = audit \o (unflushed \o Text(e)) /\ unflushed' = << >>
      /\ crashes = 0 /\ UNCHANGED event
  BY LogEventFacts DEF IInv, LogEvent
<1>2. /\ unflushed = << >>
      /\ audit # << >> => audit[Len(audit)].part = "nl"
      /\ \A d \in Call : Logged(d) => \E p \in 1..Len(audit) :
           LineOf(event[d], p) /\ p + 2 \in 1..Len(audit)
  BY <1>1 DEF LinesInv
<1>3. audit' = audit \o Text(e) /\ audit \in Seq(Piece(Event))
  <2>1. Text(e) \in Seq(Piece(Event)) /\ audit \in Seq(Piece(Event))
    BY <1>1, TextSeq DEF IInv, TypeOK
  <2> HIDE DEF e
  <2>2. << >> \o Text(e) = Text(e)
    BY <2>1
  <2>3. audit' = audit \o (<< >> \o Text(e))
    BY <1>1, <1>2, Zenon
  <2> QED BY <2>1, <2>2, <2>3
<1> HIDE DEF e
<1>4. AddsLine(audit', audit, e)
  BY <1>1, <1>2, <1>3, LineAdded
<1>5. ASSUME NEW d \in Call, Logged(d)'
      PROVE  \E p \in 1..Len(audit') : LineOf(event[d], p)' /\ p + 2 \in 1..Len(audit')
  <2>1. CASE d = c
    BY <1>1, <1>4, <2>1 DEF LineOf, AddsLine, e
  <2>2. CASE d # c
    <3>1. Logged(d)
      BY <1>1, <1>5, <2>2 DEF Logged, IInv, TypeOK, CallOK
    <3>2. PICK p \in 1..Len(audit) : LineOf(event[d], p) /\ p + 2 \in 1..Len(audit)
      BY <1>2, <3>1
    <3> QED BY <1>1, <1>4, <3>2 DEF LineOf, AddsLine
  <2> QED BY <2>1, <2>2
<1> QED BY <1>1, <1>4, <1>5 DEF AddsLine

LEMMA LinesKept ==
  ASSUME LinesInv, UNCHANGED logs, faults' = 0 => faults = 0, crashes' = 0 => crashes = 0,
         \A c \in Call : Logged(c)' => Logged(c) /\ event'[c] = event[c]
  PROVE  LinesInv'
<1>1. audit' = audit /\ unflushed' = unflushed
  BY DEF logs
<1>2. \A c \in Call, p \in 1..Len(audit) : Logged(c)' => LineOf(event[c], p)' = LineOf(event[c], p)
  BY <1>1 DEF LineOf
<1> QED BY <1>1, <1>2 DEF LinesInv

\* A step that decides nothing.
LEMMA CompleteKeeps ==
  ASSUME IInv, CompleteInv, LinesInv', UNCHANGED event, faults' = 0 => faults = 0,
         \A c \in Call : event[c] # None => arg'[c] = arg[c],
         \A a \in Approver : registered[a] \subseteq registered'[a],
         exported \subseteq exported',
         \A c \in Call : call'[c] = "ok" =>
           call[c] = "ok" \/ (faults' = 0 => event[c] \in exported')
  PROVE  CompleteInv'
<1>1. \A c \in Call : event[c] # None => event[c].approver \in Approver
  BY DEF IInv, TypeOK, CallOK, Event
<1>2. faults' = 0 => \A c \in Call : call'[c] = "ok" => event'[c] \in exported'
  BY DEF CompleteInv
<1>3. \A c \in Call : DeniedForSignature(c)' => SignedOtherwise(c)'
  BY <1>1 DEF CompleteInv, DeniedForSignature, SignedOtherwise
<1> QED BY <1>2, <1>3 DEF CompleteInv

LEMMA CompleteConclude ==
  ASSUME IInv, CompleteInv, NEW c \in Call, NEW id \in Id, NEW a \in Approver,
         NEW o \in {"Approved", "Denied"}, NEW k \in Cause \cup {None},
         Conclude(c, id, a, o, k),
         UNCHANGED <<arg, logs, exported, faults, crashes, registered>>,
         o = "Denied" /\ k = "signature" => \E old \in registered[a] : ~ Signs(arg[c].sig, old.key, id)
  PROVE  CompleteInv'
<1>1. PICK e \in Event :
        /\ e = [id |-> id, approver |-> a, outcome |-> o, cause |-> k]
        /\ event' = [event EXCEPT ![c] = e]
        /\ call' = [call EXCEPT ![c] = "log"]
  BY ConcludeFacts DEF IInv
<1>2. /\ event'[c] = e /\ call'[c] = "log"
      /\ \A d \in Call \ {c} : event'[d] = event[d] /\ call'[d] = call[d]
  BY <1>1 DEF IInv, TypeOK, CallOK
<1>3. \A d \in Call : Logged(d)' => Logged(d) /\ event'[d] = event[d]
  BY <1>2 DEF Logged
<1>4. LinesInv'
  BY <1>3, LinesKept DEF CompleteInv
<1>5. faults' = 0 => \A d \in Call : call'[d] = "ok" => event'[d] \in exported'
  BY <1>2 DEF CompleteInv
<1>6. ASSUME NEW d \in Call, DeniedForSignature(d)'
      PROVE  SignedOtherwise(d)'
  <2>1. CASE d = c
    BY <1>1, <1>2, <1>6, <2>1 DEF DeniedForSignature, SignedOtherwise
  <2>2. CASE d # c
    BY <1>2, <1>6, <2>2 DEF CompleteInv, DeniedForSignature, SignedOtherwise
  <2> QED BY <2>1, <2>2
<1> QED BY <1>4, <1>5, <1>6 DEF CompleteInv

LEMMA CompleteStep == IInv /\ CompleteInv /\ [Next]_vars => CompleteInv'
<1> SUFFICES ASSUME IInv, CompleteInv, [Next]_vars PROVE CompleteInv'
  OBVIOUS
<1>0. /\ CallOK /\ faults \in Nat /\ crashes \in Nat /\ LinesInv
      /\ registered \in [Approver -> SUBSET Entry]
      /\ \A c \in Call : call[c] = "free" \/ Holds(c) => event[c] = None
      /\ \A c \in Call : Holds(c) => arg[c].id \in Id /\ arg[c].approver \in Approver
  BY HolderArg DEF IInv, TypeOK, Witnessed, Arg, CompleteInv
<1>1. ASSUME NEW c \in Call, NEW s \in {"ring", "attestation", "ok", "err", "gone"},
             call' = [call EXCEPT ![c] = s], call[c] # "log",
             \A d \in Call \ {c} : arg'[d] = arg[d], event[c] # None => arg'[c] = arg[c],
             UNCHANGED <<event, logs, crashes, registered>>,
             exported \subseteq exported', faults' \in {faults, faults + 1},
             s = "ok" => (faults' = faults => event[c] \in exported')
      PROVE  CompleteInv'
  <2>1. \A d \in Call : call'[d] = IF d = c THEN s ELSE call[d]
    BY <1>0, <1>1 DEF CallOK
  <2>2. faults' = 0 => faults' = faults
    BY <1>0, <1>1
  <2>3. LinesInv'
    BY <1>0, <1>1, <2>1, <2>2, LinesKept DEF Logged
  <2> QED BY <1>1, <2>1, <2>2, <2>3, CompleteKeeps
<1>2. ASSUME NEW a \in Approver, NEW e \in Entry, Register(a, e) PROVE CompleteInv'
  <2>1. \A b \in Approver : registered[b] \subseteq registered'[b]
    BY <1>0, <1>2 DEF Register
  <2>2. LinesInv'
    BY <1>0, <1>2, LinesKept DEF Register, Logged
  <2> QED BY <1>2, <2>1, <2>2, CompleteKeeps DEF Register
<1>3. ASSUME NEW id \in Id, NEW r \in Request, RequestEscalation(id, r) PROVE CompleteInv'
  <2>1. LinesInv'
    BY <1>0, <1>3, LinesKept DEF RequestEscalation, Logged
  <2> QED BY <1>3, <2>1, CompleteKeeps DEF RequestEscalation, history
<1>4. ASSUME NEW c \in Call, NEW id \in Id, NEW a \in Approver, Deny(c, id, a)
      PROVE  CompleteInv'
  BY <1>4, CompleteConclude DEF Deny, Cause
<1>5. ASSUME NEW c \in Call, NEW id \in Id, NEW a \in Approver, NEW sig \in Signature,
             Approve(c, id, a, sig)
      PROVE  CompleteInv'
  <2>1. /\ event[c] = None /\ \A d \in Call \ {c} : arg'[d] = arg[d]
        /\ call' = [call EXCEPT ![c] = "ring"] /\ call[c] = "free"
        /\ UNCHANGED <<event, logs, crashes, registered, exported, faults>>
    BY <1>0, <1>5 DEF Approve, Take, CallOK, history
  <2> QED BY <1>1, <2>1
<1>6. ASSUME NEW c \in Call, CheckRing(c) PROVE CompleteInv'
  <2>1. Holds(c) /\ UNCHANGED <<arg, logs, exported, faults, crashes, registered>>
    BY <1>6 DEF CheckRing, Holds
  <2>2. CASE Conclude(c, arg[c].id, arg[c].approver, "Denied", "ring")
    BY <1>0, <2>1, <2>2, CompleteConclude DEF Cause
  <2>3. CASE call' = [call EXCEPT ![c] = "attestation"] /\ UNCHANGED <<event, decided, earlier>>
    BY <1>1, <2>1, <2>3 DEF Holds
  <2> QED BY <1>6, <2>2, <2>3 DEF CheckRing
<1>7. ASSUME NEW c \in Call, CheckAttestation(c) PROVE CompleteInv'
  <2>1. Holds(c) /\ UNCHANGED <<arg, logs, exported, faults, crashes, registered>>
    BY <1>7 DEF CheckAttestation, Holds
  <2>2. registry[arg[c].approver] \in registered[arg[c].approver]
    BY <1>0, <1>7, <2>1 DEF CheckAttestation, IInv, Witnessed
  <2>3. CASE /\ Conclude(c, arg[c].id, arg[c].approver, "Denied", "signature")
             /\ ~ Signs(arg[c].sig, registry[arg[c].approver].key, arg[c].id)
    BY <1>0, <2>1, <2>2, <2>3, CompleteConclude DEF Cause
  <2>4. CASE Conclude(c, arg[c].id, arg[c].approver, "Denied", "transition")
    BY <1>0, <2>1, <2>4, CompleteConclude DEF Cause
  <2>5. CASE Conclude(c, arg[c].id, arg[c].approver, "Approved", None)
    BY <1>0, <2>1, <2>2, <2>5, CompleteConclude
  <2> QED BY <1>7, <2>3, <2>4, <2>5 DEF CheckAttestation
<1>8. ASSUME NEW c \in Call, LookupFails(c) \/ Export(c) \/ Cancel(c) PROVE CompleteInv'
  BY <1>0, <1>1, <1>8 DEF LookupFails, Export, Cancel, Fault, history
<1>9. ASSUME NEW c \in Call, NEW id \in Id, NotFound(c, id) PROVE CompleteInv'
  BY <1>0, <1>1, <1>9 DEF NotFound, history
<1>12. ASSUME NEW c \in Call, LogEvent(c) PROVE CompleteInv'
  <2>1. LinesInv' /\ (faults' = 0 => faults = 0) /\ call' = [call EXCEPT ![c] = "export"]
    BY <1>0, <1>12, LinesLogged, LogEventFacts DEF IInv
  <2>2. \A d \in Call : call'[d] = "ok" => call[d] = "ok"
    BY <1>0, <2>1 DEF CallOK
  <2> QED BY <1>12, <2>1, <2>2, CompleteKeeps DEF LogEvent, history
<1>10. CASE Crash
  <2>1. crashes' # 0 /\ \A c \in Call : call'[c] \in {call[c], "gone"}
    BY <1>0, <1>10 DEF Crash
  <2>2. LinesInv'
    BY <2>1 DEF LinesInv
  <2> QED BY <1>10, <2>1, <2>2, CompleteKeeps DEF Crash, history
<1>11. CASE UNCHANGED vars
  <2>1. LinesInv'
    BY <1>0, <1>11, LinesKept DEF vars, Logged
  <2> QED BY <1>11, <2>1, CompleteKeeps DEF vars, history
<1> QED BY <1>2, <1>3, <1>4, <1>5, <1>6, <1>7, <1>8, <1>9, <1>10, <1>11, <1>12 DEF Next

LEMMA CompleteAlways == Spec => []CompleteInv
<1>1. Init => CompleteInv
  BY DEF Init, CompleteInv, DeniedForSignature, LinesInv, Logged
<1> QED BY <1>1, CompleteStep, IInvHolds, PTL DEF Spec

\* What ADR-001 says holds as long as nothing has failed and the process has not ended:
\* each answered decision is a line of the log, on disk.
THEOREM AnsweredAudited == Spec => [](faults = 0 /\ crashes = 0 => AnsweredIsAudited)
<1>1. ASSUME IInv, CompleteInv, faults = 0, crashes = 0 PROVE AnsweredIsAudited
  <2>1. \A c \in Call : call[c] = "ok" => Logged(c)
    BY <1>1 DEF Logged, IInv, TypeOK, CallOK
  <2> QED BY <1>1, <2>1 DEF CompleteInv, LinesInv, AnsweredIsAudited
<1> QED BY <1>1, IInvHolds, CompleteAlways, PTL

\* Without a fault each answered decision has reached the SIEM: a decision that
\* is missing there was lost by a fault, or its call was dropped.
THEOREM AnsweredExported ==
  Spec => [](faults = 0 => \A c \in Call : call[c] = "ok" => event[c] \in exported)
<1>1. CompleteInv => (faults = 0 => \A c \in Call : call[c] = "ok" => event[c] \in exported)
  BY DEF CompleteInv
<1> QED BY <1>1, CompleteAlways, PTL

\* What ADR-002 says of approval_payload holds of the payload the daemon
\* verifies: an approval that signs it, for the request, with the only key its
\* approver ever had, is not denied for its signature.
THEOREM HonestAccepted ==
  Spec => [](\A c \in Call :
               DeniedForSignature(c) /\ arg[c].sig.payload = "approval_payload" =>
                 \/ arg[c].sig.id # event[c].id
                 \/ \E old \in registered[event[c].approver] : old.key # arg[c].sig.by)
<1>1. CompleteInv =>
        \A c \in Call :
          DeniedForSignature(c) /\ arg[c].sig.payload = "approval_payload" =>
            \/ arg[c].sig.id # event[c].id
            \/ \E old \in registered[event[c].approver] : old.key # arg[c].sig.by
  BY DEF CompleteInv, SignedOtherwise, Signs
<1> QED BY <1>1, CompleteAlways, PTL

\* What ADR-002 says of the System ring holds of every approver whose entries
\* all had one ring: only a key it was registered with in that ring approves.
THEOREM RingKept ==
  Spec => []((\A a \in Approver : \A e, f \in registered[a] : e.ring = f.ring)
               => SystemKeyApproves)
<1>1. ASSUME TypeOK, ApprovalAuthorised,
             \A a \in Approver : \A e, f \in registered[a] : e.ring = f.ring
      PROVE  SystemKeyApproves
  <2> SUFFICES ASSUME NEW c \in Call, event[c] # None, event[c].outcome = "Approved"
               PROVE  [key |-> arg[c].sig.by, ring |-> System] \in registered[event[c].approver]
    BY DEF SystemKeyApproves
  <2> DEFINE a == event[c].approver
  <2>1. a \in Approver /\ registered[a] \subseteq Entry
    BY <1>1 DEF TypeOK, CallOK, Event
  <2>2. PICK f \in registered[a] : f.ring = System
    BY <1>1 DEF ApprovalAuthorised
  <2>3. PICK e \in registered[a] : e.key = arg[c].sig.by
    BY <1>1 DEF ApprovalAuthorised
  <2>4. e \in Entry /\ e.ring = System
    BY <1>1, <2>1, <2>2, <2>3
  <2>5. e = [key |-> arg[c].sig.by, ring |-> System]
    BY <2>3, <2>4 DEF Entry
  <2> QED BY <2>3, <2>5
<1>2. IInv => TypeOK
  BY DEF IInv
<1> QED BY <1>1, <1>2, IInvHolds, ApprovalTheorem, PTL
==============================================================================
