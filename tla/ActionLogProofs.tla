--------------------------- MODULE ActionLogProofs ---------------------------
(***************************************************************************)
(* ViolationsExplained, AckedDurable, ViolationsBounded and the refinement *)
(* of AuditChain, for every number of records, crashes and I/O errors.     *)
(*                                                                         *)
(* The argument is about what the log will be once the BufWriter is        *)
(* flushed, file \o buf: writing bytes out leaves it alone, an append adds *)
(* one record's text, and an error or a crash cuts a piece off its end.    *)
(* As long as nothing fails it is whole records, each of which names the   *)
(* one before it, and verify_chain says so (IntactLogVerifies).            *)
(***************************************************************************)
EXTENDS ActionLog, SequenceTheorems, FiniteSetTheorems, TLAPS

Flushed == file \o buf

\* t is a prefix of s.
Prefix(t, s) == Len(t) <= Len(s) /\ \A i \in 1..Len(t) : t[i] = s[i]

\* Every record of s at the start of a line names the record before it, or is in A.
Linked(s, A) ==
  /\ RecordAt(s, 1) => s[1].rec.prev = Genesis \/ s[1].rec.id \in A
  /\ \A p \in 1..Len(s) :
       RecordAt(s, p) /\ LineStart(s, p + 3) /\ RecordAt(s, p + 3) =>
         s[p + 3].rec.prev = s[p].rec.id \/ s[p + 3].rec.id \in A

\* s is a log whose last record, ended by its newline, has hash h.
EndsWith(s, h) ==
  \/ s = << >> /\ h = Genesis
  \/ /\ Len(s) >= 3 /\ s[Len(s)].part = "nl"
     /\ s[Len(s) - 1].part = "tail" /\ s[Len(s) - 1].rec.id = h

\* s ends with the text of r, on a line of its own unless r is in A.
EndsWithText(s, r, A) ==
  /\ Len(s) >= 3
  /\ s[Len(s) - 2] = [rec |-> r, part |-> "head"]
  /\ s[Len(s) - 1] = [rec |-> r, part |-> "tail"]
  /\ s[Len(s)] = [rec |-> r, part |-> "nl"]
  /\ r.id \notin A => LineStart(s, Len(s) - 2)

AppendInv ==
  /\ pc \in {"flush", "hashed", "truncated"} =>
       ~ broken /\ EndsWithText(Flushed, cur, afterBreak)
  /\ pc \in {"hashed", "truncated"} => buf = << >> /\ lastHash = cur.id

TipInv ==
  ~ broken => /\ pc = "idle" => buf = << >> /\ EndsWith(file, lastHash)
              /\ pc = "down" => buf = << >> /\ EndsWith(file, checkpoint)

IInv == TypeOK /\ Linked(Flushed, afterBreak) /\ AppendInv /\ TipInv /\ AckedDurable

------------------------------------------------------------------------------
(* Facts about files of lines *)

\* What BufWriter's flush moves to the file is not changed by moving it.
LEMMA MovePiece ==
  ASSUME NEW X, NEW f \in Seq(X), NEW b \in Seq(X), b # << >>
  PROVE  /\ Append(f, Head(b)) \in Seq(X) /\ Tail(b) \in Seq(X)
         /\ Append(f, Head(b)) \o Tail(b) = f \o b
<1>1. Head(b) \in X /\ Tail(b) \in Seq(X) /\ Len(b) >= 1
  OBVIOUS
<1>2. Append(f, Head(b)) \in Seq(X)
  BY <1>1
<1> DEFINE l == Append(f, Head(b)) \o Tail(b)
           r == f \o b
<1>3. l \in Seq(X) /\ r \in Seq(X) /\ Len(l) = Len(r)
  BY <1>1, <1>2
<1>4. ASSUME NEW i \in 1..Len(r) PROVE l[i] = r[i]
  BY <1>1, <1>2, <1>4
<1>5. l = r
  BY <1>3, <1>4
<1> QED BY <1>1, <1>2, <1>5

\* A crash or a failed write leaves a prefix of the flushed log.
LEMMA CutPrefix ==
  ASSUME NEW X, NEW f \in Seq(X), NEW b \in Seq(X), NEW n \in 0..Len(b)
  PROVE  /\ SubSeq(b, 1, n) \in Seq(X)
         /\ f \o SubSeq(b, 1, n) \in Seq(X)
         /\ Prefix(f \o SubSeq(b, 1, n), f \o b)
         /\ Prefix(f, f \o b)
BY DEF Prefix

\* Cutting a log short breaks no link.
LEMMA LinkedPrefix ==
  ASSUME NEW X, NEW s \in Seq(X), NEW t \in Seq(X), Prefix(t, s),
         NEW A, NEW B, A \subseteq B, Linked(s, A)
  PROVE  Linked(t, B)
<1>1. \A p \in 1..Len(t) : p \in 1..Len(s) /\ t[p] = s[p]
  BY DEF Prefix
<1>2. \A p : RecordAt(t, p) => RecordAt(s, p) /\ t[p] = s[p]
  BY <1>1 DEF RecordAt
<1>3. \A p \in 1..Len(t) : LineStart(t, p + 3) => LineStart(s, p + 3)
  BY <1>1 DEF LineStart
<1>4. RecordAt(t, 1) => t[1].rec.prev = Genesis \/ t[1].rec.id \in B
  BY <1>2 DEF Linked
<1>5. ASSUME NEW p \in 1..Len(t),
             RecordAt(t, p), LineStart(t, p + 3), RecordAt(t, p + 3)
      PROVE  t[p + 3].rec.prev = t[p].rec.id \/ t[p + 3].rec.id \in B
  <2>1. RecordAt(s, p) /\ LineStart(s, p + 3) /\ RecordAt(s, p + 3)
    BY <1>2, <1>3, <1>5
  <2>2. t[p] = s[p] /\ t[p + 3] = s[p + 3] /\ p \in 1..Len(s)
    BY <1>1, <1>2, <1>5
  <2> QED BY <2>1, <2>2 DEF Linked
<1> QED BY <1>4, <1>5 DEF Linked

\* Three pieces are appended.
LEMMA AppendThree ==
  ASSUME NEW X, NEW s \in Seq(X), NEW x \in Seq(X), Len(x) = 3
  PROVE  /\ s \o x \in Seq(X) /\ Len(s \o x) = Len(s) + 3 /\ Len(s) \in Nat
         /\ \A i \in 1..Len(s) : (s \o x)[i] = s[i]
         /\ (s \o x)[Len(s) + 1] = x[1] /\ (s \o x)[Len(s) + 2] = x[2]
         /\ (s \o x)[Len(s) + 3] = x[3]
<1>1. /\ s \o x \in Seq(X) /\ Len(s \o x) = Len(s) + Len(x)
      /\ \A i \in 1..(Len(s) + Len(x)) :
           (s \o x)[i] = IF i <= Len(s) THEN s[i] ELSE x[i - Len(s)]
  BY ConcatProperties
<1>2. Len(s) \in Nat
  OBVIOUS
<1>3. /\ \A i \in 1..Len(s) : (s \o x)[i] = s[i]
      /\ (s \o x)[Len(s) + 1] = x[1]
      /\ (s \o x)[Len(s) + 2] = x[2]
      /\ (s \o x)[Len(s) + 3] = x[3]
  BY <1>1, <1>2
<1> QED BY <1>1, <1>2, <1>3

\* Appending a record that names the last one, or one that is in A, breaks no link.
LEMMA LinkedText ==
  ASSUME NEW X, NEW s \in Seq(Piece(X)), NEW r \in X, NEW A, NEW h,
         Linked(s, A), r.prev = h, EndsWith(s, h) \/ r.id \in A
  PROVE  /\ Text(r) \in Seq(Piece(X)) /\ Linked(s \o Text(r), A)
         /\ EndsWithText(s \o Text(r), r, A)
<1> DEFINE u == s \o Text(r)
           n == Len(s)
<1>1. /\ Text(r) \in Seq(Piece(X)) /\ Len(Text(r)) = 3
      /\ Text(r)[1] = [rec |-> r, part |-> "head"]
      /\ Text(r)[2] = [rec |-> r, part |-> "tail"]
      /\ Text(r)[3] = [rec |-> r, part |-> "nl"]
  BY DEF Text, Piece
<1>2. /\ u \in Seq(Piece(X)) /\ Len(u) = n + 3 /\ n \in Nat
      /\ \A i \in 1..n : u[i] = s[i]
      /\ u[n + 1] = Text(r)[1] /\ u[n + 2] = Text(r)[2] /\ u[n + 3] = Text(r)[3]
  BY <1>1, AppendThree
<1> HIDE DEF u
<1>3. \A p : RecordAt(u, p) => RecordAt(s, p) \/ p = n + 1
  BY <1>1, <1>2 DEF RecordAt
<1>4. ASSUME RecordAt(u, 1) PROVE u[1].rec.prev = Genesis \/ u[1].rec.id \in A
  <2>1. CASE RecordAt(s, 1)
    BY <2>1, <1>2 DEF Linked, RecordAt
  <2>2. CASE n = 0
    BY <2>2, <1>1, <1>2 DEF EndsWith
  <2> QED BY <2>1, <2>2, <1>2, <1>3, <1>4
<1>5. ASSUME NEW p \in 1..Len(u),
             RecordAt(u, p), LineStart(u, p + 3), RecordAt(u, p + 3)
      PROVE  u[p + 3].rec.prev = u[p].rec.id \/ u[p + 3].rec.id \in A
  <2>1. p # n + 1 /\ RecordAt(s, p) /\ p \in 1..n
    <3>1. p \in Nat /\ p + 4 <= n + 3
      BY <1>2, <1>5 DEF RecordAt
    <3> QED BY <1>2, <1>3, <1>5, <3>1
  <2>2. CASE RecordAt(s, p + 3)
    <3>1. LineStart(s, p + 3)
      <4>1. p + 2 \in 1..n /\ p + 3 \in 1..n /\ (p + 3) - 1 = p + 2 /\ p + 3 # 1
        BY <1>2, <2>1, <2>2 DEF RecordAt
      <4>2. u[p + 2].part = "nl" /\ u[p + 2] = s[p + 2]
        BY <1>2, <1>5, <4>1 DEF LineStart
      <4> QED BY <4>1, <4>2 DEF LineStart
    <3>2. u[p + 3] = s[p + 3] /\ u[p] = s[p]
      BY <1>2, <2>1, <2>2 DEF RecordAt
    <3> QED BY <2>1, <2>2, <3>1, <3>2 DEF Linked
  <2>3. CASE p + 3 = n + 1
    <3>1. u[p + 3].rec = r
      BY <2>3, <1>1, <1>2
    <3>2. u[p].rec = s[n - 1].rec
      BY <2>1, <2>3, <1>2 DEF RecordAt
    <3> QED BY <2>1, <2>3, <3>1, <3>2 DEF EndsWith
  <2> QED BY <1>3, <1>5, <2>2, <2>3
<1>6. r.id \notin A => LineStart(u, n + 1)
  BY <1>2 DEF EndsWith, LineStart
<1>7. EndsWithText(u, r, A)
  BY <1>1, <1>2, <1>6 DEF EndsWithText
<1> QED BY <1>1, <1>4, <1>5, <1>7 DEF Linked, u

\* What append wrote last ends the log.
LEMMA TextEnds ==
  ASSUME NEW s, NEW r, NEW A, EndsWithText(s, r, A)
  PROVE  EndsWith(s, r.id)
BY DEF EndsWithText, EndsWith

\* Every step keeps the variables in their types.
LEMMA TypeCorrect == TypeOK /\ [Next]_vars => TypeOK'
<1> SUFFICES ASSUME TypeOK, [Next]_vars PROVE TypeOK'
  OBVIOUS
<1> USE BoundsAssumption
<1>1. CASE BeginAppend
  <2>1. cur' \in Record /\ cur' = [id |-> next, prev |-> lastHash]
    BY <1>1 DEF BeginAppend, TypeOK, Record, Id, Genesis
  <2>2. Text(cur') \in Seq(Piece(Record))
    BY <2>1 DEF Text, Piece
  <2>3. buf' \in Seq(Piece(Record))
    BY <1>1, <2>1, <2>2 DEF BeginAppend, TypeOK
  <2>4. next' \in 1..(MaxRecords + 1) /\ afterBreak' \subseteq Id
    BY <1>1 DEF BeginAppend, TypeOK, Id
  <2> QED BY <1>1, <2>1, <2>3, <2>4 DEF BeginAppend, TypeOK, Record
<1>2. CASE WriteOut
  BY <1>2, MovePiece DEF WriteOut, TypeOK, history
<1>3. CASE WriteError
  <2>1. buf' \in Seq(Piece(Record))
    BY <1>3 DEF WriteError, TypeOK
  <2> QED BY <1>3, <2>1 DEF WriteError, TypeOK
<1>4. CASE UpdateHash
  BY <1>4 DEF UpdateHash, TypeOK, history
<1>5. CASE CheckpointOpenError
  BY <1>5 DEF CheckpointOpenError, TypeOK, history
<1>6. CASE TruncateCheckpoint
  BY <1>6 DEF TruncateCheckpoint, TypeOK, history
<1>7. CASE CheckpointWriteError
  BY <1>7 DEF CheckpointWriteError, TypeOK, history
<1>8. CASE WriteCheckpoint
  BY <1>8 DEF WriteCheckpoint, TypeOK, Record
<1>9. CASE Stop
  BY <1>9 DEF Stop, TypeOK
<1>10. CASE Crash
  BY <1>10 DEF Crash, TypeOK
<1>11. CASE Open
  BY <1>11 DEF Open, TypeOK, history
<1>12. CASE UNCHANGED vars
  BY <1>12 DEF vars, TypeOK
<1> QED BY <1>1, <1>2, <1>3, <1>4, <1>5, <1>6, <1>7, <1>8, <1>9, <1>10, <1>11,
           <1>12 DEF Next

------------------------------------------------------------------------------
(* The inductive invariant *)

\* The invariant holds of the empty log.
LEMMA InitIInv == Init => IInv
<1> SUFFICES ASSUME Init PROVE IInv
  OBVIOUS
<1>1. TypeOK
  <2>1. file \in Seq(Piece(Record)) /\ buf \in Seq(Piece(Record))
    BY EmptySeq DEF Init
  <2>2. cur \in [id : Id \cup {Genesis}, prev : Id \cup {Genesis}]
    BY DEF Init
  <2>3. next \in 1..(MaxRecords + 1) /\ crashes \in 0..MaxCrashes /\ faults \in 0..MaxFaults
    BY BoundsAssumption DEF Init
  <2> QED BY <2>1, <2>2, <2>3 DEF Init, TypeOK
<1>2. Flushed = << >>
  BY DEF Init, Flushed
<1>3. Linked(Flushed, afterBreak)
  BY <1>2 DEF Linked, RecordAt
<1> QED BY <1>1, <1>3 DEF Init, IInv, AppendInv, TipInv, AckedDurable, EndsWith

\* What an append left in the file stays there: the file only grows.
LEMMA DurableGrows ==
  ASSUME TypeOK, TypeOK', AckedDurable, Prefix(file, file'),
         acked' = acked, afterBreak \subseteq afterBreak'
  PROVE  AckedDurable'
<1> SUFFICES ASSUME NEW id \in acked
             PROVE  \E p \in 1..Len(file') :
                      /\ RecordAt(file', p) /\ file'[p].rec.id = id
                      /\ id \notin afterBreak' => LineStart(file', p)
  BY DEF AckedDurable
<1>1. PICK p \in 1..Len(file) : /\ RecordAt(file, p) /\ file[p].rec.id = id
                                /\ id \notin afterBreak => LineStart(file, p)
  BY DEF AckedDurable
<1>2. /\ Len(file) \in Nat /\ Len(file') \in Nat
      /\ \A i \in 1..Len(file) : i \in 1..Len(file') /\ file'[i] = file[i]
  BY DEF Prefix, TypeOK
<1>3. RecordAt(file', p) /\ file'[p] = file[p]
  BY <1>1, <1>2 DEF RecordAt
<1>4. LineStart(file, p) => LineStart(file', p)
  BY <1>1, <1>2 DEF LineStart
<1> QED BY <1>1, <1>2, <1>3, <1>4

\* A new record is chained to last_hash.
LEMMA BeginStep == IInv /\ TypeOK' /\ BeginAppend => IInv'
<1> SUFFICES ASSUME IInv, TypeOK', BeginAppend PROVE IInv'
  OBVIOUS
<1>1. /\ cur' \in Record /\ cur'.prev = lastHash /\ cur'.id = next
      /\ Flushed \in Seq(Piece(Record)) /\ file' = file
      /\ afterBreak \subseteq afterBreak'
  BY DEF BeginAppend, IInv, TypeOK, Flushed, Record, Id, Genesis
<1>2. Flushed' = Flushed \o Text(cur')
  <2>1. Text(cur') \in Seq(Piece(Record))
    BY <1>1 DEF Text, Piece
  <2>2. buf' = buf \o Text(cur')
    BY DEF BeginAppend
  <2>3. file \in Seq(Piece(Record)) /\ buf \in Seq(Piece(Record))
    BY DEF IInv, TypeOK
  <2>4. file \o (buf \o Text(cur')) = (file \o buf) \o Text(cur')
    <3> DEFINE t == Text(cur')
    <3>1. t \in Seq(Piece(Record))
      BY <2>1
    <3> HIDE DEF t
    <3>2. file \o (buf \o t) = (file \o buf) \o t
      BY <2>3, <3>1, ConcatAssociative
    <3> QED BY <3>2 DEF t
  <2> QED BY <1>1, <2>2, <2>4 DEF Flushed
<1>3. EndsWith(Flushed, lastHash) \/ cur'.id \in afterBreak'
  <2>1. CASE broken
    BY <2>1, <1>1 DEF BeginAppend
  <2>2. CASE ~ broken
    <3>1. buf = << >> /\ EndsWith(file, lastHash)
      BY <2>2 DEF BeginAppend, IInv, TipInv
    <3>2. Flushed = file
      BY <3>1 DEF Flushed, IInv, TypeOK
    <3> QED BY <3>1, <3>2
  <2> QED BY <2>1, <2>2
<1>4. Linked(Flushed, afterBreak')
  BY <1>1, LinkedPrefix DEF IInv, Prefix
<1>5. Linked(Flushed', afterBreak') /\ EndsWithText(Flushed', cur', afterBreak')
  BY <1>1, <1>2, <1>3, <1>4, LinkedText
<1>6. AckedDurable'
  BY <1>1, DurableGrows DEF Prefix, IInv, BeginAppend, TypeOK
<1> QED BY <1>5, <1>6 DEF BeginAppend, IInv, AppendInv, TipInv

\* A write to the file moves a piece out of the buffer.
LEMMA WriteOutStep == IInv /\ TypeOK' /\ WriteOut => IInv'
<1> SUFFICES ASSUME IInv, TypeOK', WriteOut PROVE IInv'
  OBVIOUS
<1>1. file \in Seq(Piece(Record)) /\ buf \in Seq(Piece(Record))
  BY DEF IInv, TypeOK
<1>2. Flushed' = Flushed
  BY <1>1, MovePiece DEF WriteOut, Flushed
<1>3. Prefix(file, file')
  BY <1>1 DEF WriteOut, Prefix
<1>4. AckedDurable'
  BY <1>3, DurableGrows DEF IInv, WriteOut, history
<1> QED BY <1>2, <1>4 DEF WriteOut, IInv, AppendInv, TipInv, history

\* An error or the end of the process: the file stays, the buffer is cut.
LEMMA CutStep ==
  ASSUME IInv, TypeOK', file' = file, NEW n \in 0..Len(buf), buf' = SubSeq(buf, 1, n),
         UNCHANGED <<acked, afterBreak>>
  PROVE  Linked(Flushed', afterBreak') /\ AckedDurable'
<1>1. file \in Seq(Piece(Record)) /\ buf \in Seq(Piece(Record))
  BY DEF IInv, TypeOK
<1>2. /\ Flushed' \in Seq(Piece(Record)) /\ Flushed \in Seq(Piece(Record))
      /\ Prefix(Flushed', Flushed)
  BY <1>1, CutPrefix DEF Flushed
<1>3. Linked(Flushed', afterBreak')
  BY <1>2, LinkedPrefix DEF IInv
<1>4. AckedDurable'
  BY <1>1, DurableGrows DEF IInv, Prefix
<1> QED BY <1>3, <1>4

\* A failed write drops the end of the buffer.
LEMMA WriteErrorStep == IInv /\ TypeOK' /\ WriteError => IInv'
<1> SUFFICES ASSUME IInv, TypeOK', WriteError PROVE IInv'
  OBVIOUS
<1>1. PICK lost \in 0..3 : /\ lost = 1 => Len(buf) >= 2
                           /\ lost = 2 => Len(buf) = 2
                           /\ lost = 3 => Len(buf) >= 3
                           /\ buf' = SubSeq(buf, 1, Len(buf) - lost)
  BY DEF WriteError
<1>2. Len(buf) \in Nat
  BY DEF IInv, TypeOK
<1>3. Len(buf) - lost \in 0..Len(buf)
  <2> DEFINE n == Len(buf)
  <2>1. n \in Nat /\ lost \in 0..3 /\ n # 0
    BY <1>2, EmptySeq DEF WriteError, IInv, TypeOK
  <2>2. (lost = 1 => n >= 2) /\ (lost = 2 => n = 2) /\ (lost = 3 => n >= 3)
    BY <1>1
  <2> HIDE DEF n
  <2>3. n - lost \in 0..n
    BY <2>1, <2>2
  <2> QED BY <2>3 DEF n
<1>4. Linked(Flushed', afterBreak') /\ AckedDurable'
  BY <1>1, <1>3, CutStep DEF WriteError
<1> QED BY <1>4 DEF WriteError, IInv, AppendInv, TipInv

\* The end of the process drops the buffer.
LEMMA ProcessEndStep == IInv /\ TypeOK' /\ (Stop \/ Crash) => IInv'
<1> SUFFICES ASSUME IInv, TypeOK', Stop \/ Crash PROVE IInv'
  OBVIOUS
<1>1. buf \in Seq(Piece(Record)) /\ 0 \in 0..Len(buf) /\ buf' = SubSeq(buf, 1, 0)
  BY DEF IInv, TypeOK, Stop, Crash
<1>2. Linked(Flushed', afterBreak') /\ AckedDurable'
  BY <1>1, CutStep DEF Stop, Crash
<1>3. TipInv'
  BY DEF Stop, Crash, IInv, TipInv
<1> QED BY <1>2, <1>3 DEF Stop, Crash, IInv, AppendInv

\* The steps that leave the log and its records alone.
LEMMA QuietStep ==
  ASSUME IInv, TypeOK', UNCHANGED <<file, buf, acked, afterBreak>>
  PROVE  /\ Linked(Flushed', afterBreak') /\ AckedDurable' /\ Flushed' = Flushed
         /\ buf = << >> => Flushed = file
BY DEF IInv, TypeOK, Flushed, AckedDurable

\* The steps of append after its flush.
LEMMA AppendStep ==
  IInv /\ TypeOK' /\ (UpdateHash \/ TruncateCheckpoint) => IInv'
BY QuietStep DEF UpdateHash, TruncateCheckpoint, history, IInv, AppendInv, TipInv

\* The errors of append after its flush.
LEMMA AppendErrorStep ==
  IInv /\ TypeOK' /\ (CheckpointOpenError \/ CheckpointWriteError) => IInv'
<1> SUFFICES ASSUME IInv, TypeOK', CheckpointOpenError \/ CheckpointWriteError PROVE IInv'
  OBVIOUS
<1>1. EndsWith(file, lastHash) /\ buf = << >>
  BY QuietStep, TextEnds
     DEF CheckpointOpenError, CheckpointWriteError, history, IInv, AppendInv
<1> QED BY <1>1, QuietStep
           DEF CheckpointOpenError, CheckpointWriteError, history, IInv, AppendInv, TipInv

\* append returns Ok: its record is in the file.
LEMMA WriteCheckpointStep == IInv /\ TypeOK' /\ WriteCheckpoint => IInv'
<1> SUFFICES ASSUME IInv, TypeOK', WriteCheckpoint PROVE IInv'
  OBVIOUS
<1>1. /\ file \in Seq(Piece(Record)) /\ buf = << >> /\ Flushed = file
      /\ Flushed' = Flushed /\ lastHash = cur.id
      /\ EndsWithText(file, cur, afterBreak)
  BY DEF WriteCheckpoint, IInv, AppendInv, Flushed, TypeOK
<1>2. \E p \in 1..Len(file) : /\ RecordAt(file, p) /\ file[p].rec.id = cur.id
                              /\ cur.id \notin afterBreak => LineStart(file, p)
  <2>1. Len(file) - 2 \in 1..Len(file) /\ Len(file) - 2 + 1 = Len(file) - 1
    BY <1>1 DEF EndsWithText
  <2>2. RecordAt(file, Len(file) - 2) /\ file[Len(file) - 2].rec.id = cur.id
    BY <1>1, <2>1 DEF EndsWithText, RecordAt
  <2> QED BY <1>1, <2>1, <2>2 DEF EndsWithText
<1>3. AckedDurable'
  BY <1>2 DEF WriteCheckpoint, IInv, AckedDurable
<1>4. EndsWith(file, lastHash)
  BY <1>1, TextEnds
<1> QED BY <1>1, <1>3, <1>4 DEF WriteCheckpoint, IInv, AppendInv, TipInv

\* open resumes from the checkpoint.
LEMMA OpenStep == IInv /\ TypeOK' /\ Open => IInv'
BY QuietStep DEF Open, history, IInv, AppendInv, TipInv

\* Every step keeps the invariant.
LEMMA NextIInv == IInv /\ [Next]_vars => IInv'
<1> SUFFICES ASSUME IInv, [Next]_vars PROVE IInv'
  OBVIOUS
<1>1. TypeOK'
  BY TypeCorrect DEF IInv
<1>2. CASE UNCHANGED vars
  BY <1>1, <1>2, QuietStep DEF vars, IInv, AppendInv, TipInv
<1>3. CASE Next
  BY <1>1, <1>3, BeginStep, WriteOutStep, WriteErrorStep, ProcessEndStep, AppendStep,
     AppendErrorStep, WriteCheckpointStep, OpenStep DEF Next
<1> QED BY <1>2, <1>3

\* A record that verify_chain would report is linked to by no unbroken append.
LEMMA LinkedExplains == IInv => ViolationsExplained
<1> SUFFICES ASSUME IInv, NEW p \in 1..Len(file), Violation(file, p)
             PROVE  file[p].rec.id \in afterBreak
  BY DEF ViolationsExplained
<1>1. /\ file \in Seq(Piece(Record)) /\ buf \in Seq(Piece(Record))
      /\ Flushed \in Seq(Piece(Record)) /\ Prefix(file, Flushed)
  BY CutPrefix DEF IInv, TypeOK, Flushed, Prefix
<1>2. Linked(file, afterBreak)
  BY <1>1, LinkedPrefix DEF IInv
<1>3. CASE p = 1
  BY <1>2, <1>3 DEF Linked, Violation, RecordLine
<1>4. CASE p # 1
  <2>1. p - 3 \in 1..Len(file) /\ (p - 3) + 3 = p
    BY <1>1, <1>4 DEF Violation
  <2>2. /\ RecordAt(file, p - 3) /\ LineStart(file, p) /\ RecordAt(file, p)
        /\ file[p].rec.prev # file[p - 3].rec.id
    BY <1>4 DEF Violation, RecordLine
  <2> QED BY <1>2, <2>1, <2>2 DEF Linked
<1> QED BY <1>3, <1>4

\* The inductive invariant of FileActionLog.
THEOREM IInvHolds == Spec => []IInv
<1> QED BY InitIInv, NextIInv, PTL DEF Spec

\* The variables of the log have their types.
THEOREM TypeInvariant == Spec => []TypeOK
BY IInvHolds, PTL DEF IInv

\* verify_chain, whenever it looks, reports no record but one that was appended
\* right after an append had been cut short.
THEOREM ChainTheorem == Spec => []ViolationsExplained
BY IInvHolds, LinkedExplains, PTL

\* An acknowledged record is in the file for good.
THEOREM DurabilityTheorem == Spec => []AckedDurable
BY IInvHolds, PTL DEF IInv

------------------------------------------------------------------------------
(* The number of violations *)

\* The ids in s are below n, and no two records have the same.
Distinct(s, n) ==
  /\ \A p \in 1..Len(s) : s[p].rec.id \in Nat /\ s[p].rec.id < n
  /\ \A p, q \in 1..Len(s) : RecordAt(s, p) /\ RecordAt(s, q) /\ s[p].rec.id = s[q].rec.id => p = q

\* Ids that had to be excused, and whether one more will have to be: an append was
\* cut short, or one returned an error that left the checkpoint behind and the next
\* restart will believe it.
Debt == IF broken \/ (pc = "idle" /\ checkpoint # lastHash) THEN 1 ELSE 0

CountInv == /\ IsFiniteSet(afterBreak) /\ Cardinality(afterBreak) + Debt <= crashes + faults
            /\ Distinct(Flushed, next)

LEMMA DistinctPrefix ==
  ASSUME NEW X, NEW s \in Seq(X), NEW t \in Seq(X), NEW n \in Nat, Prefix(t, s), Distinct(s, n)
  PROVE  Distinct(t, n)
<1>1. \A p \in 1..Len(t) : p \in 1..Len(s) /\ t[p] = s[p]
  BY DEF Prefix
<1>2. \A p : RecordAt(t, p) => RecordAt(s, p)
  BY <1>1 DEF RecordAt
<1> QED BY <1>1, <1>2 DEF Distinct

\* A new record has an id of its own.
LEMMA DistinctText ==
  ASSUME NEW X, NEW s \in Seq(Piece(X)), NEW r \in X, NEW n \in Nat, Distinct(s, n), r.id = n
  PROVE  Distinct(s \o Text(r), n + 1)
<1> DEFINE u == s \o Text(r)
           l == Len(s)
<1>1. /\ Text(r) \in Seq(Piece(X)) /\ Len(Text(r)) = 3
      /\ Text(r)[1] = [rec |-> r, part |-> "head"]
      /\ Text(r)[2] = [rec |-> r, part |-> "tail"]
      /\ Text(r)[3] = [rec |-> r, part |-> "nl"]
  BY DEF Text, Piece
<1>2. /\ u \in Seq(Piece(X)) /\ Len(u) = l + 3 /\ l \in Nat
      /\ \A i \in 1..l : u[i] = s[i]
      /\ u[l + 1] = Text(r)[1] /\ u[l + 2] = Text(r)[2] /\ u[l + 3] = Text(r)[3]
  BY <1>1, AppendThree
<1> HIDE DEF u
<1>3. \A p : RecordAt(u, p) => RecordAt(s, p) \/ p = l + 1
  BY <1>1, <1>2 DEF RecordAt
<1>4. ASSUME NEW p \in 1..Len(u) PROVE u[p].rec.id \in Nat /\ u[p].rec.id < n + 1
  <2>1. CASE p \in 1..l
    BY <1>2, <2>1 DEF Distinct
  <2>2. CASE p \in {l + 1, l + 2, l + 3}
    <3>1. u[p].rec = r
      BY <1>1, <1>2, <2>2
    <3> QED BY <3>1
  <2> QED BY <1>2, <2>1, <2>2
<1>5. ASSUME NEW p \in 1..Len(u), NEW q \in 1..Len(u), RecordAt(u, p), RecordAt(u, q),
             u[p].rec.id = u[q].rec.id
      PROVE  p = q
  <2>1. \A i : RecordAt(s, i) => i \in 1..l /\ u[i] = s[i] /\ s[i].rec.id \in Nat /\ s[i].rec.id < n
    BY <1>2 DEF RecordAt, Distinct
  <2>2. u[l + 1].rec.id = n
    BY <1>1, <1>2
  <2>3. CASE RecordAt(s, p) /\ RecordAt(s, q)
    BY <1>5, <2>1, <2>3 DEF Distinct
  <2>4. CASE RecordAt(s, p) /\ q = l + 1
    <3>1. s[p].rec.id = n
      BY <1>5, <2>1, <2>2, <2>4
    <3> QED BY <2>1, <2>4, <3>1
  <2>5. CASE p = l + 1 /\ RecordAt(s, q)
    <3>1. s[q].rec.id = n
      BY <1>5, <2>1, <2>2, <2>5
    <3> QED BY <2>1, <2>5, <3>1
  <2> QED BY <1>3, <1>5, <2>3, <2>4, <2>5
<1> QED BY <1>4, <1>5 DEF Distinct, u

\* What the log will be once flushed is left alone, extended by a new record or cut.
LEMMA FlushedStep ==
  ASSUME IInv, TypeOK', [Next]_vars
  PROVE  /\ Flushed \in Seq(Piece(Record)) /\ Flushed' \in Seq(Piece(Record))
         /\ \/ BeginAppend /\ Flushed' = Flushed \o Text(cur') /\ cur' \in Record /\ cur'.id = next
            \/ ~ BeginAppend /\ Prefix(Flushed', Flushed) /\ next' = next
<1>1. /\ file \in Seq(Piece(Record)) /\ buf \in Seq(Piece(Record))
      /\ file' \in Seq(Piece(Record)) /\ buf' \in Seq(Piece(Record))
      /\ Flushed \in Seq(Piece(Record)) /\ Flushed' \in Seq(Piece(Record))
  BY DEF IInv, TypeOK, Flushed
<1>2. CASE BeginAppend
  <2>1. cur' \in Record /\ cur'.id = next /\ file' = file /\ buf' = buf \o Text(cur')
    BY <1>2 DEF BeginAppend, IInv, TypeOK, Record, Id, Genesis
  <2> DEFINE t == Text(cur')
  <2>2. t \in Seq(Piece(Record))
    BY <2>1 DEF Text, Piece
  <2> HIDE DEF t
  <2>3. file \in Seq(Piece(Record)) /\ buf \in Seq(Piece(Record))
    BY <1>1
  <2>4. file \o (buf \o t) = (file \o buf) \o t
    BY <2>2, <2>3, ConcatAssociative
  <2> QED BY <1>1, <1>2, <2>1, <2>4 DEF Flushed, t
<1>3. CASE WriteOut
  BY <1>1, <1>3, MovePiece DEF WriteOut, Flushed, Prefix, BeginAppend
<1>4. CASE WriteError
  <2>1. PICK lost \in 0..3 : /\ lost = 1 => Len(buf) >= 2
                             /\ lost = 2 => Len(buf) = 2
                             /\ lost = 3 => Len(buf) >= 3
                             /\ buf' = SubSeq(buf, 1, Len(buf) - lost)
    BY <1>4 DEF WriteError
  <2>2. Len(buf) \in Nat /\ Len(buf) # 0
    BY <1>1, <1>4, EmptySeq DEF WriteError
  <2> DEFINE b == Len(buf)
  <2>3. (lost = 1 => b >= 2) /\ (lost = 2 => b = 2) /\ (lost = 3 => b >= 3) /\ b \in Nat /\ b # 0
    BY <2>1, <2>2
  <2> HIDE DEF b
  <2>4. b - lost \in 0..b
    BY <2>3
  <2>5. file' = file /\ buf' = SubSeq(buf, 1, b - lost) /\ next' = next /\ pc = "flush"
    BY <1>4, <2>1 DEF WriteError, b
  <2>6. Prefix(Flushed', Flushed)
    BY <1>1, <2>4, <2>5, CutPrefix DEF Flushed, b
  <2> QED BY <1>1, <2>5, <2>6 DEF BeginAppend
<1>5. CASE Stop \/ Crash
  <2>1. file' = file /\ buf' = SubSeq(buf, 1, 0) /\ 0 \in 0..Len(buf) /\ next' = next
    BY <1>1, <1>5 DEF Stop, Crash
  <2>2. Prefix(Flushed', Flushed)
    BY <1>1, <2>1, CutPrefix DEF Flushed
  <2>3. ~ BeginAppend
    BY <1>5, <2>1 DEF Stop, Crash, BeginAppend, IInv, TypeOK
  <2> QED BY <1>1, <2>1, <2>2, <2>3
<1>6. CASE UNCHANGED <<file, buf, next>>
  <2>1. Prefix(Flushed', Flushed)
    BY <1>1, <1>6 DEF Flushed, Prefix
  <2>2. ~ BeginAppend
    BY <1>6 DEF BeginAppend, IInv, TypeOK
  <2> QED BY <1>1, <1>6, <2>1, <2>2
<1> QED
  BY <1>2, <1>3, <1>4, <1>5, <1>6
     DEF Next, vars, UpdateHash, CheckpointOpenError, TruncateCheckpoint, CheckpointWriteError,
         WriteCheckpoint, Open

LEMMA CountStep == IInv /\ CountInv /\ [Next]_vars => CountInv'
<1> SUFFICES ASSUME IInv, CountInv, [Next]_vars PROVE CountInv'
  OBVIOUS
<1>0. TypeOK /\ TypeOK'
  BY TypeCorrect DEF IInv
<1>1. Distinct(Flushed', next')
  <2>0. next \in Nat /\ (BeginAppend => next' = next + 1) /\ Distinct(Flushed, next)
    BY <1>0, BoundsAssumption DEF TypeOK, BeginAppend, CountInv
  <2>1. /\ next \in Nat /\ (BeginAppend => next' = next + 1) /\ Distinct(Flushed, next)
        /\ Flushed \in Seq(Piece(Record)) /\ Flushed' \in Seq(Piece(Record))
    BY <1>0, <2>0, FlushedStep
  <2>2. CASE Flushed' = Flushed \o Text(cur') /\ cur' \in Record /\ cur'.id = next /\ BeginAppend
    <3>1. Distinct(Flushed \o Text(cur'), next + 1)
      BY <2>1, <2>2, DistinctText
    <3> QED BY <2>1, <2>2, <3>1
  <2>3. CASE Prefix(Flushed', Flushed) /\ next' = next
    <3>1. Distinct(Flushed', next)
      BY <2>1, <2>3, DistinctPrefix
    <3> QED BY <2>3, <3>1
  <2> QED BY <1>0, <2>2, <2>3, FlushedStep
<1>2. Cardinality(afterBreak) \in Nat /\ crashes \in Nat /\ faults \in Nat
  BY <1>0, FS_CardinalityType, BoundsAssumption DEF CountInv, TypeOK
<1>3. CASE BeginAppend
  <2>1. CASE broken
    <3>1. /\ IsFiniteSet(afterBreak') /\ Cardinality(afterBreak') <= Cardinality(afterBreak) + 1
          /\ Cardinality(afterBreak') \in Nat
      <4>1. afterBreak' = afterBreak \cup {next} /\ IsFiniteSet(afterBreak)
        BY <1>3, <2>1 DEF BeginAppend, CountInv
      <4>2. /\ IsFiniteSet(afterBreak')
            /\ Cardinality(afterBreak') \in {Cardinality(afterBreak), Cardinality(afterBreak) + 1}
        BY <4>1, FS_AddElement, Zenon
      <4> QED BY <1>2, <4>2
    <3> QED BY <1>1, <1>2, <1>3, <2>1, <3>1 DEF BeginAppend, CountInv, Debt
  <2>2. CASE ~ broken
    BY <1>1, <1>2, <1>3, <2>2 DEF BeginAppend, CountInv, Debt
  <2> QED BY <2>1, <2>2
<1>4. CASE WriteError \/ CheckpointOpenError \/ CheckpointWriteError \/ Crash
  <2>1. /\ ~ broken /\ pc # "idle" /\ UNCHANGED afterBreak
        /\ crashes' + faults' = crashes + faults + 1
    <3>1. /\ pc \in {"flush", "hashed", "truncated"} /\ UNCHANGED afterBreak
          /\ \/ crashes' = crashes + 1 /\ faults' = faults
             \/ crashes' = crashes /\ faults' = faults + 1
      BY <1>4 DEF WriteError, CheckpointOpenError, CheckpointWriteError, Crash, history
    <3> QED BY <1>2, <3>1 DEF IInv, AppendInv
  <2> QED BY <1>1, <1>2, <2>1 DEF CountInv, Debt
<1>5. CASE WriteOut \/ UpdateHash \/ TruncateCheckpoint \/ WriteCheckpoint \/ Stop \/ Open
           \/ UNCHANGED vars
  <2>1. UNCHANGED <<afterBreak, crashes, faults>>
    BY <1>5 DEF WriteOut, UpdateHash, TruncateCheckpoint, WriteCheckpoint, Stop, Open, vars, history
  <2>2. Debt' <= Debt
    <3>1. CASE pc' # "idle" /\ (broken' => broken)
      BY <1>0, <3>1 DEF Debt, TypeOK
    <3>2. CASE Stop
      <4>1. /\ pc = "idle" /\ pc' # "idle"
            /\ broken' = TRUE => broken \/ checkpoint # lastHash
        BY <3>2 DEF Stop
      <4> QED BY <1>0, <4>1 DEF Debt, TypeOK
    <3>3. CASE (broken' => broken) /\ checkpoint' = lastHash'
      BY <1>0, <3>3 DEF Debt, TypeOK
    <3>4. CASE UNCHANGED <<broken, pc, checkpoint, lastHash>>
      BY <3>4 DEF Debt
    <3> QED BY <1>5, <3>1, <3>2, <3>3, <3>4
               DEF WriteOut, UpdateHash, TruncateCheckpoint, WriteCheckpoint, Open, vars, history
  <2>3. Debt \in Nat /\ Debt' \in Nat
    BY DEF Debt
  <2> QED BY <1>1, <1>2, <2>1, <2>2, <2>3 DEF CountInv
<1> QED BY <1>3, <1>4, <1>5 DEF Next

\* Each record that verify_chain reports is excused by an id of its own.
LEMMA CountBounds == IInv /\ CountInv => ViolationsBounded
<1> SUFFICES ASSUME IInv, CountInv PROVE ViolationsBounded
  OBVIOUS
<1> DEFINE V == {p \in 1..Len(file) : Violation(file, p)}
           f == [p \in V |-> file[p].rec.id]
<1>1. Distinct(file, next)
  <2>1. /\ file \in Seq(Piece(Record)) /\ Flushed \in Seq(Piece(Record)) /\ Prefix(file, Flushed)
        /\ next \in Nat
    BY CutPrefix, BoundsAssumption DEF IInv, TypeOK, Flushed, Prefix
  <2> QED BY <2>1, DistinctPrefix DEF CountInv
<1>2. \A p \in V : file[p].rec.id \in afterBreak /\ RecordAt(file, p)
  BY LinkedExplains DEF ViolationsExplained, Violation, RecordLine
<1>3. f \in Injection(V, afterBreak)
  <2>1. f \in [V -> afterBreak]
    BY <1>2
  <2>2. \A p, q \in V : f[p] = f[q] => p = q
    BY <1>1, <1>2 DEF Distinct
  <2> QED BY <2>1, <2>2 DEF Injection, IsInjective
<1>4. IsFiniteSet(V) /\ Cardinality(V) <= Cardinality(afterBreak)
  <2> HIDE DEF V, f
  <2> QED BY <1>3, FS_Injection DEF CountInv
<1>5. /\ Cardinality(V) \in Nat /\ Cardinality(afterBreak) \in Nat
      /\ crashes \in Nat /\ faults \in Nat /\ Debt \in Nat
  BY <1>4, FS_CardinalityType, BoundsAssumption DEF CountInv, IInv, TypeOK, Debt
<1>6. Cardinality(V) <= crashes + faults
  BY <1>4, <1>5 DEF CountInv
<1> QED BY <1>6 DEF ViolationsBounded

\* verify_chain reports at most one record for each crash and each I/O error.
THEOREM BoundTheorem == Spec => []ViolationsBounded
<1>1. Init => CountInv
  BY FS_EmptySet DEF Init, CountInv, Debt, Distinct, Flushed
<1> QED BY <1>1, CountStep, CountBounds, IInvHolds, PTL DEF Spec

------------------------------------------------------------------------------
(* The audit chain *)

\* s is n records with their newlines, each of which names the one before it.
Whole(s, n) ==
  /\ Len(s) = 3 * n
  /\ \A k \in 1..n : /\ RecordAt(s, 3 * k - 2) /\ s[3 * k].part = "nl"
                     /\ s[3 * k - 2].rec.prev = IF k = 1 THEN Genesis ELSE s[3 * k - 5].rec.id

Intact == crashes + faults = 0

ShapeInv == Intact => /\ \E n \in Nat : Whole(Flushed, n)
                      /\ IF pc = "flush" THEN Len(buf) <= 3 ELSE buf = << >>

\* The records of the chain: those whose text is in the file, if not their newline.
Records == [k \in 1..((Len(file) + 1) \div 3) |-> file[3 * k - 2].rec]

LEMMA Thirds == ASSUME NEW n \in Nat, NEW b \in 0..3, b <= 3 * n
                PROVE  ((3 * n - b) + 1) \div 3 = IF b < 2 THEN n ELSE n - 1
<1>1. b = 0 \/ b = 1 \/ b = 2 \/ b = 3
  OBVIOUS
<1> QED BY <1>1

LEMMA OneToThree == ASSUME NEW b \in Nat, b # 0, b <= 3 PROVE b \in 1..3
OBVIOUS

LEMMA SumPositive == ASSUME NEW a \in Nat, NEW b \in Nat, a + b # 0 PROVE a + b > 0
OBVIOUS

\* Until the first failure no append was cut short.
LEMMA NothingBroken == ASSUME IInv, CountInv, Intact PROVE ~ broken
<1>1. Cardinality(afterBreak) \in Nat /\ crashes \in Nat /\ faults \in Nat
  BY FS_CardinalityType, BoundsAssumption DEF CountInv, IInv, TypeOK
<1>2. Cardinality(afterBreak) + Debt <= 0
  BY <1>1 DEF CountInv, Intact
<1> QED BY <1>1, <1>2 DEF Debt

\* A step fails or leaves the number of failures alone.
LEMMA IntactBefore ==
  ASSUME IInv, [Next]_vars, Intact'
  PROVE  Intact /\ ~ (WriteError \/ CheckpointOpenError \/ CheckpointWriteError \/ Crash)
<1>1. crashes \in Nat /\ faults \in Nat
  BY BoundsAssumption DEF IInv, TypeOK
<1>2. \/ UNCHANGED <<crashes, faults>>
      \/ crashes' = crashes + 1 /\ faults' = faults
      \/ crashes' = crashes /\ faults' = faults + 1
  BY DEF Next, vars, BeginAppend, WriteOut, WriteError, UpdateHash, CheckpointOpenError,
         TruncateCheckpoint, CheckpointWriteError, WriteCheckpoint, Stop, Crash, Open
<1>3. Intact
  BY <1>1, <1>2 DEF Intact
<1>4. ~ (WriteError \/ CheckpointOpenError \/ CheckpointWriteError \/ Crash)
  BY <1>1, <1>3 DEF Intact, WriteError, CheckpointOpenError, CheckpointWriteError, Crash
<1> QED BY <1>3, <1>4

\* A record that names the last one makes a whole log a whole one.
LEMMA WholeText ==
  ASSUME NEW X, NEW s \in Seq(Piece(X)), NEW r \in X, NEW n \in Nat, Whole(s, n),
         EndsWith(s, r.prev)
  PROVE  Whole(s \o Text(r), n + 1)
<1> DEFINE u == s \o Text(r)
           l == Len(s)
<1>1. /\ Text(r) \in Seq(Piece(X)) /\ Len(Text(r)) = 3
      /\ Text(r)[1] = [rec |-> r, part |-> "head"]
      /\ Text(r)[2] = [rec |-> r, part |-> "tail"]
      /\ Text(r)[3] = [rec |-> r, part |-> "nl"]
  BY DEF Text, Piece
<1>2. /\ u \in Seq(Piece(X)) /\ Len(u) = l + 3 /\ l \in Nat /\ l = 3 * n
      /\ \A i \in 1..l : u[i] = s[i]
      /\ u[l + 1] = Text(r)[1] /\ u[l + 2] = Text(r)[2] /\ u[l + 3] = Text(r)[3]
  <2>1. l = 3 * n
    BY DEF Whole
  <2>2. /\ u \in Seq(Piece(X)) /\ Len(u) = l + 3 /\ l \in Nat
        /\ \A i \in 1..l : u[i] = s[i]
        /\ u[l + 1] = Text(r)[1] /\ u[l + 2] = Text(r)[2] /\ u[l + 3] = Text(r)[3]
    BY <1>1, AppendThree
  <2> QED BY <2>1, <2>2
<1> HIDE DEF u
<1>3. Len(u) = 3 * (n + 1)
  BY <1>2
<1>4. ASSUME NEW k \in 1..(n + 1)
      PROVE  /\ RecordAt(u, 3 * k - 2) /\ u[3 * k].part = "nl"
             /\ u[3 * k - 2].rec.prev = IF k = 1 THEN Genesis ELSE u[3 * k - 5].rec.id
  <2>1. CASE k \in 1..n
    <3>1. /\ RecordAt(s, 3 * k - 2) /\ s[3 * k].part = "nl"
          /\ s[3 * k - 2].rec.prev = IF k = 1 THEN Genesis ELSE s[3 * k - 5].rec.id
      BY <2>1 DEF Whole
    <3>2. 3 * k - 2 \in 1..l /\ 3 * k - 1 \in 1..l /\ 3 * k \in 1..l /\ (k # 1 => 3 * k - 5 \in 1..l)
          /\ (3 * k - 2) + 1 = 3 * k - 1
      BY <1>2, <2>1
    <3> QED BY <1>2, <3>1, <3>2 DEF RecordAt
  <2>2. CASE k = n + 1
    <3>1. /\ 3 * k - 2 = l + 1 /\ (3 * k - 2) + 1 = l + 2 /\ 3 * k - 5 = l - 2 /\ 3 * k = l + 3
          /\ l + 1 \in 1..Len(u) /\ l + 2 \in 1..Len(u)
      BY <1>2, <2>2
    <3>2. RecordAt(u, l + 1) /\ u[l + 1].rec = r /\ u[3 * k].part = "nl"
      BY <1>1, <1>2, <3>1 DEF RecordAt
    <3>3. CASE n = 0
      BY <1>2, <2>2, <3>1, <3>2, <3>3 DEF EndsWith
    <3>4. CASE n # 0
      <4>1. n \in 1..n /\ 3 * n - 2 = l - 2 /\ (l - 2) + 1 = l - 1 /\ l - 2 \in 1..l
        BY <1>2, <3>4
      <4>2. RecordAt(s, l - 2) /\ s[l - 1].rec.id = r.prev
        BY <1>2, <3>4, <4>1 DEF Whole, EndsWith
      <4>3. s[l - 2].rec = s[l - 1].rec
        BY <4>1, <4>2 DEF RecordAt
      <4>4. u[l - 2] = s[l - 2] /\ k # 1
        BY <1>2, <2>2, <3>4, <4>1
      <4> QED BY <3>1, <3>2, <4>2, <4>3, <4>4
    <3> QED BY <3>3, <3>4
  <2> QED BY <2>1, <2>2
<1> QED BY <1>3, <1>4 DEF Whole, u

LEMMA ShapeStep == IInv /\ CountInv /\ ShapeInv /\ [Next]_vars => ShapeInv'
<1> SUFFICES ASSUME IInv, CountInv, ShapeInv, [Next]_vars, Intact'
             PROVE  /\ \E n \in Nat : Whole(Flushed', n)
                    /\ IF pc' = "flush" THEN Len(buf') <= 3 ELSE buf' = << >>
  BY DEF ShapeInv
<1>0. /\ TypeOK' /\ Intact /\ ~ broken
      /\ ~ (WriteError \/ CheckpointOpenError \/ CheckpointWriteError \/ Crash)
      /\ file \in Seq(Piece(Record)) /\ buf \in Seq(Piece(Record))
  BY TypeCorrect, IntactBefore, NothingBroken DEF IInv, TypeOK
<1>1. PICK n \in Nat : Whole(Flushed, n)
  BY <1>0 DEF ShapeInv
<1>2. IF pc = "flush" THEN Len(buf) <= 3 ELSE buf = << >>
  BY <1>0 DEF ShapeInv
<1>3. CASE BeginAppend
  <2>1. /\ Flushed' = Flushed \o Text(cur') /\ cur' \in Record /\ Flushed \in Seq(Piece(Record))
    BY <1>0, <1>3, FlushedStep
  <2>2. cur'.prev = lastHash /\ pc = "idle" /\ pc' = "flush" /\ buf' = buf \o Text(cur')
    BY <1>3 DEF BeginAppend
  <2>3. EndsWith(Flushed, cur'.prev)
    <3>1. buf = << >> /\ EndsWith(file, lastHash)
      BY <1>0, <2>2 DEF IInv, TipInv
    <3>2. Flushed = file
      BY <1>0, <3>1 DEF Flushed
    <3> QED BY <2>2, <3>1, <3>2
  <2>4. Whole(Flushed', n + 1)
    BY <1>1, <2>1, <2>3, WholeText
  <2>5. Len(buf') = 3
    BY <1>2, <2>2 DEF Text
  <2> QED BY <2>2, <2>4, <2>5
<1>4. CASE WriteOut
  <2>1. Flushed' = Flushed /\ pc' = "flush" /\ pc = "flush" /\ Len(buf') = Len(buf) - 1
    BY <1>0, <1>4, MovePiece DEF WriteOut, Flushed
  <2>2. Len(buf) \in Nat
    BY <1>0
  <2> QED BY <1>1, <1>2, <2>1, <2>2
<1>5. CASE /\ file' = file /\ buf' = buf /\ buf = << >> /\ pc' # "flush"
  BY <1>1, <1>5 DEF Flushed
<1>6. CASE UNCHANGED vars
  BY <1>1, <1>2, <1>6 DEF vars, Flushed
<1> QED
  BY <1>0, <1>2, <1>3, <1>4, <1>5, <1>6
     DEF Next, UpdateHash, TruncateCheckpoint, WriteCheckpoint, Stop, Open

\* The piece that completes a record's text extends the chain by that record.
LEMMA WriteOutExtends ==
  ASSUME IInv, CountInv, ShapeInv, Intact, WriteOut
  PROVE  \/ Records' = Records
         \/ \E r \in Record :
              /\ Records' = Append(Records, r)
              /\ r.prev = IF Records = << >> THEN Genesis ELSE Records[Len(Records)].id
              /\ \A i \in 1..Len(Records) : Records[i].id # r.id
<1> DEFINE b == Len(buf)
           s == Flushed
<1>0. /\ file \in Seq(Piece(Record)) /\ buf \in Seq(Piece(Record)) /\ b \in Nat
      /\ b \in 1..3 /\ s \in Seq(Piece(Record)) /\ Len(s) = Len(file) + b
  <2>1. file \in Seq(Piece(Record)) /\ buf \in Seq(Piece(Record))
    BY DEF IInv, TypeOK
  <2>2. Len(buf) <= 3 /\ buf # << >>
    BY DEF ShapeInv, WriteOut
  <2>3. Len(buf) \in Nat /\ Len(buf) # 0
    BY <2>1, <2>2
  <2>4. (file \o buf) \in Seq(Piece(Record)) /\ Len(file \o buf) = Len(file) + Len(buf)
    BY <2>1
  <2>5. b \in 1..3 /\ b \in Nat
    BY <2>2, <2>3, OneToThree
  <2>6. s \in Seq(Piece(Record)) /\ Len(s) = Len(file) + b
    BY <2>4 DEF Flushed
  <2> QED BY <2>1, <2>5, <2>6
<1>1. PICK n \in Nat : Whole(s, n)
  BY DEF ShapeInv
<1>2. /\ Len(file) = 3 * n - b /\ Len(file') = 3 * n - (b - 1) /\ n >= 1
      /\ Len(file) \in Nat
  <2>0. Len(file) \in Nat
    BY <1>0
  <2>1. Len(s) = 3 * n
    BY <1>1 DEF Whole
  <2>2. file' = Append(file, Head(buf)) /\ buf # << >>
    BY DEF WriteOut
  <2>3. Head(buf) \in Piece(Record)
    BY <1>0, <2>2
  <2>4. Len(file') = Len(file) + 1
    BY <1>0, <2>2, <2>3
  <2> HIDE DEF b, s
  <2> QED BY <1>0, <2>0, <2>1, <2>4
<1>3. /\ \A i \in 1..Len(file) : file[i] = s[i]
      /\ \A i \in 1..Len(file') : file'[i] = s[i]
  <2>1. Flushed' = s /\ file' \in Seq(Piece(Record)) /\ buf' \in Seq(Piece(Record))
    BY <1>0, MovePiece DEF WriteOut, Flushed
  <2>2. \A i \in 1..Len(file') : (file' \o buf')[i] = file'[i]
    BY <2>1
  <2>3. \A i \in 1..Len(file) : (file \o buf)[i] = file[i]
    BY <1>0
  <2> QED BY <2>1, <2>2, <2>3 DEF Flushed
<1>4. /\ (Len(file) + 1) \div 3 = IF b < 2 THEN n ELSE n - 1
      /\ (Len(file') + 1) \div 3 = IF b - 1 < 2 THEN n ELSE n - 1
  <2>1. b \in 0..3 /\ b - 1 \in 0..3 /\ b <= 3 * n /\ b - 1 <= 3 * n
    BY <1>0, <1>2
  <2> HIDE DEF b
  <2> QED BY <1>2, <2>1, Thirds
<1> HIDE DEF b, s
<1>5. Records = [k \in 1..(IF b < 2 THEN n ELSE n - 1) |-> s[3 * k - 2].rec]
  <2>1. \A k \in 1..(IF b < 2 THEN n ELSE n - 1) : 3 * k - 2 \in 1..Len(file)
    BY <1>0, <1>2
  <2> QED BY <1>3, <1>4, <2>1 DEF Records
<1>6. Records' = [k \in 1..(IF b - 1 < 2 THEN n ELSE n - 1) |-> s[3 * k - 2].rec]
  <2>1. \A k \in 1..(IF b - 1 < 2 THEN n ELSE n - 1) : 3 * k - 2 \in 1..Len(file')
    BY <1>0, <1>2
  <2> QED BY <1>3, <1>4, <2>1 DEF Records
<1>7. CASE b # 2
  <2>1. (IF b < 2 THEN n ELSE n - 1) = IF b - 1 < 2 THEN n ELSE n - 1
    BY <1>0, <1>7
  <2> QED BY <1>5, <1>6, <2>1
<1>8. CASE b = 2
  <2> DEFINE r == s[3 * n - 2].rec
  <2>1. \A k \in 1..n : /\ RecordAt(s, 3 * k - 2) /\ 3 * k - 2 \in 1..Len(s)
                        /\ s[3 * k - 2] \in Piece(Record)
                        /\ s[3 * k - 2].rec.prev = IF k = 1 THEN Genesis ELSE s[3 * k - 5].rec.id
    <3>1. \A k \in 1..n : 3 * k - 2 \in 1..Len(s)
      BY <1>1 DEF Whole
    <3> QED BY <1>0, <1>1, <3>1, ElementOfSeq DEF Whole
  <2>2. r \in Record /\ n \in 1..n
    BY <1>2, <2>1 DEF Piece
  <2>3. /\ Records = [k \in 1..(n - 1) |-> s[3 * k - 2].rec]
        /\ Records' = [k \in 1..n |-> s[3 * k - 2].rec]
    BY <1>5, <1>6, <1>8
  <2>4. Records \in Seq(Record) /\ Len(Records) = n - 1
    <3>1. \A k \in 1..(n - 1) : s[3 * k - 2].rec \in Record
      BY <1>2, <2>1 DEF Piece
    <3>2. n - 1 \in Nat
      BY <1>2
    <3> QED BY <2>3, <3>1, <3>2
  <2>5. Records' = Append(Records, r)
    <3>1. Append(Records, r) \in Seq(Record) /\ Len(Append(Records, r)) = n
      BY <1>2, <2>2, <2>4
    <3>2. ASSUME NEW k \in 1..n PROVE Append(Records, r)[k] = s[3 * k - 2].rec
      <4>1. CASE k = n
        <5>1. k = Len(Records) + 1
          BY <1>2, <2>4, <4>1
        <5>2. Append(Records, r)[Len(Records) + 1] = r
          BY <2>2, <2>4
        <5> QED BY <4>1, <5>1, <5>2
      <4>2. CASE k # n
        <5>1. k \in 1..(n - 1) /\ k \in 1..Len(Records)
          BY <1>2, <2>4, <4>2
        <5>2. Append(Records, r)[k] = Records[k]
          BY <2>2, <2>4, <5>1
        <5> QED BY <2>3, <5>1, <5>2
      <4> QED BY <4>1, <4>2
    <3>3. Append(Records, r) = [k \in 1..n |-> s[3 * k - 2].rec]
      BY <3>1, <3>2
    <3> QED BY <2>3, <3>3
  <2>6. r.prev = IF Records = << >> THEN Genesis ELSE Records[Len(Records)].id
    <3>1. CASE n = 1
      BY <2>1, <2>2, <2>4, <3>1
    <3>2. CASE n # 1
      <4>1. n - 1 \in 1..(n - 1) /\ 3 * (n - 1) - 2 = 3 * n - 5
        BY <1>2, <3>2
      <4>2. Records[n - 1] = s[3 * n - 5].rec
        <5> DEFINE m == n - 1
        <5>1. Records[m] = s[3 * m - 2].rec
          BY <2>3, <4>1
        <5>2. 3 * m - 2 = 3 * n - 5
          BY <4>1
        <5> QED BY <5>1, <5>2
      <4>3. Records # << >> /\ Len(Records) = n - 1
        BY <2>4, <4>1
      <4>4. r.prev = s[3 * n - 5].rec.id
        BY <2>1, <2>2, <3>2
      <4> QED BY <4>2, <4>3, <4>4
    <3> QED BY <3>1, <3>2
  <2>7. ASSUME NEW i \in 1..Len(Records) PROVE Records[i].id # r.id
    <3>1. i \in 1..n /\ Records[i] = s[3 * i - 2].rec /\ 3 * i - 2 # 3 * n - 2
      BY <1>2, <2>3, <2>4
    <3>2. Distinct(s, next)
      BY DEF CountInv, s
    <3> QED BY <2>1, <2>2, <3>1, <3>2 DEF Distinct
  <2> QED BY <2>2, <2>5, <2>6, <2>7
<1> QED BY <1>7, <1>8

LEMMA ChainStep ==
  ASSUME IInv, CountInv, ShapeInv, [Next]_vars
  PROVE  \/ Chain!Next
         \/ UNCHANGED <<IF crashes + faults > 0 THEN << >> ELSE
                          [k \in 1..((Len(file) + 1) \div 3) |-> file[3 * k - 2].rec],
                        crashes + faults > 0>>
<1>0. crashes \in Nat /\ faults \in Nat /\ crashes' \in Nat /\ faults' \in Nat
  BY TypeCorrect, BoundsAssumption DEF IInv, TypeOK
<1>1. CASE ~ Intact'
  <2>1. crashes' + faults' # 0
    BY <1>1 DEF Intact
  <2>2. crashes' + faults' > 0
    BY <1>0, <2>1, SumPositive
  <2> QED BY <2>2 DEF Chain!Next, Chain!Fail
<1>2. CASE Intact'
  <2>0. Intact
    BY <1>2, IntactBefore
  <2>1. ~ (crashes + faults > 0) /\ ~ (crashes' + faults' > 0)
    <3>1. crashes + faults = 0 /\ crashes' + faults' = 0
      BY <1>2, <2>0 DEF Intact
    <3> QED BY <3>1
  <2>4. /\ (IF crashes + faults > 0 THEN << >> ELSE
              [k \in 1..((Len(file) + 1) \div 3) |-> file[3 * k - 2].rec]) = Records
        /\ (IF crashes + faults > 0 THEN << >> ELSE
              [k \in 1..((Len(file) + 1) \div 3) |-> file[3 * k - 2].rec])' = Records'
        /\ (crashes + faults > 0)' = (crashes + faults > 0)
    BY <2>1 DEF Records
  <2>2. CASE file' = file
    <3>1. Records' = Records
      BY <2>2 DEF Records
    <3> QED BY <2>4, <3>1
  <2>3. CASE WriteOut
    <3>1. CASE Records' = Records
      BY <2>4, <3>1
    <3>2. ASSUME NEW r \in Record,
                 Records' = Append(Records, r),
                 r.prev = IF Records = << >> THEN Genesis ELSE Records[Len(Records)].id,
                 \A i \in 1..Len(Records) : Records[i].id # r.id
          PROVE  Chain!Next
      <4>1. r = [id |-> r.id, prev |-> r.prev] /\ r.id \in Id
        BY DEF Record
      <4>2. r = [id |-> r.id, prev |-> IF Records = << >> THEN Genesis
                                       ELSE Records[Len(Records)].id]
        BY <3>2, <4>1
      <4>3. Records' = Append(Records, [id |-> r.id,
                              prev |-> IF Records = << >> THEN Genesis
                                       ELSE Records[Len(Records)].id])
        BY <3>2, <4>2
      <4>4. Chain!Extend(r.id)
        BY <2>1, <2>4, <3>2, <4>3 DEF Chain!Extend, Chain!Tip, Chain!Genesis, Genesis
      <4> QED BY <4>1, <4>4 DEF Chain!Next
    <3> QED BY <2>0, <2>3, <3>1, <3>2, WriteOutExtends
  <2> QED
    BY <1>2, <2>2, <2>3, IntactBefore
       DEF Next, vars, BeginAppend, UpdateHash, TruncateCheckpoint, WriteCheckpoint, Stop, Open
<1> QED BY <1>1, <1>2

LEMMA ShapeAlways == Spec => [](CountInv /\ ShapeInv)
<1>1. Init => CountInv /\ ShapeInv
  <2> SUFFICES ASSUME Init PROVE CountInv /\ ShapeInv
    OBVIOUS
  <2>1. CountInv
    BY FS_EmptySet DEF Init, CountInv, Debt, Distinct, Flushed
  <2>2. Whole(Flushed, 0)
    BY DEF Init, Whole, Flushed
  <2> QED BY <2>1, <2>2 DEF Init, ShapeInv
<1> QED BY <1>1, CountStep, ShapeStep, IInvHolds, PTL DEF Spec

\* Until the first failure, and across restarts, the file is an audit chain.
THEOREM RefinementTheorem == Spec => RefinesAuditChain
<1>1. Init => Chain!Init
  <2> SUFFICES ASSUME Init PROVE Chain!Init
    OBVIOUS
  <2>1. ~ (crashes + faults > 0) /\ (Len(file) + 1) \div 3 = 0
    BY DEF Init
  <2> QED BY <2>1 DEF Chain!Init
<1>2. IInv /\ CountInv /\ ShapeInv /\ [Next]_vars =>
        [Chain!Next]_<<IF crashes + faults > 0 THEN << >> ELSE
                         [k \in 1..((Len(file) + 1) \div 3) |-> file[3 * k - 2].rec],
                       crashes + faults > 0>>
  BY ChainStep
<1> QED BY <1>1, <1>2, ShapeAlways, IInvHolds, PTL
           DEF Spec, RefinesAuditChain, Chain!Spec

\* A log of whole records verifies.
LEMMA WholeVerifies ==
  ASSUME NEW n \in Nat, Whole(file, n), file \in Seq(Piece(Record)) PROVE Verifies(file)
<1>1. /\ Len(file) = 3 * n /\ Len(file) \in Nat
      /\ \A k \in 1..n :
           /\ RecordAt(file, 3 * k - 2) /\ file[3 * k].part = "nl"
           /\ file[3 * k - 2].rec.prev = IF k = 1 THEN Genesis ELSE file[3 * k - 5].rec.id
  BY DEF Whole
<1>2. ASSUME NEW p \in 1..Len(file), LineStart(file, p)
      PROVE  RecordLine(file, p) /\ ~ Violation(file, p)
  <2>1. PICK k \in 1..n : p = 3 * k - 2 \/ p = 3 * k - 1 \/ p = 3 * k
    <3>1. (p + 2) \div 3 \in 1..n
      BY <1>1
    <3>2. \/ p = 3 * ((p + 2) \div 3) - 2 \/ p = 3 * ((p + 2) \div 3) - 1
          \/ p = 3 * ((p + 2) \div 3)
      OBVIOUS
    <3> QED BY <3>1, <3>2
  <2>2. file[3 * k - 2].part = "head" /\ file[3 * k - 1].part = "tail"
    <3>1. (3 * k - 2) + 1 = 3 * k - 1
      OBVIOUS
    <3> QED BY <1>1, <3>1 DEF RecordAt
  <2>3. p = 3 * k - 2
    <3>1. p # 1 => file[p - 1].part = "nl"
      BY <1>2 DEF LineStart
    <3>2. p # 3 * k - 1
      <4>1. 3 * k - 1 # 1 /\ (3 * k - 1) - 1 = 3 * k - 2
        OBVIOUS
      <4> QED BY <2>2, <3>1, <4>1
    <3>3. p # 3 * k
      <4>1. 3 * k # 1
        OBVIOUS
      <4> QED BY <2>2, <3>1, <4>1
    <3> QED BY <2>1, <3>2, <3>3
  <2>4. RecordLine(file, p)
    <3>1. (3 * k - 2) + 2 = 3 * k
      OBVIOUS
    <3> QED BY <1>1, <1>2, <2>3, <3>1 DEF RecordLine
  <2>5. ~ Violation(file, p)
    <3>1. CASE k = 1
      BY <1>1, <2>3, <3>1 DEF Violation
    <3>2. CASE k # 1
      <4>1. p # 1 /\ p - 3 = 3 * k - 5
        BY <2>3, <3>2
      <4> QED BY <1>1, <2>3, <3>2, <4>1 DEF Violation
    <3> QED BY <3>1, <3>2
  <2> QED BY <2>4, <2>5
<1>3. \A p \in 1..Len(file) : Violation(file, p) => LineStart(file, p)
  BY DEF Violation, RecordLine
<1> QED BY <1>2, <1>3 DEF Verifies, Parses

\* What chaos_test.sh requires of a daemon that was killed holds of one that was not:
\* across any number of restarts, as long as no append was cut short and no I/O failed,
\* the log can be read and verify_chain reports nothing whenever no write is under way.
THEOREM IntactLogVerifies ==
  Spec => [](crashes + faults = 0 => /\ pc # "flush" => Verifies(file)
                                     /\ ReadableAfterRestart /\ IntactAfterRestart)
<1>1. ASSUME IInv, ShapeInv, crashes + faults = 0, pc # "flush" PROVE Verifies(file)
  <2>1. file \in Seq(Piece(Record)) /\ buf = << >> /\ Intact
    BY <1>1 DEF IInv, TypeOK, ShapeInv, Intact
  <2>2. Flushed = file
    BY <2>1 DEF Flushed
  <2>3. PICK n \in Nat : Whole(Flushed, n)
    BY <1>1, <2>1 DEF ShapeInv
  <2> QED BY <2>1, <2>2, <2>3, WholeVerifies
<1>2. IInv /\ ShapeInv =>
        (crashes + faults = 0 => /\ pc # "flush" => Verifies(file)
                                 /\ ReadableAfterRestart /\ IntactAfterRestart)
  BY <1>1 DEF ReadableAfterRestart, IntactAfterRestart, Verifies
<1> QED BY <1>2, ShapeAlways, IInvHolds, PTL
==============================================================================
