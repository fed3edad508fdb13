--------------------------- MODULE KeyRotationProofs ---------------------------
(***************************************************************************)
(* The properties of the agent registry on file and of key rotation, for   *)
(* any number of registrations, agents, keys, requests and faults.         *)
(*                                                                         *)
(* The registry.  Registrations that overlap may spoil each other's lines, *)
(* but then open refuses the file.  If it does not, every record's first   *)
(* piece begins a line that is this record (HeadsBegin), so none that      *)
(* returned Ok is missed; and as a registration writes nothing after it    *)
(* has ended, the last line of a DID is not of one that ended before       *)
(* another began.  When open may refuse the file is RefusalInv.  As long   *)
(* as no two registrations overlap, the map and the file hold the last     *)
(* registration of each DID (CurrentInv).                                  *)
(*                                                                         *)
(* The agent.  Once a call b is acknowledged, the registry never again     *)
(* holds a registration that had ended when b began.  So a key is settled, *)
(* and will never be registered again, when all calls that register it had *)
(* ended before one that was acknowledged (Settled).  A careful agent only *)
(* gives up keys that are settled or that no call registers (LostInv), and *)
(* what is signed with a settled key is never verified, unless another     *)
(* agent has registered that key for the agent (PowerlessInv).             *)
(***************************************************************************)
EXTENDS KeyRotation, SequenceTheorems, WellFoundedInduction, TLAPS

--------------------------------------------------------------------------------
(* Facts about files of lines *)

\* A set of numbers that is not empty has a least one.
LEMMA LeastNumber ==
  ASSUME NEW S, S \subseteq Nat, S # {}
  PROVE  \E n \in S : \A m \in S : n <= m
<1> DEFINE R == OpToRel(<, Nat)
<1>1. IsWellFoundedOn(R, Nat)
  BY NatLessThanWellFounded
<1>2. \A m, n \in Nat : m < n => <<m, n>> \in R
  BY DEF OpToRel
<1> HIDE DEF R
<1>3. PICK n \in S : \A m \in S : ~ (<<m, n>> \in R)
  BY <1>1, WFMin, Zenon
<1>4. ASSUME NEW m \in S PROVE n <= m
  <2>1. n \in Nat /\ m \in Nat /\ ~ (m < n)
    BY <1>2, <1>3
  <2> QED BY <2>1
<1> QED BY <1>4

\* A set of positions of a sequence has a last one if it is not empty.
LEMMA LastPosition ==
  ASSUME NEW N \in Nat, NEW S, S \subseteq 1..N, S # {}
  PROVE  \E n \in S : \A m \in S : m <= n
<1> DEFINE T == {m \in Nat : \E n \in S : m = N - n}
<1>1. ASSUME NEW n \in S PROVE N - n \in T /\ n \in Int
  <2>1. N - n \in Nat /\ n \in Int
    OBVIOUS
  <2> QED BY <2>1
<1>2. T # {} /\ T \subseteq Nat
  BY <1>1
<1>3. PICK t \in T : \A u \in T : t <= u
  BY <1>2, LeastNumber
<1>4. PICK n \in S : t = N - n
  OBVIOUS
<1>5. ASSUME NEW m \in S PROVE m <= n
  <2>1. N - n <= N - m
    BY <1>1, <1>3, <1>4, <1>5
  <2> QED BY <1>1, <1>5, <2>1
<1> QED BY <1>5

EmptyLine(s, p) == LineStart(s, p) /\ s[p].part = "nl"

\* In a file whose lines are all empty or records, a record's first piece begins a line.
LEMMA HeadsBegin ==
  ASSUME NEW R, NEW s \in Seq(Piece(R)),
         \A p \in 1..Len(s) : LineStart(s, p) => EmptyLine(s, p) \/ RecordLine(s, p),
         NEW q \in 1..Len(s), s[q].part = "head"
  PROVE  RecordLine(s, q)
<1> DEFINE Good(p) == /\ s[p].part = "head" => LineStart(s, p)
                      /\ s[p].part = "tail" => p - 1 \in 1..Len(s) /\ RecordLine(s, p - 1)
           Bad == {p \in 1..Len(s) : ~ Good(p)}
<1>0. Len(s) \in Nat /\ \A p \in 1..Len(s) : s[p].part \in {"head", "tail", "nl"}
  <2>1. \A p \in 1..Len(s) : s[p] \in Piece(R)
    OBVIOUS
  <2> QED BY <2>1 DEF Piece
<1>1. \A p \in 1..Len(s) : LineStart(s, p) => s[p].part = "nl" \/ RecordLine(s, p)
  BY DEF EmptyLine
<1>2. \A p \in Int : RecordLine(s, p) =>
        /\ s[p].part = "head" /\ s[p + 1].part = "tail"
        /\ p + 2 \in 1..Len(s) => s[p + 2].part = "nl"
  BY DEF RecordLine, RecordAt
<1>3. ASSUME NEW p \in 1..Len(s), \A m \in 1..Len(s) : m < p => Good(m)
      PROVE  Good(p)
  <2>1. CASE LineStart(s, p)
    <3>1. s[p].part # "tail"
      <4>1. s[p].part = "nl" \/ RecordLine(s, p)
        BY <1>1, <2>1
      <4>2. p \in Int
        OBVIOUS
      <4> QED BY <1>2, <4>1, <4>2
    <3> QED BY <2>1, <3>1
  <2>2. CASE ~ LineStart(s, p)
    <3>1. p # 1 /\ p - 1 \in 1..Len(s) /\ s[p - 1].part # "nl" /\ Good(p - 1)
      <4>1. p # 1 /\ s[p - 1].part # "nl"
        BY <2>2 DEF LineStart
      <4>2. p - 1 \in 1..Len(s) /\ p - 1 < p
        BY <1>0, <4>1
      <4> HIDE DEF Good
      <4> QED BY <1>3, <4>1, <4>2
    <3>2. CASE s[p - 1].part = "head"
      <4>1. RecordLine(s, p - 1)
        BY <1>1, <3>1, <3>2
      <4>2. s[p].part = "tail"
        BY <1>2, <4>1
      <4> QED BY <3>1, <4>1, <4>2
    <3>3. CASE s[p - 1].part = "tail"
      <4>1. p - 2 \in 1..Len(s) /\ RecordLine(s, p - 2)
        BY <3>1, <3>3
      <4>2. s[p].part = "nl"
        BY <1>2, <4>1
      <4> QED BY <4>2
    <3> QED BY <1>0, <3>1, <3>2, <3>3
  <2> QED BY <2>1, <2>2
<1>4. Bad = {}
  <2> SUFFICES ASSUME Bad # {} PROVE FALSE
    OBVIOUS
  <2> HIDE DEF Good
  <2>1. PICK p \in Bad : \A m \in Bad : p <= m
    <3>1. Bad \subseteq Nat
      OBVIOUS
    <3> HIDE DEF Bad
    <3> QED BY <3>1, LeastNumber
  <2>2. \A m \in 1..Len(s) : m < p => Good(m)
    BY <2>1
  <2>3. p \in 1..Len(s) /\ ~ Good(p)
    BY <2>1
  <2> QED BY <1>3, <2>2, <2>3
<1>5. LineStart(s, q)
  BY <1>4
<1> QED BY <1>1, <1>5

\* What is written lands behind what is there.
LEMMA Written ==
  ASSUME NEW R, NEW s \in Seq(R), NEW w \in Seq(R)
  PROVE  /\ s \o w \in Seq(R) /\ Len(s \o w) = Len(s) + Len(w) /\ Len(s) \in Nat /\ Len(w) \in Nat
         /\ \A p \in 1..Len(s) : (s \o w)[p] = s[p]
         /\ \A p \in 1..Len(s \o w) :
              p \notin 1..Len(s) => p > Len(s) /\ p - Len(s) \in 1..Len(w) /\ (s \o w)[p] = w[p - Len(s)]
BY ConcatProperties

--------------------------------------------------------------------------------
(* The registry: the invariant *)

\* The first piece of c's record is in the file.
Begun(c) == \E p \in 1..Len(file) : file[p].rec = c /\ file[p].part = "head"

FileInv ==
  /\ \A p \in 1..Len(file) : call[file[p].rec] # "free"
  /\ \A p, q \in 1..Len(file) : file[p].rec \in before[file[q].rec] => p < q
  /\ \A c \in Call : call[c] = "ok" => Begun(c)
  /\ \A c \in Call : call[c] = "write" => rest[c] = Text(c) \/ Begun(c)

CallInv ==
  /\ status # "up" => \A c \in Call : call[c] # "write"
  /\ \A c \in Call : /\ before[c] \subseteq Ended
                     /\ \A i \in 1..Len(rest[c]) : rest[c][i].rec = c
                     /\ call[c] \in {"write", "ok"} => did[c] \in Did

MemoryInv ==
  status = "up" =>
    /\ \A d \in Did : memory[d] # None => call[memory[d]] # "free" /\ did[memory[d]] = d
    /\ \A c \in Call : call[c] \in {"write", "ok"} =>
         memory[did[c]] # None /\ memory[did[c]] \notin before[c]

RegistryInv == TypeOK /\ FileInv /\ CallInv /\ MemoryInv

LEMMA TextType == ASSUME NEW c \in Call PROVE
  /\ Text(c) \in Seq(Piece(Call)) /\ Len(Text(c)) = 3 /\ Text(c)[1] = [rec |-> c, part |-> "head"]
  /\ \A i \in 1..3 : Text(c)[i].rec = c
<1>1. \A x \in {"head", "tail", "nl"} : [rec |-> c, part |-> x] \in Piece(Call)
  BY DEF Piece
<1>2. Text(c) \in Seq(Piece(Call)) /\ Len(Text(c)) = 3
  BY <1>1 DEF Text
<1> QED BY <1>2 DEF Text

LEMMA RegisterInv ==
  ASSUME RegistryInv, NEW c \in Call, NEW d \in Did, Register(c, d)
  PROVE  RegistryInv'
<1> USE NoneAssumption DEF RegistryInv
<1>1. /\ status = "up" /\ call[c] = "free" /\ UNCHANGED <<file, status>>
      /\ memory' = [memory EXCEPT ![d] = c] /\ call' = [call EXCEPT ![c] = "write"]
      /\ rest' = [rest EXCEPT ![c] = Text(c)] /\ did' = [did EXCEPT ![c] = d]
      /\ before' = [before EXCEPT ![c] = Ended]
  BY DEF Register
<1>2. TypeOK'
  <2>1. Ended \in SUBSET Call /\ Text(c) # << >>
    <3>1. Ended \in SUBSET Call
      BY DEF Ended
    <3>2. Text(c) # << >>
      BY DEF Text
    <3> QED BY <3>1, <3>2
  <2> QED BY <1>1, <2>1, TextType DEF TypeOK
<1>3. /\ call'[c] = "write" /\ rest'[c] = Text(c) /\ did'[c] = d /\ before'[c] = Ended
      /\ memory'[d] = c /\ c \notin Ended
      /\ \A x \in Call \ {c} : call'[x] = call[x] /\ rest'[x] = rest[x] /\ did'[x] = did[x]
                               /\ before'[x] = before[x]
      /\ \A e \in Did \ {d} : memory'[e] = memory[e]
  BY <1>1 DEF TypeOK, Ended
<1>4. Ended' = Ended
  BY <1>3 DEF Ended
<1>5. \A x \in Call : Begun(x)' <=> Begun(x)
  BY <1>1 DEF Begun
<1>6. \A p \in 1..Len(file) : file[p].rec \in Call \ {c}
  <2>1. \A p \in 1..Len(file) : file[p] \in Piece(Call)
    BY DEF TypeOK
  <2> QED BY <1>1, <2>1 DEF FileInv, Piece
<1>7. FileInv'
  BY <1>1, <1>3, <1>5, <1>6 DEF FileInv
<1>8. CallInv'
  <2>1. \A i \in 1..Len(rest'[c]) : rest'[c][i].rec = c
    <3>1. Len(rest'[c]) = 3 /\ \A i \in 1..3 : Text(c)[i].rec = c
      BY <1>3, TextType
    <3> QED BY <1>3, <3>1
  <2>2. \A x \in Call : before'[x] \subseteq Ended
    BY <1>3 DEF CallInv
  <2> QED BY <1>1, <1>3, <1>4, <2>1, <2>2 DEF CallInv
<1>9. MemoryInv'
  <2>1. ASSUME NEW x \in Call, call'[x] \in {"write", "ok"}
        PROVE  memory'[did'[x]] # None /\ memory'[did'[x]] \notin before'[x]
    <3>1. CASE x = c
      BY <1>3, <3>1
    <3>2. CASE x # c
      <4>1. did[x] \in Did /\ c \notin before[x] /\ call[x] \in {"write", "ok"} /\ did'[x] = did[x]
        BY <1>3, <2>1, <3>2 DEF CallInv
      <4> QED BY <1>1, <1>3, <3>2, <4>1 DEF MemoryInv
    <3> QED BY <3>1, <3>2
  <2>2. ASSUME NEW e \in Did, memory'[e] # None
        PROVE  call'[memory'[e]] # "free" /\ did'[memory'[e]] = e
    <3>1. CASE e = d
      BY <1>3, <3>1
    <3>2. CASE e # d
      <4>1. /\ memory'[e] = memory[e] /\ memory[e] \in Call
            /\ call[memory[e]] # "free" /\ did[memory[e]] = e
        BY <1>1, <1>3, <2>2, <3>2 DEF MemoryInv, TypeOK
      <4> QED BY <1>1, <1>3, <4>1
    <3> QED BY <3>1, <3>2
  <2> QED BY <2>1, <2>2 DEF MemoryInv
<1> QED BY <1>2, <1>7, <1>8, <1>9

\* A write moves pieces of c's record from rest to the end of the file.
LEMMA WriteAdds ==
  ASSUME RegistryInv, NEW c \in Call, Write(c)
  PROVE  \E n \in 1..Len(rest[c]), r \in Seq(Piece(Call)) :
           /\ rest' = [rest EXCEPT ![c] = r] /\ Len(r) = Len(rest[c]) - n
           /\ \A i \in 1..Len(r) : r[i] = rest[c][n + i]
           /\ call' = [call EXCEPT ![c] = IF n = Len(rest[c]) THEN "ok" ELSE "write"]
           /\ file' \in Seq(Piece(Call)) /\ Len(file') = Len(file) + n /\ Len(file) \in Nat
           /\ \A p \in 1..Len(file) : file'[p] = file[p]
           /\ \A p \in 1..Len(file') : p \notin 1..Len(file) =>
                p > Len(file) /\ file'[p].rec = c /\ file'[p] = rest[c][p - Len(file)]
<1> USE NoneAssumption DEF RegistryInv
<1>1. PICK n \in 1..(IF Len(rest[c]) > 1 THEN Len(rest[c]) - 1 ELSE 1) :
        /\ file' = file \o SubSeq(rest[c], 1, n)
        /\ rest' = [rest EXCEPT ![c] = SubSeq(rest[c], n + 1, Len(rest[c]))]
        /\ call' = [call EXCEPT ![c] = IF n = Len(rest[c]) THEN "ok" ELSE "write"]
  BY DEF Write
<1> DEFINE w == SubSeq(rest[c], 1, n)
           r == SubSeq(rest[c], n + 1, Len(rest[c]))
<1>2. /\ rest[c] \in Seq(Piece(Call)) /\ rest[c] # << >> /\ file \in Seq(Piece(Call))
      /\ n \in 1..Len(rest[c])
  BY DEF Write, TypeOK
<1>3. /\ w \in Seq(Piece(Call)) /\ Len(w) = n /\ \A i \in 1..n : w[i] = rest[c][i]
      /\ r \in Seq(Piece(Call)) /\ Len(r) = Len(rest[c]) - n
      /\ \A i \in 1..Len(r) : r[i] = rest[c][n + i]
  <2>1. n \in Nat /\ Len(rest[c]) \in Nat /\ n <= Len(rest[c])
    BY <1>2
  <2>2. w \in Seq(Piece(Call)) /\ Len(w) = n /\ \A i \in 1..n : w[i] = rest[c][i]
    BY <1>2, <2>1
  <2>3. /\ r \in Seq(Piece(Call)) /\ Len(r) = Len(rest[c]) - n
        /\ \A i \in 1..Len(r) : r[i] = rest[c][n + i]
    BY <1>2, <2>1
  <2> QED BY <2>2, <2>3
<1>4. /\ file' \in Seq(Piece(Call)) /\ Len(file') = Len(file) + n /\ Len(file) \in Nat
      /\ \A p \in 1..Len(file) : file'[p] = file[p]
      /\ \A p \in 1..Len(file') : p \notin 1..Len(file) =>
           p > Len(file) /\ file'[p].rec = c /\ file'[p] = rest[c][p - Len(file)]
  <2> HIDE DEF w
  <2>1. file' = file \o w
    BY <1>1 DEF w
  <2>2. \A i \in 1..n : i \in 1..Len(rest[c])
    BY <1>2
  <2>3. \A i \in 1..n : w[i] = rest[c][i] /\ w[i].rec = c
    BY <1>3, <2>2 DEF CallInv
  <2>4. /\ file \o w \in Seq(Piece(Call)) /\ Len(file \o w) = Len(file) + Len(w)
        /\ Len(file) \in Nat
        /\ \A p \in 1..Len(file) : (file \o w)[p] = file[p]
        /\ \A p \in 1..Len(file \o w) : p \notin 1..Len(file) =>
             p > Len(file) /\ p - Len(file) \in 1..Len(w) /\ (file \o w)[p] = w[p - Len(file)]
    <3>1. file \in Seq(Piece(Call)) /\ w \in Seq(Piece(Call))
      BY <1>2, <1>3
    <3> QED BY <3>1, Written
  <2> QED BY <1>3, <2>1, <2>3, <2>4
<1> HIDE DEF w, r
<1>5. rest' = [rest EXCEPT ![c] = r]
  BY <1>1 DEF r
<1> QED BY <1>1, <1>2, <1>3, <1>4, <1>5

LEMMA WriteInv ==
  ASSUME RegistryInv, NEW c \in Call, Write(c)
  PROVE  RegistryInv'
<1> USE NoneAssumption DEF RegistryInv
<1>2. /\ call[c] = "write" /\ UNCHANGED <<memory, status, did, before>>
      /\ rest[c] \in Seq(Piece(Call)) /\ rest[c] # << >> /\ file \in Seq(Piece(Call))
  BY DEF Write, TypeOK
<1>3. PICK n \in 1..Len(rest[c]), r \in Seq(Piece(Call)) :
        /\ rest' = [rest EXCEPT ![c] = r] /\ Len(r) = Len(rest[c]) - n
        /\ \A i \in 1..Len(r) : r[i] = rest[c][n + i]
        /\ call' = [call EXCEPT ![c] = IF n = Len(rest[c]) THEN "ok" ELSE "write"]
        /\ file' \in Seq(Piece(Call)) /\ Len(file') = Len(file) + n /\ Len(file) \in Nat
        /\ \A p \in 1..Len(file) : file'[p] = file[p]
        /\ \A p \in 1..Len(file') : p \notin 1..Len(file) =>
             p > Len(file) /\ file'[p].rec = c /\ file'[p] = rest[c][p - Len(file)]
  BY WriteAdds
<1>5. /\ rest'[c] = r /\ call'[c] = (IF n = Len(rest[c]) THEN "ok" ELSE "write")
      /\ \A x \in Call \ {c} : call'[x] = call[x] /\ rest'[x] = rest[x]
  BY <1>3 DEF TypeOK
<1>6. TypeOK'
  <2>1. r = << >> <=> n = Len(rest[c])
    <3>1. r = << >> <=> Len(r) = 0
      OBVIOUS
    <3>2. Len(rest[c]) \in Nat
      BY <1>2
    <3> QED BY <1>3, <3>1, <3>2
  <2> QED BY <1>2, <1>3, <1>5, <2>1 DEF TypeOK
<1>7. \A x \in Call : Begun(x) => Begun(x)'
  BY <1>2, <1>3 DEF Begun
<1>8. Begun(c)'
  <2>1. CASE Begun(c)
    BY <1>7, <2>1
  <2>2. CASE rest[c] = Text(c)
    <3>1. Len(file) + 1 \in 1..Len(file') /\ Len(file) + 1 \notin 1..Len(file)
      BY <1>2, <1>3
    <3>2. file'[Len(file) + 1] = Text(c)[1]
      <4>1. Len(file) + 1 - Len(file) = 1
        BY <1>3
      <4> QED BY <1>3, <2>2, <3>1, <4>1
    <3>3. Text(c)[1].rec = c /\ Text(c)[1].part = "head"
      BY DEF Text
    <3> QED BY <3>1, <3>2, <3>3 DEF Begun
  <2> QED BY <1>2, <2>1, <2>2 DEF FileInv
<1>9. \A p \in 1..Len(file') : file'[p].rec \in Call /\ (p \in 1..Len(file) \/ file'[p].rec = c)
  <2>1. \A p \in 1..Len(file') : file'[p] \in Piece(Call)
    BY <1>3
  <2> QED BY <1>3, <2>1 DEF Piece
<1>10. Ended \subseteq Ended' /\ c \notin Ended
  BY <1>2, <1>5 DEF Ended
<1>11. FileInv'
  <2>1. ASSUME NEW p \in 1..Len(file'), NEW q \in 1..Len(file'),
               file'[p].rec \in before[file'[q].rec]
        PROVE  p < q
    <3>1. file'[p].rec # c /\ p \in 1..Len(file)
      BY <1>9, <1>10, <2>1 DEF CallInv
    <3>2. CASE q \in 1..Len(file)
      BY <1>3, <2>1, <3>1, <3>2 DEF FileInv
    <3>3. CASE q \notin 1..Len(file)
      BY <1>3, <3>1, <3>3
    <3> QED BY <3>2, <3>3
  <2>2. \A p \in 1..Len(file') : call'[file'[p].rec] # "free"
    BY <1>3, <1>5, <1>9 DEF FileInv
  <2>3. \A x \in Call : /\ call'[x] = "ok" => Begun(x)'
                        /\ call'[x] = "write" => rest'[x] = Text(x) \/ Begun(x)'
    BY <1>5, <1>7, <1>8 DEF FileInv
  <2> QED BY <1>2, <2>1, <2>2, <2>3 DEF FileInv
<1>12. CallInv'
  <2>1. \A i \in 1..Len(rest'[c]) : rest'[c][i].rec = c
    <3>1. Len(rest[c]) \in Nat /\ \A i \in 1..Len(r) : n + i \in 1..Len(rest[c])
      BY <1>2, <1>3
    <3>2. \A i \in 1..Len(rest[c]) : rest[c][i].rec = c
      BY DEF CallInv
    <3>3. ASSUME NEW i \in 1..Len(r) PROVE r[i].rec = c
      <4>1. r[i] = rest[c][n + i] /\ n + i \in 1..Len(rest[c])
        BY <1>3, <3>1
      <4> QED BY <3>2, <4>1
    <3> QED BY <1>5, <3>3
  <2> QED BY <1>2, <1>5, <1>10, <2>1 DEF CallInv
<1>13. MemoryInv'
  BY <1>2, <1>5 DEF MemoryInv, TypeOK
<1> QED BY <1>6, <1>11, <1>12, <1>13

LEMMA WriteErrorInv ==
  ASSUME RegistryInv, NEW c \in Call, WriteError(c)
  PROVE  RegistryInv'
<1> USE DEF RegistryInv
<1>1. /\ call[c] = "write" /\ call' = [call EXCEPT ![c] = "err"]
      /\ rest' = [rest EXCEPT ![c] = << >>] /\ UNCHANGED <<memory, file, status, did, before>>
  BY DEF WriteError
<1>2. /\ call'[c] = "err" /\ rest'[c] = << >>
      /\ \A x \in Call \ {c} : call'[x] = call[x] /\ rest'[x] = rest[x]
  BY <1>1 DEF TypeOK
<1>3. TypeOK'
  BY <1>1, <1>2 DEF TypeOK
<1>4. Ended \subseteq Ended'
  BY <1>2 DEF Ended
<1>5. \A x \in Call : Begun(x)' <=> Begun(x)
  BY <1>1 DEF Begun
<1>6. FileInv'
  BY <1>1, <1>2, <1>5 DEF FileInv
<1>7. CallInv'
  BY <1>1, <1>2, <1>4 DEF CallInv
<1>8. MemoryInv'
  BY <1>1, <1>2 DEF MemoryInv, TypeOK
<1> QED BY <1>3, <1>6, <1>7, <1>8

LEMMA CrashInv == RegistryInv /\ Crash => RegistryInv'
<1> SUFFICES ASSUME RegistryInv, Crash PROVE RegistryInv'
  OBVIOUS
<1> USE DEF RegistryInv
<1>1. /\ status' = "down" /\ memory' = [d \in Did |-> None]
      /\ \A c \in Call : /\ call'[c] = (IF call[c] = "write" THEN "gone" ELSE call[c])
                         /\ rest'[c] = << >>
      /\ UNCHANGED <<file, did, before>>
  BY DEF Crash
<1>2. TypeOK'
  BY <1>1 DEF Crash, TypeOK
<1>3. Ended \subseteq Ended'
  BY <1>1 DEF Ended
<1>4. \A x \in Call : Begun(x)' <=> Begun(x)
  BY <1>1 DEF Begun
<1>5. \A p \in 1..Len(file) : file[p].rec \in Call
  <2>1. \A p \in 1..Len(file) : file[p] \in Piece(Call)
    BY DEF TypeOK
  <2> QED BY <2>1 DEF Piece
<1>6. FileInv'
  BY <1>1, <1>4, <1>5 DEF FileInv
<1>7. CallInv'
  BY <1>1, <1>3 DEF CallInv
<1> QED BY <1>1, <1>2, <1>6, <1>7 DEF MemoryInv

--------------------------------------------------------------------------------
(* open *)

\* The lines of a DID all name registrations of that DID, and one that returned Ok is
\* among them, not before those that had ended when it began.
LEMMA ReplayRecent ==
  ASSUME RegistryInv, Loads
  PROVE  /\ Replay \in [Did -> Call \cup {None}]
         /\ \A d \in Did : Replay[d] # None => call[Replay[d]] # "free" /\ did[Replay[d]] = d
         /\ \A c \in Call : call[c] = "ok" => Replay[did[c]] # None /\ Replay[did[c]] \notin before[c]
<1> USE NoneAssumption DEF RegistryInv
<1>1. \A p \in 1..Len(file) : file[p].rec \in Call /\ file[p].part \in {"head", "tail", "nl"}
  <2>1. \A p \in 1..Len(file) : file[p] \in Piece(Call)
    BY DEF TypeOK
  <2> QED BY <2>1 DEF Piece
<1>2. ASSUME NEW d \in Did, Lines(d) # {}
      PROVE  \E p \in Lines(d) : /\ \A q \in Lines(d) : q <= p
                                 /\ Replay[d] = file[p].rec /\ p \in 1..Len(file)
                                 /\ did[file[p].rec] = d
  <2>1. Len(file) \in Nat /\ Lines(d) \subseteq 1..Len(file)
    BY DEF TypeOK, Lines
  <2>2. \E p \in Lines(d) : \A q \in Lines(d) : q <= p
    <3> HIDE DEF Lines
    <3> QED BY <1>2, <2>1, LastPosition
  <2> DEFINE m == CHOOSE p \in Lines(d) : \A q \in Lines(d) : q <= p
  <2>3. m \in Lines(d) /\ \A q \in Lines(d) : q <= m
    BY <2>2
  <2>4. Replay[d] = file[m].rec
    BY <1>2 DEF Replay
  <2> HIDE DEF m
  <2>5. did[file[m].rec] = d
    BY <2>3 DEF Lines
  <2> QED BY <2>1, <2>3, <2>4, <2>5
<1>3. \A d \in Did : Lines(d) = {} => Replay[d] = None
  BY DEF Replay
<1>4. \A d \in Did : Replay[d] \in Call \cup {None}
                     /\ (Replay[d] # None => call[Replay[d]] # "free" /\ did[Replay[d]] = d)
  BY <1>1, <1>2, <1>3 DEF FileInv
<1>5. ASSUME NEW c \in Call, call[c] = "ok"
      PROVE  Replay[did[c]] # None /\ Replay[did[c]] \notin before[c]
  <2>1. PICK p \in 1..Len(file) : file[p].rec = c /\ file[p].part = "head"
    BY <1>5 DEF FileInv, Begun
  <2>2. RecordLine(file, p)
    <3>1. \A q \in 1..Len(file) : LineStart(file, q) => EmptyLine(file, q) \/ RecordLine(file, q)
      BY DEF Loads, Empty, EmptyLine
    <3>2. file \in Seq(Piece(Call))
      BY DEF TypeOK
    <3> QED BY <2>1, <3>1, <3>2, HeadsBegin
  <2>3. did[c] \in Did /\ p \in Lines(did[c])
    BY <1>5, <2>1, <2>2 DEF Lines, CallInv
  <2>4. PICK m \in Lines(did[c]) : /\ \A q \in Lines(did[c]) : q <= m
                                   /\ Replay[did[c]] = file[m].rec /\ m \in 1..Len(file)
    BY <1>2, <2>3
  <2>5. p <= m
    BY <2>3, <2>4
  <2>6. ~ (m < p)
    BY <2>4, <2>5
  <2>7. file[m].rec \notin before[c]
    BY <2>1, <2>4, <2>6 DEF FileInv
  <2> QED BY <1>1, <2>4, <2>7
<1>6. Replay \in [Did -> Call \cup {None}]
  BY <1>4 DEF Replay
<1> QED BY <1>4, <1>5, <1>6

LEMMA OpenInv == RegistryInv /\ Open => RegistryInv'
<1> SUFFICES ASSUME RegistryInv, Open PROVE RegistryInv'
  OBVIOUS
<1> USE DEF RegistryInv
<1>1. /\ status # "up" /\ UNCHANGED <<file, call, rest, did, before>>
      /\ \/ Loads /\ status' = "up" /\ memory' = Replay
         \/ status' = "refused" /\ UNCHANGED memory
  BY DEF Open
<1>2. TypeOK'
  BY <1>1, ReplayRecent DEF TypeOK
<1>3. FileInv' /\ CallInv'
  BY <1>1 DEF FileInv, CallInv, Begun, Ended
<1>4. MemoryInv'
  BY <1>1, ReplayRecent DEF MemoryInv, CallInv
<1> QED BY <1>2, <1>3, <1>4

LEMMA RegistryStep == RegistryInv /\ [Next]_vars => RegistryInv'
<1> SUFFICES ASSUME RegistryInv, [Next]_vars PROVE RegistryInv'
  OBVIOUS
<1>1. CASE UNCHANGED vars
  BY <1>1 DEF vars, RegistryInv, TypeOK, FileInv, CallInv, MemoryInv, Begun, Ended
<1> QED BY <1>1, RegisterInv, WriteInv, WriteErrorInv, CrashInv, OpenInv DEF Next

LEMMA RegistryInit == Init => RegistryInv
BY NoneAssumption DEF Init, RegistryInv, TypeOK, FileInv, CallInv, MemoryInv, Ended

LEMMA RegistryRecent == RegistryInv => RestoredIsRecent
BY DEF RegistryInv, MemoryInv, RestoredIsRecent

\* A daemon that is up, after any number of crashes, knows what was registered with it,
\* and nothing older.
THEOREM RestoredTheorem == Spec => []RestoredIsRecent
BY RegistryInit, RegistryStep, RegistryRecent, PTL DEF Spec

--------------------------------------------------------------------------------
(* When the daemon refuses to start.  As long as no two registrations ran at    *)
(* once and none was made after one that was cut short, the file is what texts  *)
(* written one after the other begin with (Succession), and only the call that  *)
(* is writing, or the one that was cut short, can be in the middle of a line.   *)
(* Such a file is refused when it ends with a record's first piece and then     *)
(* only.                                                                        *)

\* A registration was cut short and another one was made after it.
Followed == \E c, d \in Call : call[c] \in {"err", "gone"} /\ c \in before[d]

\* s is what texts written one after the other begin with.
Succession(s) ==
  \A p \in 1..Len(s) :
    /\ s[p].part = "head" => p = 1 \/ s[p - 1].part = "nl"
    /\ s[p].part = "tail" => p > 1 /\ s[p - 1].part = "head" /\ s[p - 1].rec = s[p].rec
    /\ s[p].part = "nl"   => p > 1 /\ s[p - 1].part = "tail" /\ s[p - 1].rec = s[p].rec

\* The last line of s is complete.
Complete(s) == s = << >> \/ s[Len(s)].part = "nl"

\* r is what is left of c's text after its first k pieces, which s ends with.
Continues(c, r, s) ==
  \E k \in 0..2 : /\ Len(r) = 3 - k /\ \A i \in 1..3 - k : r[i] = Text(c)[k + i]
                  /\ k = 0 => Complete(s)
                  /\ k # 0 => s # << >> /\ s[Len(s)] = Text(c)[k]

OrderlyInv ==
  /\ Succession(file)
  /\ \A c \in Call : call[c] = "write" => Continues(c, rest[c], file)
  /\ ~ Complete(file) => call[file[Len(file)].rec] \in {"write", "err", "gone"}

RefusalInv ==
  /\ \A c \in Call : call[c] = "free" => before[c] = {}
  /\ status = "refused" => ~ Loads
  /\ Overlap \/ Followed \/ OrderlyInv

\* A line begins with a record's first piece, and every piece but the last is followed
\* by the next one of its record.
LEMMA SuccessionLines ==
  ASSUME NEW R, NEW s \in Seq(Piece(R)), Succession(s), NEW p \in 1..Len(s), LineStart(s, p)
  PROVE  RecordLine(s, p) \/ (p = Len(s) /\ s[p].part = "head")
<1>1. Len(s) \in Nat /\ \A q \in 1..Len(s) : s[q].part \in {"head", "tail", "nl"}
  <2>1. \A q \in 1..Len(s) : s[q] \in Piece(R)
    OBVIOUS
  <2> QED BY <2>1 DEF Piece
<1>2. s[p].part = "head"
  BY <1>1 DEF LineStart, Succession
<1>3. CASE p # Len(s)
  <2>1. p + 1 \in 1..Len(s) /\ (p + 1) - 1 = p /\ p + 1 # 1 /\ p \in Nat
    BY <1>1, <1>3
  <2>2. s[p + 1].part = "tail" /\ s[p].rec = s[p + 1].rec
    <3>1. s[p + 1].part \in {"head", "tail", "nl"}
      BY <1>1, <2>1
    <3> QED BY <1>2, <2>1, <3>1 DEF Succession
  <2>3. ASSUME p + 2 \in 1..Len(s) PROVE s[p + 2].part = "nl"
    <3>1. (p + 2) - 1 = p + 1 /\ p + 2 # 1
      BY <2>1
    <3>2. s[p + 2].part \in {"head", "tail", "nl"}
      BY <1>1, <2>3
    <3> QED BY <2>2, <2>3, <3>1, <3>2 DEF Succession
  <2> QED BY <1>2, <2>1, <2>2, <2>3 DEF RecordLine, RecordAt
<1> QED BY <1>2, <1>3

\* No call is writing while another one is, or after one that was cut short.
LEMMA Alone ==
  ASSUME TypeOK, CallInv, ~ Overlap, ~ Followed, NEW c \in Call, call[c] = "write",
         NEW x \in Call \ {c}, call[x] # "free"
  PROVE  call[x] = "ok"
<1>1. c \notin before[x]
  BY DEF CallInv, Ended
<1>2. x \in before[c]
  BY <1>1 DEF Overlap
<1>3. call[x] \in {"ok", "err", "gone"}
  BY <1>2 DEF CallInv, Ended
<1> QED BY <1>2, <1>3 DEF Followed

\* Overlap and Followed are there to stay.
LEMMA Remain ==
  ASSUME \A c \in Call : /\ call[c] # "free" => call'[c] # "free" /\ before'[c] = before[c]
                         /\ call[c] \in {"err", "gone"} => call'[c] = call[c]
                         /\ call[c] = "free" => before[c] = {}
  PROVE  (Overlap => Overlap') /\ (Followed => Followed')
<1>1. Overlap => Overlap'
  BY DEF Overlap
<1>2. Followed => Followed'
  BY DEF Followed
<1> QED BY <1>1, <1>2

LEMMA RegisterRefusal ==
  ASSUME RegistryInv, RefusalInv, NEW c \in Call, NEW d \in Did, Register(c, d)
  PROVE  RefusalInv'
<1> USE DEF RegistryInv
<1>1. /\ status = "up" /\ call[c] = "free" /\ UNCHANGED <<file, status>>
      /\ call'[c] = "write" /\ rest'[c] = Text(c) /\ before'[c] = Ended
      /\ \A x \in Call \ {c} : call'[x] = call[x] /\ rest'[x] = rest[x] /\ before'[x] = before[x]
  BY DEF Register, TypeOK
<1>2. (Overlap => Overlap') /\ (Followed => Followed')
  BY <1>1, Remain DEF RefusalInv
<1>3. ASSUME ~ Overlap', ~ Followed' PROVE OrderlyInv'
  <2>1. OrderlyInv
    BY <1>2, <1>3 DEF RefusalInv
  <2>2. ASSUME NEW x \in Call \ {c}, call[x] # "free" PROVE call[x] = "ok"
    <3>1. c \notin before[x]
      BY <1>1 DEF CallInv, Ended
    <3>2. x \in Ended
      BY <1>1, <1>3, <2>2, <3>1 DEF Overlap
    <3> QED BY <1>1, <1>3, <2>2, <3>2 DEF Followed, Ended
  <2>3. Complete(file)
    <3> SUFFICES ASSUME ~ Complete(file) PROVE FALSE
      OBVIOUS
    <3>1. file # << >> /\ Len(file) \in 1..Len(file)
      BY DEF Complete, TypeOK
    <3>2. file[Len(file)] \in Piece(Call)
      BY <3>1 DEF TypeOK
    <3>3. file[Len(file)].rec \in Call
      BY <3>2 DEF Piece
    <3> QED BY <1>1, <2>1, <2>2, <3>3 DEF OrderlyInv
  <2>4. \A x \in Call : call'[x] = "write" => x = c
    BY <1>1, <2>2
  <2>5. Continues(c, Text(c), file)
    <3>1. Len(Text(c)) = 3 - 0 /\ \A i \in 1..3 - 0 : Text(c)[i] = Text(c)[0 + i]
      <4>1. Len(Text(c)) = 3
        BY TextType
      <4>2. \A i \in 1..3 - 0 : 0 + i = i
        OBVIOUS
      <4> QED BY <4>1, <4>2
    <3> QED BY <2>3, <3>1 DEF Continues
  <2> QED BY <1>1, <2>1, <2>3, <2>4, <2>5 DEF OrderlyInv
<1>4. \A x \in Call : call'[x] = "free" => before'[x] = {}
  BY <1>1 DEF RefusalInv
<1> QED BY <1>1, <1>3, <1>4 DEF RefusalInv

LEMMA WriteRefusal ==
  ASSUME RegistryInv, RefusalInv, NEW c \in Call, Write(c)
  PROVE  RefusalInv'
<1> USE DEF RegistryInv
<1> DEFINE L == Len(file)
           t == Text(c)
<1>1. /\ call[c] = "write" /\ status = "up" /\ UNCHANGED <<status, before>>
      /\ rest[c] \in Seq(Piece(Call)) /\ file \in Seq(Piece(Call)) /\ L \in Nat
  BY DEF Write, TypeOK, CallInv
<1>2. PICK n \in 1..Len(rest[c]), r \in Seq(Piece(Call)) :
        /\ rest' = [rest EXCEPT ![c] = r] /\ Len(r) = Len(rest[c]) - n
        /\ \A i \in 1..Len(r) : r[i] = rest[c][n + i]
        /\ call' = [call EXCEPT ![c] = IF n = Len(rest[c]) THEN "ok" ELSE "write"]
        /\ file' \in Seq(Piece(Call)) /\ Len(file') = L + n
        /\ \A p \in 1..L : file'[p] = file[p]
        /\ \A p \in 1..Len(file') : p \notin 1..L =>
             p > L /\ file'[p].rec = c /\ file'[p] = rest[c][p - L]
  BY WriteAdds
<1>3. /\ rest'[c] = r /\ call'[c] = (IF n = Len(rest[c]) THEN "ok" ELSE "write")
      /\ \A x \in Call \ {c} : call'[x] = call[x] /\ rest'[x] = rest[x]
  BY <1>2 DEF TypeOK
<1>4. (Overlap => Overlap') /\ (Followed => Followed')
  BY <1>1, <1>3, Remain DEF RefusalInv
<1>5. ASSUME ~ Overlap', ~ Followed' PROVE OrderlyInv'
  <2>1. OrderlyInv /\ ~ Overlap /\ ~ Followed
    BY <1>4, <1>5 DEF RefusalInv
  <2>2. \A x \in Call : call'[x] = "write" => x = c
    BY <1>1, <1>3, <2>1, Alone
  <2>3. PICK k \in 0..2 :
          /\ Len(rest[c]) = 3 - k /\ \A i \in 1..3 - k : rest[c][i] = t[k + i]
          /\ k = 0 => Complete(file)
          /\ k # 0 => L # 0 /\ file[L] = t[k]
    BY <1>1, <2>1 DEF OrderlyInv, Continues
  <2>4. t[1].part = "head" /\ t[2].part = "tail" /\ t[3].part = "nl" /\ \A i \in 1..3 : t[i].rec = c
    BY DEF Text
  <2> HIDE DEF L, t
  <2>5. \A p \in 1..Len(file') : p \notin 1..L =>
          /\ p > L /\ k + (p - L) \in 1..3 /\ p - L \in 1..n /\ file'[p] = t[k + (p - L)]
    <3> TAKE p \in 1..Len(file')
    <3> HAVE p \notin 1..L
    <3>1. p > L /\ p <= L + n /\ file'[p] = rest[c][p - L]
      BY <1>2
    <3>2. p - L \in 1..n /\ p - L \in 1..3 - k /\ k + (p - L) \in 1..3
      BY <1>1, <2>3, <3>1
    <3> QED BY <2>3, <3>1, <3>2
  <2>6. n \in 1..3 /\ k + n \in 1..3 /\ L + n \in 1..Len(file') /\ file' # << >> /\ Len(file') = L + n
    BY <1>1, <1>2, <2>3
  <2>7. file'[L + n] = t[k + n]
    <3>1. L + n \notin 1..L /\ (L + n) - L = n
      BY <1>1, <2>6
    <3> QED BY <2>5, <2>6, <3>1
  <2>8. ASSUME NEW p \in 1..Len(file')
        PROVE  /\ file'[p].part = "head" => p = 1 \/ file'[p - 1].part = "nl"
               /\ file'[p].part = "tail" =>
                    p > 1 /\ file'[p - 1].part = "head" /\ file'[p - 1].rec = file'[p].rec
               /\ file'[p].part = "nl" =>
                    p > 1 /\ file'[p - 1].part = "tail" /\ file'[p - 1].rec = file'[p].rec
    <3>1. CASE p \in 1..L
      <4>1. p = 1 \/ (p > 1 /\ p - 1 \in 1..L)
        BY <1>1, <3>1
      <4>2. file'[p] = file[p] /\ (p > 1 => file'[p - 1] = file[p - 1])
        BY <1>2, <3>1, <4>1
      <4>3. /\ file[p].part = "head" => p = 1 \/ file[p - 1].part = "nl"
            /\ file[p].part = "tail" =>
                 p > 1 /\ file[p - 1].part = "head" /\ file[p - 1].rec = file[p].rec
            /\ file[p].part = "nl" =>
                 p > 1 /\ file[p - 1].part = "tail" /\ file[p - 1].rec = file[p].rec
        BY <2>1, <3>1 DEF OrderlyInv, Succession, L
      <4> QED BY <4>1, <4>2, <4>3
    <3>2. CASE p \notin 1..L
      <4> DEFINE j == k + (p - L)
      <4>1. p > L /\ j \in 1..3 /\ p - L \in 1..n /\ file'[p] = t[j]
        BY <2>5, <3>2
      <4>2. CASE j = 1
        <5>1. k = 0 /\ p = L + 1 /\ p - 1 = L
          BY <1>1, <4>1, <4>2
        <5>2. Complete(file)
          BY <2>3, <5>1
        <5>3. p = 1 \/ file'[p - 1].part = "nl"
          <6>1. CASE L = 0
            BY <5>1, <6>1
          <6>2. CASE L # 0
            <7>1. L \in 1..L /\ file # << >>
              BY <1>1, <6>2 DEF L
            <7>2. file[L].part = "nl"
              BY <5>2, <7>1 DEF Complete, L
            <7> QED BY <1>2, <5>1, <7>1, <7>2
          <6> QED BY <6>1, <6>2
        <5> QED BY <2>4, <4>1, <4>2, <5>3
      <4>3. CASE j # 1
        <5>1. p > 1 /\ j - 1 \in 1..2 /\ p - 1 \in 1..Len(file')
          BY <1>1, <2>3, <2>6, <4>1, <4>3
        <5>2. file'[p - 1] = t[j - 1]
          <6>1. CASE p - 1 \in 1..L
            <7>1. p - 1 = L /\ j - 1 = k /\ k # 0
              BY <1>1, <4>1, <4>3, <6>1
            <7> QED BY <1>2, <2>3, <6>1, <7>1
          <6>2. CASE p - 1 \notin 1..L
            <7>1. k + ((p - 1) - L) = j - 1
              BY <1>1, <4>1
            <7> QED BY <2>5, <5>1, <6>2, <7>1
          <6> QED BY <6>1, <6>2
        <5>3. j = 2 \/ j = 3
          BY <4>1, <4>3
        <5> QED BY <2>4, <4>1, <5>1, <5>2, <5>3
      <4> QED BY <4>2, <4>3
    <3> QED BY <3>1, <3>2
  <2>9. Succession(file')
    BY <2>8 DEF Succession
  <2>10. CASE n = Len(rest[c])
    <3>1. call'[c] = "ok" /\ k + n = 3
      BY <1>3, <2>3, <2>10
    <3>2. Complete(file')
      BY <2>4, <2>6, <2>7, <3>1 DEF Complete
    <3>3. \A x \in Call : call'[x] # "write"
      BY <2>2, <3>1
    <3> QED BY <2>9, <3>2, <3>3 DEF OrderlyInv
  <2>11. CASE n # Len(rest[c])
    <3>1. call'[c] = "write" /\ k + n \in 1..2 /\ Len(r) = 3 - (k + n)
      BY <1>2, <1>3, <2>3, <2>6, <2>11
    <3>2. \A i \in 1..3 - (k + n) : r[i] = t[(k + n) + i]
      <4> TAKE i \in 1..3 - (k + n)
      <4>1. i \in 1..Len(r) /\ n + i \in 1..3 - k /\ k + (n + i) = (k + n) + i
        BY <2>3, <2>6, <3>1
      <4> QED BY <1>2, <2>3, <4>1
    <3>3. Continues(c, r, file')
      <4>1. k + n \in 0..2 /\ k + n # 0 /\ file' # << >> /\ file'[Len(file')] = Text(c)[k + n]
        BY <2>6, <2>7, <3>1 DEF t
      <4>2. \A i \in 1..3 - (k + n) : r[i] = Text(c)[(k + n) + i]
        BY <3>2 DEF t
      <4> DEFINE m == k + n
      <4> HIDE DEF m
      <4> QED BY <3>1, <4>1, <4>2 DEF Continues, m
    <3>4. file'[Len(file')].rec = c
      BY <2>4, <2>6, <2>7
    <3> QED BY <1>3, <2>2, <2>9, <3>1, <3>3, <3>4 DEF OrderlyInv
  <2> QED BY <2>10, <2>11
<1>6. \A x \in Call : call'[x] = "free" => before'[x] = {}
  BY <1>1, <1>3 DEF RefusalInv
<1> QED BY <1>1, <1>5, <1>6 DEF RefusalInv

\* An error, a kill and a start leave the file as it is.
LEMMA StillRefusal ==
  ASSUME RegistryInv, RefusalInv, UNCHANGED <<file, before>>, status' = "refused" => ~ Loads,
         \A c \in Call : \/ call'[c] = call[c] /\ rest'[c] = rest[c]
                         \/ call[c] = "write" /\ call'[c] \in {"err", "gone"}
                         \/ call'[c] = call[c] /\ call[c] # "write"
  PROVE  RefusalInv'
<1>1. (Overlap => Overlap') /\ (Followed => Followed')
  BY Remain DEF RefusalInv
<1>2. ASSUME OrderlyInv PROVE OrderlyInv'
  <2>1. ~ Complete(file) => file[Len(file)].rec \in Call
    <3> SUFFICES ASSUME ~ Complete(file) PROVE file[Len(file)].rec \in Call
      OBVIOUS
    <3>1. file \in Seq(Piece(Call)) /\ file # << >> /\ Len(file) \in 1..Len(file)
      BY DEF Complete, RegistryInv, TypeOK
    <3>2. file[Len(file)] \in Piece(Call)
      BY <3>1
    <3> QED BY <3>2 DEF Piece
  <2>2. \A c \in Call : call'[c] = "write" => call[c] = "write" /\ rest'[c] = rest[c]
    OBVIOUS
  <2>3. \A c \in Call : call[c] \in {"write", "err", "gone"} => call'[c] \in {"write", "err", "gone"}
    OBVIOUS
  <2> QED BY <1>2, <2>1, <2>2, <2>3 DEF OrderlyInv
<1>3. Loads' <=> Loads
  BY DEF Loads, Empty
<1> QED BY <1>1, <1>2, <1>3 DEF RefusalInv

LEMMA RefusalStep == RegistryInv /\ RefusalInv /\ [Next]_vars => RefusalInv'
<1> SUFFICES ASSUME RegistryInv, RefusalInv, [Next]_vars PROVE RefusalInv'
  OBVIOUS
<1>1. ASSUME NEW c \in Call, WriteError(c) PROVE RefusalInv'
  BY <1>1, StillRefusal DEF WriteError, RegistryInv, TypeOK, RefusalInv
<1>2. CASE Crash
  BY <1>2, StillRefusal DEF Crash, RegistryInv, TypeOK
<1>3. CASE Open
  BY <1>3, StillRefusal DEF Open
<1>4. CASE UNCHANGED vars
  BY <1>4, StillRefusal DEF vars, RefusalInv
<1> QED BY <1>1, <1>2, <1>3, <1>4, RegisterRefusal, WriteRefusal DEF Next

LEMMA RefusalExplained == RegistryInv /\ RefusalInv => RefusesOnlyWhenTorn
<1> SUFFICES ASSUME RegistryInv, RefusalInv, status = "refused", ~ Overlap, ~ Followed
             PROVE  \E c \in Call : call[c] \in {"err", "gone"} /\ file[Len(file)] = Text(c)[1]
  BY DEF RefusesOnlyWhenTorn, Followed
<1> USE DEF RegistryInv
<1>1. OrderlyInv /\ file \in Seq(Piece(Call))
  BY DEF RefusalInv, TypeOK
<1>2. PICK p \in 1..Len(file) : LineStart(file, p) /\ ~ RecordLine(file, p)
  BY DEF RefusalInv, Loads
<1>3. p = Len(file) /\ file[p].part = "head"
  BY <1>1, <1>2, SuccessionLines DEF OrderlyInv
<1>4. file[p] \in Piece(Call)
  BY <1>1
<1>5. file[p].rec \in Call /\ file[p] = [rec |-> file[p].rec, part |-> "head"]
  BY <1>3, <1>4 DEF Piece
<1>6. call[file[p].rec] \in {"err", "gone"}
  <2>1. ~ Complete(file)
    BY <1>2, <1>3 DEF Complete
  <2>2. call[file[p].rec] # "write"
    BY <1>5 DEF CallInv
  <2> QED BY <1>1, <1>3, <2>1, <2>2 DEF OrderlyInv
<1> QED BY <1>3, <1>5, <1>6, TextType

\* After any number of crashes and failed writes, open refuses the file only when two
\* registrations ran at once, or one was cut short within its record or followed by
\* another one.
THEOREM RefusesTheorem == Spec => []RefusesOnlyWhenTorn
<1>1. Init => RefusalInv
  BY DEF Init, RefusalInv, OrderlyInv, Succession, Complete
<1> QED BY <1>1, RegistryInit, RegistryStep, RefusalStep, RefusalExplained, PTL DEF Spec

--------------------------------------------------------------------------------
(* One registration at a time.  What the comments and ADR-006 say of the file   *)
(* holds as long as no two registrations run at once.                           *)

\* m is the last of the calls that register d.
Latest(m, d) == \A x \in Call : call[x] # "free" /\ did[x] = d => x = m \/ x \in before[m]

\* reg holds the last registration of each DID.
Current(reg) ==
  \A d \in Did : IF reg[d] = None THEN \A x \in Call : call[x] # "free" => did[x] # d
                 ELSE did[reg[d]] = d /\ Latest(reg[d], d)

CurrentInv == status = "up" /\ ~ Overlap /\ ~ Cut => Current(memory)

\* open restores the last registration of each DID if all have returned Ok.
LEMMA ReplayCurrent ==
  ASSUME RegistryInv, Loads, ~ Overlap, \A c \in Call : call[c] \in {"free", "ok"}
  PROVE  Current(Replay)
<1> SUFFICES ASSUME NEW d \in Did
             PROVE  IF Replay[d] = None THEN \A x \in Call : call[x] # "free" => did[x] # d
                    ELSE did[Replay[d]] = d /\ Latest(Replay[d], d)
  BY DEF Current
<1>1. ASSUME NEW x \in Call, call[x] # "free", did[x] = d
      PROVE  Replay[d] # None /\ Replay[d] \notin before[x]
  BY <1>1, ReplayRecent
<1>2. CASE Replay[d] = None
  BY <1>1, <1>2
<1>3. CASE Replay[d] # None
  <2>1. Replay[d] \in Call /\ call[Replay[d]] # "free" /\ did[Replay[d]] = d
    BY <1>3, ReplayRecent
  <2>2. Latest(Replay[d], d)
    BY <1>1, <2>1 DEF Latest, Overlap
  <2> QED BY <1>3, <2>1, <2>2
<1> QED BY <1>2, <1>3

LEMMA CurrentStep == RegistryInv /\ RefusalInv /\ CurrentInv /\ [Next]_vars => CurrentInv'
<1> SUFFICES ASSUME RegistryInv, RefusalInv, CurrentInv, [Next]_vars, status' = "up", ~ Overlap', ~ Cut'
             PROVE  Current(memory)'
  BY DEF CurrentInv
<1> USE NoneAssumption DEF RegistryInv
<1>1. ASSUME NEW c \in Call, NEW d \in Did, Register(c, d) PROVE Current(memory)'
  <2>1. /\ status = "up" /\ call[c] = "free" /\ call'[c] = "write" /\ did'[c] = d /\ before'[c] = Ended
        /\ \A x \in Call \ {c} : call'[x] = call[x] /\ did'[x] = did[x] /\ before'[x] = before[x]
        /\ memory'[d] = c /\ \A e \in Did \ {d} : memory'[e] = memory[e]
    BY <1>1 DEF Register, TypeOK
  <2>2. ~ Overlap /\ ~ Cut
    <3>1. Overlap => Overlap'
      BY <2>1, Remain DEF RefusalInv
    <3> QED BY <2>1, <3>1 DEF Cut
  <2>3. Current(memory)
    BY <2>1, <2>2 DEF CurrentInv
  <2>4. ASSUME NEW x \in Call \ {c}, call[x] # "free" PROVE x \in before'[c]
    <3>1. c \notin before'[x] /\ call'[x] # "free" /\ call'[c] # "free"
      BY <2>1, <2>4 DEF CallInv, Ended
    <3> QED BY <3>1 DEF Overlap
  <2>5. ASSUME NEW e \in Did
        PROVE  IF memory'[e] = None THEN \A x \in Call : call'[x] # "free" => did'[x] # e
               ELSE /\ did'[memory'[e]] = e
                    /\ \A x \in Call : call'[x] # "free" /\ did'[x] = e
                                        => x = memory'[e] \/ x \in before'[memory'[e]]
    <3>1. CASE e = d
      <4>1. \A x \in Call : call'[x] # "free" => x = c \/ x \in before'[c]
        BY <2>1, <2>4
      <4> QED BY <2>1, <3>1, <4>1
    <3>2. CASE e # d
      <4>1. memory'[e] = memory[e] /\ did'[c] # e
        BY <2>1, <3>2
      <4>2. CASE memory[e] = None
        BY <2>1, <2>3, <4>1, <4>2 DEF Current
      <4>3. CASE memory[e] # None
        <5>1. memory[e] \in Call /\ memory[e] # c /\ did[memory[e]] = e /\ Latest(memory[e], e)
          BY <2>1, <2>3, <4>3 DEF Current, MemoryInv, TypeOK
        <5>2. \A x \in Call : call'[x] # "free" /\ did'[x] = e => x = memory[e] \/ x \in before'[memory[e]]
          BY <2>1, <4>1, <5>1 DEF Latest
        <5> QED BY <2>1, <4>1, <4>3, <5>1, <5>2
      <4> QED BY <4>2, <4>3
    <3> QED BY <3>1, <3>2
  <2> QED BY <2>5 DEF Current, Latest
<1>2. ASSUME NEW c \in Call, Write(c) PROVE Current(memory)'
  <2>1. /\ UNCHANGED <<memory, status, did, before>> /\ call[c] = "write" /\ call'[c] \in {"write", "ok"}
        /\ \A x \in Call \ {c} : call'[x] = call[x]
    <3>1. PICK s \in {"write", "ok"} : call' = [call EXCEPT ![c] = s]
      <4>1. PICK n : call' = [call EXCEPT ![c] = IF n = Len(rest[c]) THEN "ok" ELSE "write"]
        BY <1>2, WriteAdds
      <4> QED BY <4>1
    <3>2. UNCHANGED <<memory, status, did, before>> /\ call[c] = "write"
      BY <1>2 DEF Write
    <3> QED BY <3>1, <3>2 DEF TypeOK
  <2>2. ~ Overlap /\ ~ Cut
    BY <2>1 DEF Overlap, Cut
  <2> QED BY <2>1, <2>2 DEF Current, CurrentInv, Latest
<1>3. ASSUME NEW c \in Call, WriteError(c) PROVE FALSE
  BY <1>3 DEF WriteError, Cut, TypeOK
<1>4. CASE Crash
  BY <1>4 DEF Crash
<1>5. CASE Open
  <2>1. Loads /\ memory' = Replay /\ UNCHANGED <<file, call, rest, did, before>> /\ status # "up"
    BY <1>5 DEF Open
  <2>2. ~ Overlap /\ ~ Cut
    BY <2>1 DEF Overlap, Cut
  <2>3. \A c \in Call : call[c] \in {"free", "ok"}
    BY <2>1, <2>2 DEF Cut, CallInv, TypeOK
  <2>4. Current(Replay)
    BY <2>1, <2>2, <2>3, ReplayCurrent
  <2> HIDE DEF RegistryInv
  <2> QED BY <2>1, <2>4 DEF Current, Latest
<1>6. CASE UNCHANGED vars
  BY <1>6 DEF vars, CurrentInv, Current, Latest, Overlap, Cut
<1> QED BY <1>1, <1>2, <1>3, <1>4, <1>5, <1>6 DEF Next

SequenceInv == RegistryInv /\ RefusalInv /\ CurrentInv

LEMMA SequenceAlways == Spec => []SequenceInv
<1>1. Init => SequenceInv
  BY RegistryInit DEF Init, SequenceInv, RefusalInv, OrderlyInv, Succession, Complete, CurrentInv, Current
<1>2. SequenceInv /\ [Next]_vars => SequenceInv'
  BY RegistryStep, RefusalStep, CurrentStep DEF SequenceInv
<1> QED BY <1>1, <1>2, PTL DEF Spec

\* "Persist to disk (atomic append)", of the writes in register, is true as long as no two
\* registrations run at once.
THEOREM SequentialAppends == Spec => [](~ Overlap => AppendsAreAtomic)
<1>1. SequenceInv => (~ Overlap => AppendsAreAtomic)
  <2> SUFFICES ASSUME RegistryInv, RefusalInv, ~ Overlap, Quiet, ~ Cut,
                      NEW p \in 1..Len(file), LineStart(file, p)
               PROVE  RecordLine(file, p)
    BY DEF SequenceInv, AppendsAreAtomic, Loads
  <2>1. OrderlyInv
    BY DEF RefusalInv, Followed, Cut
  <2>2. file \in Seq(Piece(Call))
    BY DEF RegistryInv, TypeOK
  <2>3. file[Len(file)].rec \in Call
    <3>1. file[Len(file)] \in Piece(Call)
      BY <2>2
    <3> QED BY <3>1 DEF Piece
  <2>4. file[Len(file)].part = "nl"
    BY <2>1, <2>3 DEF OrderlyInv, Complete, Quiet, Cut
  <2> QED BY <2>1, <2>2, <2>4, SuccessionLines DEF OrderlyInv
<1> QED BY <1>1, SequenceAlways, PTL

\* ADR-006, "Ensure the registry survives process restarts", is true as long as no two
\* registrations run at once and none is cut short.
THEOREM SequentialRestarts == Spec => [](~ Overlap => RestartKeepsRegistry)
<1>1. SequenceInv => (~ Overlap => RestartKeepsRegistry)
  <2> SUFFICES ASSUME RegistryInv, CurrentInv, ~ Overlap, status = "up", Quiet, ~ Cut, Loads
               PROVE  Replay = memory
    BY DEF SequenceInv, RestartKeepsRegistry
  <2>1. \A c \in Call : call[c] \in {"free", "ok"}
    BY DEF Quiet, Cut, RegistryInv, TypeOK
  <2>2. Current(memory) /\ Current(Replay)
    BY <2>1, ReplayCurrent DEF CurrentInv
  <2>3. ASSUME NEW d \in Did PROVE Replay[d] = memory[d]
    <3>1. CASE memory[d] = None
      <4>1. Replay[d] # None => Replay[d] \in Call /\ call[Replay[d]] # "free" /\ did[Replay[d]] = d
        BY ReplayRecent, NoneAssumption
      <4> QED BY <2>2, <3>1, <4>1 DEF Current
    <3>2. CASE memory[d] # None
      <4>1. memory[d] \in Call /\ call[memory[d]] = "ok" /\ did[memory[d]] = d /\ Latest(memory[d], d)
        BY <2>1, <2>2, <3>2 DEF Current, RegistryInv, MemoryInv, TypeOK
      <4>2. Replay[d] # None /\ Replay[d] \notin before[memory[d]]
        BY <4>1, ReplayRecent
      <4>3. Replay[d] \in Call /\ call[Replay[d]] # "free" /\ did[Replay[d]] = d
        BY <4>2, ReplayRecent, NoneAssumption
      <4> QED BY <4>1, <4>2, <4>3 DEF Latest
    <3> QED BY <3>1, <3>2
  <2>4. memory \in [Did -> Call \cup {None}]
    BY DEF RegistryInv, TypeOK
  <2> QED BY <2>3, <2>4, ReplayRecent
<1> QED BY <1>1, SequenceAlways, PTL


--------------------------------------------------------------------------------
(* The agent: the invariant *)

Settled(k, B) == \E b \in Call : answer[b] = "ok" /\ Registers(k) \subseteq before[b] \cup B

RequestInv ==
  /\ req[Boot] = "done" /\ signer[Boot] = None /\ call[Boot] \in {"ok", "gone"}
  /\ \A c \in Call :
       /\ req[c] # "done" => call[c] = "free"
       /\ req[c] = "idle" => signer[c] = None /\ publicKey[c] = None
       /\ signer[c] # None /\ call[c] # "free" => did[c] = Agent
       /\ answer[c] = "ok" => call[c] = "ok" /\ did[c] = Agent

LostInv == ~ careless => \A k \in Key \ Held : Registers(k) = {} \/ Settled(k, {})

\* Another agent has registered k for the agent.
Foreign(k) == \E x \in Call : ByOther(x) /\ did[x] = Agent /\ publicKey[x] = k

PowerlessInv ==
  \A c \in powerless : /\ signer[c] \in Key /\ Settled(signer[c], {c})
                       /\ \/ Foreign(signer[c])
                          \/ call[c] = "free" /\ req[c] \in {"sent", "done"}

NothingInv ==
  /\ call[Boot] # "ok" \/ ~ attests =>
       \A c \in Call \ {Boot} : call[c] = "free" /\ req[c] # "checked"
  /\ call[Boot] # "ok" => file = << >> /\ \A d \in Did : memory[d] = None

RotationInv == /\ RotationTypeOK /\ RegistryInv
               /\ RequestInv /\ LostInv /\ PowerlessInv /\ NothingInv

--------------------------------------------------------------------------------
(* Settled keys *)

\* A daemon that is up holds a settled key only if another agent has registered it.
LEMMA SettledGone ==
  ASSUME RegistryInv, RequestInv, status = "up", NEW k \in Key, NEW B,
         Registered = k, None \notin Key, Settled(k, B), Agent \in Did
  PROVE  (ByOther(memory[Agent]) /\ Foreign(k)) \/ \E x \in B : call[x] # "free"
<1>1. memory[Agent] \in Call /\ publicKey[memory[Agent]] = k
  BY DEF Registered, RegistryInv, TypeOK
<1>2. call[memory[Agent]] # "free" /\ did[memory[Agent]] = Agent /\ memory[Agent] # None
  BY <1>1, NoneAssumption DEF RegistryInv, MemoryInv
<1>3. CASE ByOther(memory[Agent])
  BY <1>1, <1>2, <1>3 DEF Foreign
<1>4. CASE ~ ByOther(memory[Agent])
  <2>1. memory[Agent] \in Registers(k)
    BY <1>1, <1>2, <1>4 DEF Registers
  <2>2. PICK b \in Call : answer[b] = "ok" /\ Registers(k) \subseteq before[b] \cup B
    BY DEF Settled
  <2>3. memory[Agent] \notin before[b]
    BY <2>2 DEF RequestInv, RegistryInv, MemoryInv
  <2> QED BY <1>2, <2>1, <2>2, <2>3
<1> QED BY <1>3, <1>4

\* It stays settled as long as no call comes to register it.
LEMMA SettledKept ==
  ASSUME NEW k, NEW B, NEW C, Settled(k, B), Registers(k)' \subseteq Registers(k) \cup C,
         \A b \in Call : answer[b] = "ok" => answer'[b] = "ok" /\ before'[b] = before[b]
  PROVE  Settled(k, B \cup C)'
<1>1. PICK b \in Call : answer[b] = "ok" /\ Registers(k) \subseteq before[b] \cup B
  BY DEF Settled
<1>2. answer'[b] = "ok" /\ Registers(k)' \subseteq before'[b] \cup (B \cup C)
  BY <1>1
<1> QED BY <1>2 DEF Settled

\* The agent, when it keeps the keys in K, has lost no key that is not settled.
LEMMA KeepsLost ==
  ASSUME LostInv, careless \in BOOLEAN, NEW K, K \subseteq Key, Keeps(K), Held' = K,
         UNCHANGED <<call, before, req, publicKey, signer>>,
         \A b \in Call : answer[b] = "ok" => answer'[b] = "ok"
  PROVE  LostInv'
<1> SUFFICES ASSUME ~ careless', NEW k \in Key, k \notin K
             PROVE  Registers(k)' = {} \/ Settled(k, {})'
  BY DEF LostInv
<1>1. ~ careless /\ (k \in Held => Registers(k) = {} \/ Replaced(k, K))
  BY DEF Keeps
<1>2. Registers(k)' = Registers(k)
  BY DEF Registers, ByOther
<1>3. Registers(k) = {} \/ Settled(k, {})
  BY <1>1 DEF LostInv, Replaced, Settled
<1>4. Settled(k, {}) => Settled(k, {})'
  BY <1>2 DEF Settled
<1> QED BY <1>2, <1>3, <1>4

\* Steps that leave the agent alone, and after which no more calls register a key,
\* keep both invariants about lost keys and powerless calls.
LEMMA QuietStep ==
  ASSUME LostInv, PowerlessInv,
         UNCHANGED <<identity, signingKey, keystore, signer, careless, powerless>>,
         \A k \in Key : Registers(k)' \subseteq Registers(k),
         \A b \in Call : answer[b] = "ok" => answer'[b] = "ok" /\ before'[b] = before[b],
         \A x \in Call : ByOther(x) =>
           call'[x] # "free" /\ did'[x] = did[x] /\ publicKey'[x] = publicKey[x],
         \A c \in powerless :
           Foreign(signer[c]) \/ (call'[c] = "free" /\ req'[c] \in {"sent", "done"})
  PROVE  LostInv' /\ PowerlessInv'
<1>1. ASSUME NEW k \in Key, NEW B, Settled(k, B) PROVE Settled(k, B)'
  <2>1. PICK b \in Call : answer[b] = "ok" /\ Registers(k) \subseteq before[b] \cup B
    BY <1>1 DEF Settled
  <2>2. answer'[b] = "ok" /\ Registers(k)' \subseteq before'[b] \cup B
    BY <2>1
  <2> QED BY <2>2 DEF Settled
<1>2. Held' = Held /\ UNCHANGED <<careless, powerless, signer>>
  BY DEF Held
<1>3. LostInv'
  BY <1>1, <1>2 DEF LostInv
<1>4. ASSUME NEW k, Foreign(k) PROVE Foreign(k)'
  <2>1. PICK x \in Call : ByOther(x) /\ did[x] = Agent /\ publicKey[x] = k
    BY <1>4 DEF Foreign
  <2>2. ByOther(x)' /\ did'[x] = Agent /\ publicKey'[x] = k
    BY <2>1 DEF ByOther
  <2> QED BY <2>2 DEF Foreign
<1>5. PowerlessInv'
  <2> SUFFICES ASSUME NEW c \in powerless
               PROVE  /\ signer[c] \in Key /\ Settled(signer[c], {c})'
                      /\ \/ Foreign(signer[c])'
                         \/ call'[c] = "free" /\ req'[c] \in {"sent", "done"}
    BY <1>2 DEF PowerlessInv
  <2>1. PICK k \in Key : k = signer[c] /\ k = signer'[c] /\ Settled(k, {c})
    BY <1>2 DEF PowerlessInv
  <2>2. Settled(k, {c})'
    BY <1>1, <2>1
  <2>3. Settled(signer[c], {c})'
    BY <2>1, <2>2 DEF Settled, Registers
  <2>4. Foreign(signer[c]) => Foreign(signer[c])'
    <3>1. Foreign(k) => Foreign(k)'
      BY <1>4
    <3> QED BY <2>1, <3>1 DEF Foreign
  <2> QED BY <2>1, <2>3, <2>4
<1> QED BY <1>3, <1>5

--------------------------------------------------------------------------------
(* The steps of the agent *)

\* What the steps of the agent other than Send have in common.
LEMMA AgentStep ==
  ASSUME RotationInv, UNCHANGED <<vars, attests, req, publicKey, signer, powerless>>,
         RotationTypeOK', LostInv',
         \A c \in Call : answer'[c] = "ok" <=> answer[c] = "ok"
  PROVE  RotationInv'
<1>1. RegistryInv'
  BY DEF RotationInv, vars, RegistryInv, TypeOK, FileInv, CallInv, MemoryInv, Begun, Ended
<1>2. RequestInv'
  BY DEF RotationInv, vars, RequestInv
<1>3. NothingInv'
  BY DEF RotationInv, vars, NothingInv
<1>4. \A k : Registers(k)' = Registers(k) /\ Foreign(k)' = Foreign(k)
  BY DEF Registers, Foreign, ByOther, vars
<1>5. \A k, B : Settled(k, B) => Settled(k, B)'
  BY <1>4 DEF Settled, vars
<1>6. PowerlessInv'
  BY <1>4, <1>5 DEF RotationInv, PowerlessInv, vars
<1> QED BY <1>1, <1>2, <1>3, <1>6 DEF RotationInv

LEMMA AgentKeys ==
  ASSUME RotationInv, (\E k \in Key : Rotate(k)) \/ NewClient \/ SaveKey \/ SaveIdentity \/ RestartAgent
  PROVE  RotationInv'
<1> USE RotationAssumption
<1>0. TypeOK' <=> TypeOK
  BY DEF Rotate, NewClient, SaveKey, SaveIdentity, RestartAgent, vars, TypeOK
<1>1. ASSUME NEW k \in Key, Rotate(k) PROVE RotationInv'
  <2>1. RotationTypeOK'
    BY <1>0, <1>1 DEF Rotate, Keeps, RotationInv, RotationTypeOK
  <2>2. Held' = {k, signingKey, keystore} /\ {k, signingKey, keystore} \subseteq Key
    BY <1>1 DEF Rotate, Held, RotationInv, RotationTypeOK
  <2>3. LostInv'
    BY <1>1, <2>2, KeepsLost DEF Rotate, RotationInv, RotationTypeOK, vars
  <2> QED BY <1>1, <2>1, <2>3, AgentStep DEF Rotate
<1>2. CASE NewClient
  <2>1. RotationTypeOK'
    BY <1>0, <1>2 DEF NewClient, Keeps, RotationInv, RotationTypeOK
  <2>2. /\ Held' = {identity.private, keystore} /\ {identity.private, keystore} \subseteq Key
    BY <1>2 DEF NewClient, Held, RotationInv, RotationTypeOK
  <2>3. LostInv'
    BY <1>2, <2>2, KeepsLost DEF NewClient, RotationInv, RotationTypeOK, vars
  <2> QED BY <1>2, <2>1, <2>3, AgentStep DEF NewClient
<1>3. CASE SaveKey
  <2>1. RotationTypeOK'
    BY <1>0, <1>3 DEF SaveKey, Keeps, RotationInv, RotationTypeOK
  <2>2. /\ Held' = {identity.private, signingKey} /\ {identity.private, signingKey} \subseteq Key
    BY <1>3 DEF SaveKey, Held, RotationInv, RotationTypeOK
  <2>3. LostInv'
    BY <1>3, <2>2, KeepsLost DEF SaveKey, RotationInv, RotationTypeOK, vars
  <2> QED BY <1>3, <2>1, <2>3, AgentStep DEF SaveKey
<1>4. CASE SaveIdentity
  <2>1. RotationTypeOK'
    BY <1>0, <1>4 DEF SaveIdentity, RotationInv, RotationTypeOK, requests
  <2>2. LostInv'
    BY <1>4 DEF SaveIdentity, RotationInv, LostInv, Held, Registers, ByOther, Settled, requests, vars
  <2> QED BY <1>4, <2>1, <2>2, AgentStep DEF SaveIdentity, requests
<1>5. CASE RestartAgent
  <2>1. \A c \in Call : /\ answer'[c] \in {"none", "ok", "err"}
                        /\ answer'[c] = "ok" <=> answer[c] = "ok"
    BY <1>5 DEF RestartAgent, RotationInv, RotationTypeOK
  <2>2. RotationTypeOK'
    BY <1>0, <1>5, <2>1 DEF RestartAgent, Fault, Keeps, RotationInv, RotationTypeOK
  <2>3. Held' = {keystore} /\ {keystore} \subseteq Key
    BY <1>5 DEF RestartAgent, Held, RotationInv, RotationTypeOK
  <2>4. LostInv'
    BY <1>5, <2>1, <2>3, KeepsLost DEF RestartAgent, RotationInv, RotationTypeOK, vars
  <2> QED BY <1>5, <2>1, <2>2, <2>4, AgentStep DEF RestartAgent
<1> QED BY <1>1, <1>2, <1>3, <1>4, <1>5

LEMMA SendInv == ASSUME RotationInv, NEW c \in Call, Send(c) PROVE RotationInv'
<1> USE RotationAssumption DEF RotationInv
<1> DEFINE j == identity.public
<1>1. /\ req[c] = "idle" /\ req' = [req EXCEPT ![c] = "sent"]
      /\ publicKey' = [publicKey EXCEPT ![c] = j] /\ signer' = [signer EXCEPT ![c] = signingKey]
      /\ careless' = (careless \/ j \notin Held)
      /\ powerless' = {b \in powerless : signer[b] # j}
                      \cup (IF Replaced(signingKey, Key) THEN {c} ELSE {})
      /\ UNCHANGED <<vars, faults, attests, agent, answer>>
  BY DEF Send
<1>2. /\ j \in Key /\ signingKey \in Key /\ Held' = Held
      /\ UNCHANGED <<memory, file, status, call, rest, did, before>>
      /\ UNCHANGED <<identity, signingKey, keystore, saved, generated>>
  BY <1>1 DEF RotationTypeOK, agent, vars, Held
<1>3. /\ req'[c] = "sent" /\ publicKey'[c] = j /\ signer'[c] = signingKey /\ c # Boot
      /\ call[c] = "free" /\ publicKey[c] = None
      /\ \A x \in Call \ {c} : req'[x] = req[x] /\ publicKey'[x] = publicKey[x]
                               /\ signer'[x] = signer[x]
  BY <1>1 DEF RotationTypeOK, RequestInv
<1>4. RotationTypeOK'
  BY <1>1, <1>2 DEF RotationTypeOK, TypeOK
<1>5. RegistryInv'
  BY <1>2 DEF RegistryInv, TypeOK, FileInv, CallInv, MemoryInv, Begun, Ended
<1>6. RequestInv'
  BY <1>1, <1>2, <1>3 DEF RequestInv
<1>7. \A k \in Key : Registers(k)' \subseteq Registers(k) \cup {c}
  BY <1>2, <1>3 DEF Registers, ByOther
<1>8. /\ \A k \in Key \ {j} : Registers(k)' \subseteq Registers(k)
      /\ \A k \in Key : Foreign(k) => Foreign(k)'
  BY <1>2, <1>3 DEF Registers, Foreign, ByOther
<1>9. LostInv'
  <2> SUFFICES ASSUME ~ careless', NEW k \in Key \ Held
               PROVE  Registers(k)' = {} \/ Settled(k, {})'
    BY <1>2 DEF LostInv
  <2>1. k # j /\ ~ careless
    BY <1>1
  <2>2. Registers(k) = {} \/ Settled(k, {})
    BY <2>1 DEF LostInv
  <2> QED BY <1>1, <1>2, <1>8, <2>1, <2>2 DEF Settled
<1>10. PowerlessInv'
  <2> SUFFICES ASSUME NEW x \in powerless'
               PROVE  /\ signer'[x] \in Key /\ Settled(signer[x], {x})'
                      /\ \/ Foreign(signer[x])'
                         \/ call[x] = "free" /\ req'[x] \in {"sent", "done"}
    BY <1>2 DEF PowerlessInv
  <2>1. CASE x \in powerless /\ signer[x] # j
    <3>1. x # c /\ x \in Call
      BY <1>1, <2>1 DEF PowerlessInv, RequestInv, RotationTypeOK
    <3>2. PICK k \in Key \ {j} : k = signer[x] /\ k = signer'[x] /\ Settled(k, {x})
      BY <1>3, <2>1, <3>1 DEF PowerlessInv
    <3>3. Registers(k)' \subseteq Registers(k)
      BY <1>8
    <3>4. Settled(k, {x})'
      BY <1>1, <1>2, <3>2, <3>3 DEF Settled
    <3>5. Foreign(k)' \/ (call[x] = "free" /\ req'[x] \in {"sent", "done"})
      BY <1>3, <1>8, <2>1, <3>1, <3>2 DEF PowerlessInv
    <3>6. Settled(signer[x], {x})' /\ (Foreign(k)' => Foreign(signer[x])')
      BY <3>2, <3>4 DEF Settled, Registers, Foreign
    <3> QED BY <3>2, <3>5, <3>6
  <2>2. CASE x = c /\ Replaced(signingKey, Key)
    <3>1. PICK k \in Key : k = signingKey /\ k = signer'[c]
      BY <1>2, <1>3
    <3>2. PICK b \in Call : answer[b] = "ok" /\ Registers(k) \subseteq before[b]
      BY <2>2, <3>1 DEF Replaced
    <3>3. Registers(k)' \subseteq before[b] \cup {c}
      BY <1>7, <3>2
    <3>4. Settled(k, {c})'
      BY <1>1, <1>2, <3>2, <3>3 DEF Settled
    <3> QED BY <1>2, <1>3, <2>2, <3>1, <3>4 DEF Settled, Registers
  <2> QED BY <1>1, <2>1, <2>2
<1>11. NothingInv'
  BY <1>1, <1>2, <1>3 DEF NothingInv
<1> QED BY <1>4, <1>5, <1>6, <1>9, <1>10, <1>11

LEMMA AnswerInv ==
  ASSUME RotationInv, NEW c \in Call, Answered(c) \/ GiveUp(c) PROVE RotationInv'
<1> USE RotationAssumption DEF RotationInv
<1>1. /\ answer[c] = "none" /\ signer[c] # None
      /\ \/ answer' = [answer EXCEPT ![c] = "ok"] /\ call[c] = "ok"
         \/ answer' = [answer EXCEPT ![c] = "err"]
      /\ UNCHANGED <<vars, attests, agent, req, publicKey, signer, careless, powerless>>
  BY DEF Answered, GiveUp
<1>2. \A b \in Call : answer[b] = "ok" => answer'[b] = "ok" /\ before'[b] = before[b]
  BY <1>1 DEF RotationTypeOK, vars
<1>3. RotationTypeOK'
  <2>1. answer' \in [Call -> {"none", "ok", "err"}]
    BY <1>1 DEF RotationTypeOK
  <2>2. faults' \in 0..MaxFaults
    BY DEF Answered, GiveUp, Fault, RotationTypeOK
  <2>3. TypeOK'
    BY <1>1 DEF RotationTypeOK, TypeOK, vars
  <2> QED BY <1>1, <2>1, <2>2, <2>3 DEF RotationTypeOK, agent
<1>4. RegistryInv'
  BY <1>1, RegistryStep
<1>5. RequestInv'
  BY <1>1 DEF RequestInv, vars, RotationTypeOK
<1>6. \A k : Registers(k)' = Registers(k)
  BY <1>1 DEF Registers, ByOther, vars
<1>7. LostInv' /\ PowerlessInv'
  <2>1. UNCHANGED <<identity, signingKey, keystore, publicKey, signer, careless, powerless,
                    call, did, req>>
    BY <1>1 DEF vars, agent
  <2>2. \A x \in Call : ByOther(x) => call'[x] # "free"
    BY <2>1 DEF ByOther
  <2> QED BY <1>2, <1>6, <2>1, <2>2, QuietStep DEF PowerlessInv
<1>8. NothingInv'
  BY <1>1 DEF NothingInv, vars
<1> QED BY <1>3, <1>4, <1>5, <1>7, <1>8

--------------------------------------------------------------------------------
(* The steps of the daemon *)

\* A powerless request is not good, unless another agent has registered its key: the
\* key is settled.
LEMMA VerifyInv == ASSUME RotationInv, NEW c \in Call, Verify(c) PROVE RotationInv'
<1> USE RotationAssumption DEF RotationInv
<1> DEFINE good == Registered # None /\ attests /\ Registered = signer[c]
<1>1. /\ status = "up" /\ req[c] = "sent" /\ call[c] = "free" /\ answer[c] # "ok"
      /\ req' = [req EXCEPT ![c] = IF good THEN "checked" ELSE "done"]
      /\ answer' = [answer EXCEPT ![c] = IF good THEN @ ELSE "err"]
      /\ UNCHANGED <<vars, faults, attests, agent, publicKey, signer, careless, powerless>>
  BY DEF Verify, Decide, RequestInv
<1> HIDE DEF good
<1>2. /\ req'[c] = (IF good THEN "checked" ELSE "done") /\ answer'[c] # "ok"
      /\ answer'[c] \in {"none", "ok", "err"}
      /\ \A x \in Call \ {c} : req'[x] = req[x] /\ answer'[x] = answer[x]
  BY <1>1 DEF RotationTypeOK
<1>3. UNCHANGED <<memory, file, status, call, rest, did, before>>
  BY <1>1 DEF vars
<1>4. RotationTypeOK'
  BY <1>1, <1>2, <1>3 DEF RotationTypeOK, TypeOK, agent
<1>5. RegistryInv'
  BY <1>3 DEF RegistryInv, TypeOK, FileInv, CallInv, MemoryInv, Begun, Ended
<1>6. RequestInv'
  BY <1>1, <1>2, <1>3 DEF RequestInv
<1>7. c \in powerless => ~ good \/ Foreign(signer[c])
  <2> SUFFICES ASSUME c \in powerless, good PROVE Foreign(signer[c])
    OBVIOUS
  <2>1. signer[c] \in Key /\ Settled(signer[c], {c}) /\ Registered = signer[c]
    BY DEF good, PowerlessInv
  <2> QED BY <1>1, <2>1, SettledGone
<1>8. LostInv' /\ PowerlessInv'
  <2>1. \A k \in Key : Registers(k)' \subseteq Registers(k)
    BY <1>1, <1>2, <1>3 DEF Registers, ByOther
  <2>2. \A b \in Call : answer[b] = "ok" => answer'[b] = "ok" /\ before'[b] = before[b]
    BY <1>1, <1>2, <1>3
  <2>3. \A x \in powerless :
           Foreign(signer[x]) \/ (call'[x] = "free" /\ req'[x] \in {"sent", "done"})
    BY <1>2, <1>3, <1>7 DEF PowerlessInv, RotationTypeOK
  <2>4. \A x \in Call : ByOther(x) => call'[x] # "free"
    BY <1>3 DEF ByOther
  <2> QED BY <1>1, <1>3, <2>1, <2>2, <2>3, <2>4, QuietStep DEF agent
<1>9. NothingInv'
  <2>1. good => attests /\ memory[Agent] # None
    BY DEF good, Registered
  <2> QED BY <1>1, <1>2, <1>3, <2>1 DEF NothingInv
<1> QED BY <1>4, <1>5, <1>6, <1>8, <1>9

\* Both kinds of registration: the agent's, verified, and another agent's.
LEMMA HandleInv ==
  ASSUME RotationInv, NEW c \in Call, NEW d \in Did, NEW k \in Key,
         \/ Handle(c) /\ d = Agent
         \/ RegisterOther(c, d, k)
  PROVE  RotationInv'
<1> USE RotationAssumption, NoneAssumption DEF RotationInv
<1>1. /\ Register(c, d) /\ req' = [req EXCEPT ![c] = "done"]
      /\ \/ /\ d = Agent /\ req[c] = "checked" /\ UNCHANGED <<publicKey, generated>>
         \/ /\ req[c] = "idle" /\ attests
            /\ UNCHANGED <<publicKey, generated>>
               \/ /\ publicKey' = [publicKey EXCEPT ![c] = k]
                  /\ generated' = generated \cup {k}
      /\ UNCHANGED <<faults, attests, identity, signingKey, keystore, saved, signer, answer,
                     careless, powerless>>
  BY DEF Handle, RegisterOther, agent
<1>2. /\ c # Boot /\ call[c] = "free" /\ answer[c] # "ok"
      /\ call'[c] = "write" /\ did'[c] = d /\ req'[c] = "done"
      /\ \A x \in Call \ {c} : call'[x] = call[x] /\ did'[x] = did[x] /\ req'[x] = req[x]
                               /\ before'[x] = before[x] /\ publicKey'[x] = publicKey[x]
      /\ UNCHANGED <<file, status>>
  BY <1>1 DEF Register, RequestInv, RegistryInv, TypeOK, RotationTypeOK
<1>3. RegistryInv'
  BY <1>1, RegisterInv
<1>4. RotationTypeOK'
  <2>1. publicKey' \in [Call -> Key \cup {None}] /\ generated' \subseteq Key
    BY <1>1 DEF RotationTypeOK
  <2> QED BY <1>1, <1>3, <2>1 DEF RotationTypeOK, RegistryInv
<1>5. RequestInv'
  <2>1. ASSUME NEW x \in Call PROVE signer'[x] # None /\ call'[x] # "free" => did'[x] = Agent
    <3>1. x = c => signer[x] = None \/ d = Agent
      BY <1>1 DEF RequestInv
    <3> QED BY <1>1, <1>2, <3>1 DEF RequestInv
  <2>2. ASSUME NEW x \in Call PROVE req'[x] = "idle" => signer'[x] = None /\ publicKey'[x] = None
    BY <1>1, <1>2 DEF RequestInv
  <2> QED BY <1>1, <1>2, <2>1, <2>2 DEF RequestInv
<1>6. LostInv' /\ PowerlessInv'
  <2>1. \A j \in Key : Registers(j)' \subseteq Registers(j)
    <3>1. CASE req[c] = "checked"
      BY <1>1, <1>2, <3>1 DEF Registers, ByOther, RequestInv
    <3>2. CASE req[c] = "idle"
      <4>1. signer'[c] = None
        BY <1>1, <3>2 DEF RequestInv
      <4> QED BY <1>1, <1>2, <4>1 DEF Registers, ByOther
    <3> QED BY <1>1, <3>1, <3>2
  <2>2. \A b \in Call : answer[b] = "ok" => answer'[b] = "ok" /\ before'[b] = before[b]
    BY <1>1, <1>2
  <2>3. \A x \in powerless :
           Foreign(signer[x]) \/ (call'[x] = "free" /\ req'[x] \in {"sent", "done"})
    <3>1. \A x \in powerless :
            x \in Call /\ (Foreign(signer[x]) \/ (call[x] = "free" /\ req[x] \in {"sent", "done"}))
      BY DEF PowerlessInv, RotationTypeOK
    <3>2. req[c] \notin {"sent", "done"}
      BY <1>1
    <3> QED BY <1>2, <3>1, <3>2
  <2>4. \A x \in Call : ByOther(x) =>
          call'[x] # "free" /\ did'[x] = did[x] /\ publicKey'[x] = publicKey[x]
    BY <1>2 DEF ByOther
  <2> QED BY <1>1, <2>1, <2>2, <2>3, <2>4, QuietStep
<1>7. NothingInv'
  <2>1. call[Boot] = "ok" /\ attests
    <3>1. CASE Handle(c)
      BY <1>2, <3>1 DEF Handle, NothingInv
    <3>2. CASE RegisterOther(c, d, k)
      <4>1. CASE \E s \in Did : memory[s] # None
        BY <3>2, <4>1 DEF RegisterOther, NothingInv
      <4>2. CASE Registered \in Held
        <5>1. memory[Agent] # None
          BY <4>2 DEF Registered, Held, RotationTypeOK
        <5> QED BY <3>2, <5>1 DEF RegisterOther, NothingInv
      <4> QED BY <3>2, <4>1, <4>2 DEF RegisterOther
    <3> QED BY <3>1, <3>2
  <2>2. call'[Boot] = "ok" /\ attests'
    BY <1>1, <1>2, <2>1
  <2> QED BY <2>2 DEF NothingInv
<1> QED BY <1>3, <1>4, <1>5, <1>6, <1>7

LEMMA DropInv == ASSUME RotationInv, NEW c \in Call, Drop(c) PROVE RotationInv'
<1> USE RotationAssumption DEF RotationInv
<1>1. /\ req[c] # "done" /\ req[c] # "idle" /\ req' = [req EXCEPT ![c] = "done"]
      /\ UNCHANGED <<vars, faults, attests, agent, publicKey, signer, answer, careless, powerless>>
  BY DEF Drop
<1>2. req'[c] = "done" /\ \A x \in Call \ {c} : req'[x] = req[x]
  BY <1>1 DEF RotationTypeOK
<1>3. UNCHANGED <<memory, file, status, call, rest, did, before>>
  BY <1>1 DEF vars
<1>4. RotationTypeOK'
  BY <1>1, <1>3 DEF RotationTypeOK, TypeOK, agent
<1>5. RegistryInv'
  BY <1>3 DEF RegistryInv, TypeOK, FileInv, CallInv, MemoryInv, Begun, Ended
<1>6. RequestInv' /\ NothingInv'
  BY <1>1, <1>2, <1>3 DEF RequestInv, NothingInv
<1>7. LostInv' /\ PowerlessInv'
  <2>1. \A k \in Key : Registers(k)' \subseteq Registers(k)
    BY <1>1, <1>2, <1>3 DEF Registers, ByOther
  <2>2. \A x \in powerless :
           Foreign(signer[x]) \/ (call'[x] = "free" /\ req'[x] \in {"sent", "done"})
    BY <1>2, <1>3 DEF PowerlessInv, RotationTypeOK
  <2>3. \A x \in Call : ByOther(x) => call'[x] # "free"
    BY <1>3 DEF ByOther
  <2> QED BY <1>1, <1>3, <2>1, <2>2, <2>3, QuietStep DEF agent
<1> QED BY <1>4, <1>5, <1>6, <1>7

\* Writes, crashes and restarts begin no call and take nothing back that ended well.
LEMMA DaemonStep ==
  ASSUME RotationInv, RegistryInv', RotationTypeOK', NothingInv',
         UNCHANGED <<did, before, attests, agent, publicKey, signer, answer, careless, powerless>>,
         \A c \in Call : /\ req'[c] = req[c] \/ (req[c] # "idle" /\ req'[c] = "done")
                         /\ call'[c] = "free" <=> call[c] = "free"
                         /\ call[c] \in {"ok", "gone"} => call'[c] = call[c]
  PROVE  RotationInv'
<1> USE RotationAssumption DEF RotationInv
<1>1. RequestInv'
  BY DEF RequestInv
<1>2. LostInv' /\ PowerlessInv'
  <2>1. \A k \in Key : Registers(k)' \subseteq Registers(k)
    BY DEF Registers, ByOther
  <2>2. \A x \in powerless :
           Foreign(signer[x]) \/ (call'[x] = "free" /\ req'[x] \in {"sent", "done"})
    BY DEF PowerlessInv, RotationTypeOK
  <2>3. \A x \in Call : ByOther(x) => call'[x] # "free"
    BY DEF ByOther
  <2> QED BY <2>1, <2>2, <2>3, QuietStep DEF agent
<1> QED BY <1>1, <1>2

LEMMA DaemonInv ==
  ASSUME RotationInv, (\E c \in Call : Proceed(c)) \/ CrashDaemon \/ OpenDaemon
  PROVE  RotationInv'
<1> USE RotationAssumption DEF RotationInv
<1>1. ASSUME NEW c \in Call, Proceed(c) PROVE RotationInv'
  <2>1. /\ Write(c) \/ WriteError(c)
        /\ UNCHANGED <<attests, agent, requests, memory, status, did, before>>
    <3>1. CASE Write(c) /\ UNCHANGED faults
      BY <1>1, <3>1 DEF Proceed, Write
    <3>2. CASE WriteError(c) /\ Fault
      BY <1>1, <3>2 DEF Proceed, WriteError
    <3> QED BY <1>1, <3>1, <3>2 DEF Proceed
  <2>2. RegistryInv'
    BY <2>1, WriteInv, WriteErrorInv
  <2>3. call[c] = "write" /\ call'[c] # "free" /\ \A x \in Call \ {c} : call'[x] = call[x]
    BY <2>1 DEF Write, WriteError, RegistryInv, TypeOK
  <2>4. RotationTypeOK'
    BY <1>1, <2>2 DEF Proceed, Fault, RotationTypeOK, RegistryInv, agent, requests
  <2>5. c # Boot /\ call[Boot] = "ok" /\ attests
    BY <2>3 DEF NothingInv, RequestInv
  <2>6. NothingInv'
    BY <2>1, <2>3, <2>5 DEF NothingInv
  <2>7. UNCHANGED <<req, publicKey, signer, answer, careless, powerless>>
    BY <2>1 DEF requests
  <2> QED BY <2>1, <2>2, <2>3, <2>4, <2>6, <2>7, DaemonStep
<1>2. CASE CrashDaemon
  <2>1. /\ memory' = [d \in Did |-> None] /\ UNCHANGED <<file, did, before>>
        /\ \A c \in Call : call'[c] = IF call[c] = "write" THEN "gone" ELSE call[c]
        /\ \A c \in Call : req'[c] = IF req[c] = "idle" THEN "idle" ELSE "done"
        /\ UNCHANGED <<attests, agent, publicKey, signer, answer, careless, powerless>>
    BY <1>2 DEF CrashDaemon, Crash
  <2>2. RegistryInv'
    BY <1>2, CrashInv DEF CrashDaemon
  <2>3. RotationTypeOK'
    BY <1>2, <2>2 DEF CrashDaemon, Fault, RotationTypeOK, RegistryInv, agent
  <2>4. NothingInv'
    BY <2>1 DEF NothingInv, RequestInv
  <2> QED BY <2>1, <2>2, <2>3, <2>4, DaemonStep
<1>3. CASE OpenDaemon
  <2>1. /\ UNCHANGED <<file, call, rest, did, before>>
        /\ UNCHANGED <<attests, agent, faults, req, publicKey, signer, answer, careless, powerless>>
        /\ UNCHANGED memory \/ memory' = Replay
    BY <1>3 DEF OpenDaemon, Open, requests
  <2>2. RegistryInv'
    BY <1>3, OpenInv DEF OpenDaemon
  <2>3. RotationTypeOK'
    BY <2>1, <2>2 DEF RotationTypeOK, RegistryInv, agent
  <2>4. ASSUME NEW d \in Did PROVE call[Boot] # "ok" => Replay[d] = None
    <3>1. file = << >> => Lines(d) = {}
      BY DEF Lines
    <3> QED BY <3>1 DEF Replay, NothingInv
  <2>5. NothingInv'
    BY <2>1, <2>4 DEF NothingInv
  <2> QED BY <2>1, <2>2, <2>3, <2>5, DaemonStep
<1> QED BY <1>1, <1>2, <1>3

--------------------------------------------------------------------------------
(* The theorems *)

LEMMA RotationStep == RotationInv /\ [RotationNext]_rotationVars => RotationInv'
<1> SUFFICES ASSUME RotationInv, [RotationNext]_rotationVars PROVE RotationInv'
  OBVIOUS
<1>1. CASE UNCHANGED rotationVars
  <2>1. UNCHANGED <<vars, attests, agent, requests, faults>>
    BY <1>1 DEF rotationVars
  <2>2. UNCHANGED <<careless, identity, signingKey, keystore, saved, generated>>
    BY <2>1 DEF requests, agent
  <2>3. RotationTypeOK'
    BY <2>1, <2>2 DEF RotationInv, RotationTypeOK, TypeOK, vars, requests
  <2>4. LostInv'
    BY <2>1, <2>2 DEF RotationInv, LostInv, Held, Registers, ByOther, Settled, vars, requests
  <2> QED BY <2>1, <2>3, <2>4, AgentStep DEF requests
<1>2. ASSUME NEW c \in Call, Handle(c) PROVE RotationInv'
  BY <1>2, HandleInv, RotationAssumption
<1>3. ASSUME NEW c \in Call, NEW d \in Did, NEW k \in Key, RegisterOther(c, d, k) PROVE RotationInv'
  BY <1>3, HandleInv
<1> QED BY <1>1, <1>2, <1>3, AgentKeys, SendInv, AnswerInv, VerifyInv, DropInv, DaemonInv
        DEF RotationNext

LEMMA RotationStart == RotationInit => RotationInv
<1> USE RotationAssumption, NoneAssumption
<1> SUFFICES ASSUME RotationInit PROVE RotationInv
  OBVIOUS
<1>1. PICK provisioned \in BOOLEAN, a \in Did :
        /\ file = (IF provisioned THEN Text(Boot) ELSE << >>)
        /\ memory = [d \in Did |-> IF provisioned /\ d = a THEN Boot ELSE None]
        /\ call = [c \in Call |-> IF c # Boot THEN "free" ELSE IF provisioned THEN "ok" ELSE "gone"]
        /\ did = [c \in Call |-> IF c = Boot THEN a ELSE None]
        /\ publicKey = [c \in Call |-> IF c = Boot /\ a = Agent THEN First ELSE None]
        /\ answer = [c \in Call |-> IF c = Boot /\ a = Agent /\ provisioned THEN "ok" ELSE "none"]
  BY DEF RotationInit
<1>2. /\ status = "up" /\ rest = [c \in Call |-> << >>] /\ before = [c \in Call |-> {}]
      /\ identity = [public |-> First, private |-> First] /\ attests \in BOOLEAN
      /\ signingKey = First /\ keystore = First /\ saved = First /\ generated = {First}
      /\ req = [c \in Call |-> IF c = Boot THEN "done" ELSE "idle"]
      /\ signer = [c \in Call |-> None]
      /\ faults = 0 /\ careless = FALSE /\ powerless = {}
  BY DEF RotationInit
<1>3. /\ file \in Seq(Piece(Call)) /\ \A p \in 1..Len(file) : file[p].rec = Boot
      /\ provisioned => Begun(Boot) /\ file # << >>
      /\ ~ provisioned => file = << >>
  <2>1. CASE provisioned
    <3>1. /\ file = Text(Boot) /\ file \in Seq(Piece(Call)) /\ Len(file) = 3
          /\ \A p \in 1..3 : file[p].rec = Boot
      BY <1>1, <2>1, TextType
    <3>2. file[1].rec = Boot /\ file[1].part = "head"
      BY <3>1 DEF Text
    <3> QED BY <2>1, <3>1, <3>2 DEF Begun
  <2>2. CASE ~ provisioned
    BY <1>1, <2>2
  <2> QED BY <2>1, <2>2
<1>4. TypeOK
  BY <1>1, <1>2, <1>3 DEF TypeOK
<1>5. FileInv
  BY <1>1, <1>2, <1>3 DEF FileInv
<1>6. CallInv /\ MemoryInv
  BY <1>1, <1>2 DEF CallInv, MemoryInv
<1>7. RotationTypeOK
  <2>1. identity \in [public : Key, private : Key] /\ generated \subseteq Key
    BY <1>2
  <2>2. /\ req \in [Call -> {"idle", "sent", "checked", "done"}]
        /\ publicKey \in [Call -> Key \cup {None}] /\ signer \in [Call -> Key \cup {None}]
    BY <1>1, <1>2
  <2>3. answer \in [Call -> {"none", "ok", "err"}]
    BY <1>1
  <2>4. /\ signingKey \in Key /\ keystore \in Key /\ saved \in Key
        /\ careless \in BOOLEAN /\ powerless \subseteq Call
    BY <1>2, Zenon
  <2>6. faults \in 0..MaxFaults
    <3>1. faults = 0
      BY <1>2
    <3> QED BY <3>1
  <2>5. attests \in BOOLEAN
    BY <1>2
  <2> QED BY <1>4, <2>1, <2>2, <2>3, <2>4, <2>5, <2>6 DEF RotationTypeOK
<1>8. RequestInv
  BY <1>1, <1>2, <1>3 DEF RequestInv
<1>9. LostInv
  <2>1. ASSUME NEW k \in Key \ Held PROVE Registers(k) = {}
    BY <1>1, <1>2 DEF Held, Registers, ByOther
  <2> QED BY <2>1 DEF LostInv
<1>10. PowerlessInv /\ NothingInv
  BY <1>1, <1>2, <1>3 DEF PowerlessInv, NothingInv
<1> QED BY <1>4, <1>5, <1>6, <1>7, <1>8, <1>9, <1>10 DEF RotationInv, RegistryInv

LEMMA RotationAlways == RotationSpec => []RotationInv
BY RotationStart, RotationStep, PTL DEF RotationSpec

\* The variables of the agent and the daemon keep their types.
THEOREM RotationTypeTheorem == RotationSpec => []RotationTypeOK
<1>1. RotationInv => RotationTypeOK
  BY DEF RotationInv
<1> QED BY <1>1, RotationAlways, PTL

\* The registry stays current under rotation as well: the daemon's steps are those of
\* the registry.
THEOREM RotationRestored == RotationSpec => []RestoredIsRecent
<1>1. RotationInv => RestoredIsRecent
  BY RegistryRecent DEF RotationInv
<1> QED BY <1>1, RotationAlways, PTL

\* Whatever the agent does, its daemon's registry does what the registry does by itself:
\* register_agent and the start of the daemon are the only ones that change it.
THEOREM RegistryRefined == RotationSpec => [][Next]_vars
<1>1. ASSUME [RotationNext]_rotationVars PROVE [Next]_vars
  <2>1. ASSUME NEW c \in Call, Handle(c) \/ Proceed(c) \/ \E d \in Did, k \in Key : RegisterOther(c, d, k)
        PROVE  Next
    BY <2>1, RotationAssumption DEF Handle, Proceed, RegisterOther, Next
  <2>2. ASSUME NEW c \in Call, Send(c) \/ Answered(c) \/ GiveUp(c) \/ Verify(c) \/ Drop(c)
        PROVE  UNCHANGED vars
    BY <2>2 DEF Send, Answered, GiveUp, Verify, Decide, Drop
  <2>3. (\E k \in Key : Rotate(k)) \/ NewClient \/ SaveKey \/ SaveIdentity \/ RestartAgent
        => UNCHANGED vars
    BY DEF Rotate, NewClient, SaveKey, SaveIdentity, RestartAgent
  <2>4. CrashDaemon \/ OpenDaemon => Next
    BY DEF CrashDaemon, OpenDaemon, Next
  <2>5. UNCHANGED rotationVars => UNCHANGED vars
    BY DEF rotationVars
  <2> QED BY <1>1, <2>1, <2>2, <2>3, <2>4, <2>5 DEF RotationNext
<1> QED BY <1>1, PTL DEF RotationSpec

\* Under rotation as well, open refuses the file only after a registration that was cut
\* short or overlapped another one; the registration the file begins with may be missing.
THEOREM RotationRefuses == RotationSpec => []RefusesOnlyWhenTorn
<1>1. RotationInit => RegistryInv /\ RefusalInv
  <2> SUFFICES ASSUME RotationInit PROVE RefusalInv
    BY RotationStart DEF RotationInv
  <2>1. /\ status = "up" /\ before = [c \in Call |-> {}]
        /\ \A c \in Call : call[c] # "write"
        /\ file = << >> \/ file = Text(Boot)
    BY DEF RotationInit
  <2>2. Succession(file) /\ Complete(file)
    <3>1. CASE file = << >>
      BY <3>1 DEF Succession, Complete
    <3>2. CASE file = Text(Boot)
      <4>1. /\ Len(file) = 3 /\ file # << >> /\ file[1].part = "head" /\ file[2].part = "tail"
            /\ file[3].part = "nl" /\ \A p \in 1..3 : file[p].rec = Boot
        BY <3>2, RotationAssumption DEF Text
      <4>2. Complete(file)
        BY <4>1 DEF Complete
      <4>3. ASSUME NEW p \in 1..3
            PROVE  /\ file[p].part = "head" => p = 1 \/ file[p - 1].part = "nl"
                   /\ file[p].part = "tail" =>
                        p > 1 /\ file[p - 1].part = "head" /\ file[p - 1].rec = file[p].rec
                   /\ file[p].part = "nl" =>
                        p > 1 /\ file[p - 1].part = "tail" /\ file[p - 1].rec = file[p].rec
        <5>1. (p = 1) \/ (p = 2 /\ p - 1 = 1) \/ (p = 3 /\ p - 1 = 2)
          OBVIOUS
        <5> QED BY <4>1, <5>1
      <4> QED BY <4>1, <4>2, <4>3 DEF Succession
    <3> QED BY <2>1, <3>1, <3>2
  <2> QED BY <2>1, <2>2 DEF RefusalInv, OrderlyInv
<1> QED BY <1>1, RegistryStep, RefusalStep, RefusalExplained, RegistryRefined, PTL DEF RotationSpec

\* An agent that gives up keys with care is not locked out, whatever fails, but by a
\* registration of it that another agent made.
THEOREM RotationTheorem == RotationSpec => []NotLockedOut
<1>1. RotationInv => NotLockedOut
  <2> SUFFICES ASSUME RotationInv, status = "up", Registered # None, ~ careless,
                      Registered \notin Held, ~ ByOther(memory[Agent])
               PROVE  FALSE
    BY DEF NotLockedOut
  <2>1. Registered \in Key \ Held
    BY RotationAssumption DEF Registered, RotationInv, RotationTypeOK, TypeOK
  <2>2. memory[Agent] \in Registers(Registered)
    <3>1. memory[Agent] \in Call /\ Registered = publicKey[memory[Agent]]
      BY RotationAssumption DEF Registered, RotationInv, RotationTypeOK, TypeOK
    <3>2. call[memory[Agent]] # "free"
      BY <3>1, RotationAssumption, NoneAssumption DEF RotationInv, RegistryInv, MemoryInv
    <3> QED BY <3>1, <3>2 DEF Registers
  <2>3. Settled(Registered, {})
    BY <2>1, <2>2 DEF RotationInv, LostInv
  <2> QED BY <2>1, <2>3, SettledGone, RotationAssumption DEF RotationInv
<1> QED BY <1>1, RotationAlways, PTL

\* Nothing is registered by what is signed with a replaced key, unless another agent
\* has registered that key for the agent.
THEOREM PowerlessTheorem == RotationSpec => []ReplacedKeyPowerless
<1>1. RotationInv => ReplacedKeyPowerless
  BY DEF RotationInv, PowerlessInv, Foreign, ReplacedKeyPowerless
<1> QED BY <1>1, RotationAlways, PTL

\* A daemon without a registration, or with the wrong attestation key, registers no one.
THEOREM NothingTheorem == RotationSpec => []NothingFromNothing
<1>1. RotationInv => NothingFromNothing
  BY DEF RotationInv, NothingInv, NothingFromNothing
<1> QED BY <1>1, RotationAlways, PTL
================================================================================
