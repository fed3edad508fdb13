-------------------------- MODULE AgentRegistryFile --------------------------
(***************************************************************************)
(* FileAgentRegistry, the registry of a daemon that was given a registry   *)
(* log: a map in memory that answers the lookups, and a JSON-lines file of *)
(* registrations that fills it again when the daemon starts.               *)
(*                                                                         *)
(* A call of register holds a lock only while it updates the map.  It then *)
(* opens the file for append and writes the record and the newline in two  *)
(* calls, so registrations on different threads interleave everywhere.     *)
(* A call is made once and stands for what it registers, key and ring.     *)
(***************************************************************************)
EXTENDS JsonlFile

CONSTANTS Call, Did, None

ASSUME NoneAssumption == None \notin Call /\ None \notin Did

VARIABLES
  memory,  \* DID -> the call whose key and ring the map holds, or None
  file,    \* the registry log
  status,  \* of the daemon: "up", "down", or "refused": open returned an error
  call,    \* call -> where it is
  rest,    \* call -> what it has still to write of its record
  did,     \* call -> the DID it registers, or None
  \* History, to state the properties:
  before   \* call -> the calls that had ended when it began

vars == <<memory, file, status, call, rest, did, before>>

Init == /\ memory = [d \in Did |-> None] /\ file = << >> /\ status = "up"
        /\ call = [c \in Call |-> "free"] /\ rest = [c \in Call |-> << >>]
        /\ did = [c \in Call |-> None] /\ before = [c \in Call |-> {}]

Ended == {c \in Call : call[c] \in {"ok", "err", "gone"}}

\* Mutant: the newline is not written.
RegisterNoNewline(c, d) ==
  /\ status = "up" /\ call[c] = "free"
  /\ memory' = [memory EXCEPT ![d] = c]
  /\ call' = [call EXCEPT ![c] = "write"]
  /\ rest' = [rest EXCEPT ![c] = SubSeq(Text(c), 1, 2)]
  /\ did' = [did EXCEPT ![c] = d]
  /\ before' = [before EXCEPT ![c] = Ended]
  /\ UNCHANGED <<file, status>>

\* The map comes first: lookups see a registration before it is on disk.
Register(c, d) ==
  /\ status = "up" /\ call[c] = "free"
  /\ memory' = [memory EXCEPT ![d] = c]
  /\ call' = [call EXCEPT ![c] = "write"]
  /\ rest' = [rest EXCEPT ![c] = Text(c)]
  /\ did' = [did EXCEPT ![c] = d]
  /\ before' = [before EXCEPT ![c] = Ended]
  /\ UNCHANGED <<file, status>>

\* Mutant: a short write counts as a complete one.
WriteShort(c) ==
  /\ call[c] = "write"
  /\ file' = Append(file, Head(rest[c])) /\ rest' = [rest EXCEPT ![c] = Tail(@)]
  /\ call' = [call EXCEPT ![c] = "ok"]
  /\ UNCHANGED <<memory, status, did, before>>

\* One write to the file: at least a piece of the record, and never its newline
\* along with it.  register returns Ok when all is written.
Write(c) ==
  /\ call[c] = "write"
  /\ \E n \in 1..(IF Len(rest[c]) > 1 THEN Len(rest[c]) - 1 ELSE 1) :
       /\ file' = file \o SubSeq(rest[c], 1, n)
       /\ rest' = [rest EXCEPT ![c] = SubSeq(@, n + 1, Len(@))]
       /\ call' = [call EXCEPT ![c] = IF n = Len(rest[c]) THEN "ok" ELSE "write"]
  /\ UNCHANGED <<memory, status, did, before>>

\* Opening or writing the file fails and register returns the error.  The map
\* keeps the registration and the file what was written of it.
WriteError(c) ==
  /\ call[c] = "write"
  /\ call' = [call EXCEPT ![c] = "err"] /\ rest' = [rest EXCEPT ![c] = << >>]
  /\ UNCHANGED <<memory, file, status, did, before>>

\* The daemon ends, by a kill or otherwise.
Crash ==
  /\ status = "up"
  /\ status' = "down" /\ memory' = [d \in Did |-> None]
  /\ call' = [c \in Call |-> IF call[c] = "write" THEN "gone" ELSE call[c]]
  /\ rest' = [c \in Call |-> << >>]
  /\ UNCHANGED <<file, did, before>>

\* open skips empty lines and fails on any other line that is not a record.
Empty(p) == LineStart(file, p) /\ file[p].part = "nl"
Loads == \A p \in 1..Len(file) :
           LineStart(file, p) => Empty(p) \/ RecordLine(file, p)

\* The last record of a DID wins.
Lines(d) == {p \in 1..Len(file) : RecordLine(file, p) /\ did[file[p].rec] = d}
\* Mutant: the first record of a DID wins.
ReplayFirst == [d \in Did |->
                  IF Lines(d) = {} THEN None
                  ELSE file[CHOOSE p \in Lines(d) : \A q \in Lines(d) : q >= p].rec]
Replay == [d \in Did |->
             IF Lines(d) = {} THEN None
             ELSE file[CHOOSE p \in Lines(d) : \A q \in Lines(d) : q <= p].rec]

Open ==
  /\ status \in {"down", "refused"}
  /\ IF Loads THEN status' = "up" /\ memory' = Replay
              ELSE status' = "refused" /\ UNCHANGED memory
  /\ UNCHANGED <<file, call, rest, did, before>>

Next == \/ \E c \in Call : \/ \E d \in Did : Register(c, d)
                           \/ Write(c) \/ WriteError(c)
        \/ Crash \/ Open

Spec == Init /\ [][Next]_vars

-------------------------------------------------------------------------------
(* Properties *)

TypeOK == /\ memory \in [Did -> Call \cup {None}]
          /\ file \in Seq(Piece(Call)) /\ status \in {"up", "down", "refused"}
          /\ call \in [Call -> {"free", "write", "ok", "err", "gone"}]
          /\ rest \in [Call -> Seq(Piece(Call))]
          /\ \A c \in Call : call[c] = "write" <=> rest[c] # << >>
          /\ did \in [Call -> Did \cup {None}] /\ before \in [Call -> SUBSET Call]

\* A daemon that is up knows every DID whose registration returned Ok, from
\* before a restart as well, and never by a registration that had ended when one
\* that returned Ok began.
RestoredIsRecent ==
  status = "up" => \A c \in Call : call[c] = "ok" =>
    /\ memory[did[c]] # None
    /\ memory[did[c]] \notin before[c]

Cut == \E c \in Call : call[c] \in {"err", "gone"}
Overlap == \E c, d \in Call : /\ c # d /\ call[c] # "free" /\ call[d] # "free"
                              /\ c \notin before[d] /\ d \notin before[c]

\* The daemon refuses to start only after a registration was cut short or two of
\* them ran at once; and one that was cut short is not enough as long as no other
\* is made after it, unless the cut is within its record.
RefusesOnlyWhenTorn ==
  status = "refused" =>
    \/ Overlap
    \/ \E c \in Call : /\ call[c] \in {"err", "gone"}
                       /\ \/ \E d \in Call : c \in before[d]
                          \/ file[Len(file)] = Text(c)[1]

-------------------------------------------------------------------------------
(* What the code and its documents say and the code does not keep *)

Quiet == \A c \in Call : call[c] # "write"

\* The comment on the writes, "Persist to disk (atomic append)": when every
\* registration has returned Ok, the file can be read.
AppendsAreAtomic == Quiet /\ ~ Cut => Loads

\* ADR-006, "Ensure the registry survives process restarts": when every
\* registration has returned Ok and the file can be read, a restart brings back
\* the registry the daemon was using.
RestartKeepsRegistry == status = "up" /\ Quiet /\ ~ Cut /\ Loads => Replay = memory

\* ADR-006, "Daemon Crash: Solved by Scenario B (File-backed storage)": a daemon
\* that crashed can be started again (registrations that overlap aside).
SurvivesCrash == status = "refused" => Overlap
===============================================================================
