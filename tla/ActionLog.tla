------------------------------ MODULE ActionLog ------------------------------
(***************************************************************************)
(* FileActionLog, the append-only audit log of the daemon: a JSON-lines    *)
(* file whose records are chained by hash, and a checkpoint file beside it *)
(* that holds the hash of the last record for the next process to resume   *)
(* from.                                                                   *)
(*                                                                         *)
(* append holds the last_hash mutex from its first to its last line, so at *)
(* most one append is in flight and pc is its position; readers take no    *)
(* lock and see file as it is in any state.  compute_hash leaves prev_hash *)
(* out and record_id is a fresh UUID, so a record's id stands for its      *)
(* hash.                                                                   *)
(***************************************************************************)
EXTENDS JsonlFile, FiniteSets

CONSTANTS MaxRecords,  \* appends begun in a behaviour
          MaxCrashes,  \* crashes in the middle of an append
          MaxFaults    \* I/O errors

ASSUME BoundsAssumption == /\ MaxRecords \in Nat
                           /\ MaxCrashes \in Nat
                           /\ MaxFaults \in Nat

Genesis == 0            \* the last_hash of an empty log
Id == 1..MaxRecords
Record == [id : Id, prev : Id \cup {Genesis}]

VARIABLES
  file,        \* the log file
  buf,         \* what the BufWriter holds and has not written to the file
  lastHash,    \* the last_hash behind the mutex
  checkpoint,  \* hash in the checkpoint file; Genesis if it is absent or unreadable
  pc,          \* the append in flight: "idle" (none), "flush", "hashed", "truncated";
               \* "down" while no process has the log open
  cur,         \* the record of that append, or of the last one
  next,        \* the id of the next record
  crashes, faults,
  \* History, to state the properties:
  acked,       \* ids of the records append returned Ok for
  broken,      \* since the last append began, it was cut short or the process ended
               \* without its checkpoint
  afterBreak   \* ids of the records whose append began with broken true

vars == <<file, buf, lastHash, checkpoint, pc, cur, next, crashes, faults,
          acked, broken, afterBreak>>
history == <<acked, broken, afterBreak>>

Init == /\ file = << >> /\ buf = << >>
        /\ lastHash = Genesis /\ checkpoint = Genesis
        /\ pc = "idle" /\ cur = [id |-> Genesis, prev |-> Genesis] /\ next = 1
        /\ crashes = 0 /\ faults = 0
        /\ acked = {} /\ broken = FALSE /\ afterBreak = {}

------------------------------------------------------------------------------
(* append *)

\* Lock last_hash, chain the record to it and write its text to the BufWriter,
\* behind whatever an earlier, failed flush left there.
BeginAppend ==
  /\ pc = "idle" /\ next \in Id
  /\ LET r == [id |-> next, prev |-> lastHash]
     IN  cur' = r /\ buf' = buf \o Text(r)
  /\ pc' = "flush" /\ next' = next + 1
  /\ broken' = FALSE
  /\ afterBreak' = IF broken THEN afterBreak \cup {next} ELSE afterBreak
  /\ UNCHANGED <<file, lastHash, checkpoint, crashes, faults, acked>>

\* The kernel takes some of the bytes; a write may be short.
WriteOut ==
  /\ pc = "flush" /\ buf # << >>
  /\ file' = Append(file, Head(buf)) /\ buf' = Tail(buf)
  /\ UNCHANGED <<lastHash, checkpoint, pc, cur, next, crashes, faults, history>>

\* write_all or flush fails and append returns the error.  What the BufWriter
\* accepted stays in it.  What it did not accept is lost: the newline, when the
\* full buffer could not be flushed for it (1); the rest of a record too large
\* to be buffered (2); the whole record, when older bytes could not be flushed
\* or writing the large record failed at once (3).
WriteError ==
  /\ pc = "flush" /\ buf # << >> /\ faults < MaxFaults
  /\ \E lost \in 0..3 :
       /\ lost = 1 => Len(buf) >= 2
       /\ lost = 2 => Len(buf) = 2
       /\ lost = 3 => Len(buf) >= 3
       /\ buf' = SubSeq(buf, 1, Len(buf) - lost)
  /\ pc' = "idle" /\ faults' = faults + 1 /\ broken' = TRUE
  /\ UNCHANGED <<file, lastHash, checkpoint, cur, next, crashes, acked, afterBreak>>

\* Mutant: append does not flush.
UpdateHashUnflushed ==
  /\ pc = "flush"
  /\ lastHash' = cur.id /\ pc' = "hashed"
  /\ UNCHANGED <<file, buf, checkpoint, cur, next, crashes, faults, history>>

\* Mutant: append leaves the last hash as it was.
UpdateHashForgotten ==
  /\ pc = "flush" /\ buf = << >> /\ pc' = "hashed"
  /\ UNCHANGED <<lastHash, file, buf, checkpoint, cur, next, crashes, faults, history>>

\* The flush is done: *lh = record.compute_hash().
UpdateHash ==
  /\ pc = "flush" /\ buf = << >>
  /\ lastHash' = cur.id /\ pc' = "hashed"
  /\ UNCHANGED <<file, buf, checkpoint, cur, next, crashes, faults, history>>

\* The writer's metadata, or opening the checkpoint file, fails.
CheckpointOpenError ==
  /\ pc = "hashed" /\ faults < MaxFaults
  /\ pc' = "idle" /\ faults' = faults + 1
  /\ UNCHANGED <<file, buf, lastHash, checkpoint, cur, next, crashes, history>>

\* std::fs::write truncates the checkpoint file before it writes it.
TruncateCheckpoint ==
  /\ pc = "hashed"
  /\ checkpoint' = Genesis /\ pc' = "truncated"
  /\ UNCHANGED <<file, buf, lastHash, cur, next, crashes, faults, history>>

CheckpointWriteError ==
  /\ pc = "truncated" /\ faults < MaxFaults
  /\ pc' = "idle" /\ faults' = faults + 1
  /\ UNCHANGED <<file, buf, lastHash, checkpoint, cur, next, crashes, history>>

\* Mutant: the checkpoint is written with the hash before the record's.
WriteCheckpointBehind ==
  /\ pc = "truncated"
  /\ checkpoint' = cur.prev /\ pc' = "idle"
  /\ acked' = acked \cup {cur.id}
  /\ UNCHANGED <<file, buf, lastHash, cur, next, crashes, faults, broken, afterBreak>>

\* The checkpoint is complete and append returns Ok.
WriteCheckpoint ==
  /\ pc = "truncated"
  /\ checkpoint' = lastHash /\ pc' = "idle"
  /\ acked' = acked \cup {cur.id}
  /\ UNCHANGED <<file, buf, lastHash, cur, next, crashes, faults, broken, afterBreak>>

------------------------------------------------------------------------------
(* The life of the process *)

\* The process ends between appends.  The last append may have returned an error.
Stop ==
  /\ pc = "idle"
  /\ pc' = "down" /\ buf' = << >>
  /\ broken' = (broken \/ checkpoint # lastHash)
  /\ UNCHANGED <<file, lastHash, checkpoint, cur, next, crashes, faults, acked, afterBreak>>

\* The process is killed during an append.  The file keeps what the kernel was given.
Crash ==
  /\ pc \in {"flush", "hashed", "truncated"} /\ crashes < MaxCrashes
  /\ pc' = "down" /\ buf' = << >>
  /\ crashes' = crashes + 1 /\ broken' = TRUE
  /\ UNCHANGED <<file, lastHash, checkpoint, cur, next, faults, acked, afterBreak>>

\* Mutant: open ignores the checkpoint.
OpenFromGenesis ==
  /\ pc = "down"
  /\ lastHash' = Genesis /\ pc' = "idle"
  /\ UNCHANGED <<file, buf, checkpoint, cur, next, crashes, faults, history>>

\* FileActionLog::open resumes from the checkpoint alone: it does not read the
\* log, and the offset it seeks to has no effect on a file opened for append.
Open ==
  /\ pc = "down"
  /\ lastHash' = checkpoint /\ pc' = "idle"
  /\ UNCHANGED <<file, buf, checkpoint, cur, next, crashes, faults, history>>

Next == \/ BeginAppend \/ WriteOut \/ WriteError \/ UpdateHash
        \/ CheckpointOpenError \/ TruncateCheckpoint \/ CheckpointWriteError
        \/ WriteCheckpoint \/ Stop \/ Crash \/ Open

Spec == Init /\ [][Next]_vars

------------------------------------------------------------------------------
(* verify_chain *)

\* The record on the line at p does not name the one on the line before it.
\* A line that parses is three pieces long.
Violation(s, p) ==
  /\ RecordLine(s, p)
  /\ IF p = 1 THEN s[p].rec.prev # Genesis
     ELSE p > 3 /\ RecordLine(s, p - 3) /\ s[p].rec.prev # s[p - 3].rec.id

\* verify_chain returns Ok of an empty list.
Verifies(s) == Parses(s) /\ ~ \E p \in 1..Len(s) : Violation(s, p)

------------------------------------------------------------------------------
(* Properties *)

TypeOK ==
  /\ file \in Seq(Piece(Record)) /\ buf \in Seq(Piece(Record))
  /\ lastHash \in Id \cup {Genesis} /\ checkpoint \in Id \cup {Genesis}
  /\ pc \in {"idle", "flush", "hashed", "truncated", "down"}
  /\ cur \in [id : Id \cup {Genesis}, prev : Id \cup {Genesis}]
  /\ pc \in {"flush", "hashed", "truncated"} => cur \in Record
  /\ next \in 1..(MaxRecords + 1)
  /\ crashes \in 0..MaxCrashes /\ faults \in 0..MaxFaults
  /\ acked \subseteq Id /\ afterBreak \subseteq Id /\ broken \in BOOLEAN

\* Whenever a reader looks, a record verify_chain would report is one that was
\* appended first after an append had been cut short (broken): crashes and I/O errors
\* at any step, and restarts, make no other link of the chain look tampered with.
ViolationsExplained ==
  \A p \in 1..Len(file) : Violation(file, p) => file[p].rec.id \in afterBreak

\* verify_chain reports at most one record for each crash and each I/O error.
ViolationsBounded ==
  Cardinality({p \in 1..Len(file) : Violation(file, p)}) <= crashes + faults

\* A record whose append returned Ok is in the file from then on, whole, and on
\* a line of its own unless an append before it had been cut short.
AckedDurable ==
  \A id \in acked : \E p \in 1..Len(file) :
    /\ RecordAt(file, p) /\ file[p].rec.id = id
    /\ id \notin afterBreak => LineStart(file, p)

\* Up to the first crash or I/O error the lines of the file are an audit chain,
\* across any number of restarts: a record joins it when its text is complete.
\* (What holds from then on, ViolationsExplained says.)
Chain == INSTANCE AuditChain WITH
           chain <- IF crashes + faults > 0 THEN << >>
                    ELSE [k \in 1..((Len(file) + 1) \div 3) |-> file[3 * k - 2].rec],
           failed <- crashes + faults > 0
RefinesAuditChain == Chain!Spec

------------------------------------------------------------------------------
(* What src/chaos_test.sh requires: it kills the daemon with signal 9 "mid-   *)
(* write", starts it again, and `agt log verify` must then exit with 0.       *)

\* The log can be read: verify_chain returns Ok.
ReadableAfterRestart == pc = "idle" => Parses(file)

\* A log that can be read is reported intact: verify_chain returns no violation.
IntactAfterRestart == pc = "idle" /\ Parses(file) => Verifies(file)
==============================================================================
