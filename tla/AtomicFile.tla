------------------------------ MODULE AtomicFile ------------------------------
(***************************************************************************)
(* The file in which FilePolicyStore keeps an agent's policy, and           *)
(* FileKeyStore an agent's key: the two stores save, load and delete in the *)
(* same way.  The file is replaced by writing another one, whose name is    *)
(* the same for every save, and renaming it.  Nothing keeps the calls apart *)
(* and the process may be killed in any of them.                            *)
(*                                                                         *)
(* A file is an inode that names refer to: a save that has the temporary   *)
(* file open goes on writing to it after another save has renamed it.  Each *)
(* call is made once and opens one file at most, so an inode is named by    *)
(* the call that creates it.                                                *)
(***************************************************************************)
EXTENDS Integers, Sequences, FiniteSets

CONSTANTS Call,    \* the calls of save, load and delete; each is made once
          Item,    \* policies, or keys
          Long,    \* the values with a longer text than the others
          Nil

ASSUME AtomicFileAssumption == Long \subseteq Item /\ Nil \notin Item /\ Nil \notin Call

VARIABLES
  path, tmp,  \* the inode of the file and of the temporary file, or Nil
  content,    \* inode -> its bytes; Nil is a byte of a hole
  call,       \* call -> where it is
  value,      \* call -> the value it saves or has loaded, or Nil
  inode,      \* call -> the file that it has open, or Nil
  offset,     \* call -> the bytes it has written
  \* History, to state the properties:
  before,     \* call -> the calls that had ended when it began
  faults      \* calls that met an I/O error

fileVars == <<path, tmp, content, call, value, inode, offset, before, faults>>

FileInit == /\ path = Nil /\ tmp = Nil /\ content = [c \in Call |-> << >>]
            /\ call = [c \in Call |-> "free"] /\ value = [c \in Call |-> Nil]
            /\ inode = [c \in Call |-> Nil] /\ offset = [c \in Call |-> 0]
            /\ before = [c \in Call |-> {}] /\ faults = {}

\* The JSON of a value.
Text(v) == [i \in 1..(IF v \in Long THEN 2 ELSE 1) |-> v]
Parses(s) == \E v \in Item : s = Text(v)

Ended == {"saved", "loaded", "deleted", "err", "dead"}
At(c, from, to) == call[c] = from /\ call' = [call EXCEPT ![c] = to]
Begins(c, to) ==
  /\ At(c, "free", to)
  /\ before' = [before EXCEPT ![c] = {d \in Call : call[d] \in Ended}]
Fails(c) == call' = [call EXCEPT ![c] = "err"] /\ faults' = faults \cup {c}

SaveBegins(c, v) == /\ Begins(c, "open") /\ value' = [value EXCEPT ![c] = v]
                    /\ UNCHANGED <<path, tmp, content, inode, offset, faults>>

\* Mutant: the temporary file is not truncated.
OpenTmpAppends(c) ==
  /\ At(c, "open", "write")
  /\ tmp' = (IF tmp = Nil THEN c ELSE tmp)
  /\ inode' = [inode EXCEPT ![c] = tmp'] /\ UNCHANGED content
  /\ UNCHANGED <<path, value, offset, before, faults>>

\* fs::write creates the temporary file, or opens and truncates it.
OpenTmp(c) ==
  /\ At(c, "open", "write")
  /\ tmp' = (IF tmp = Nil THEN c ELSE tmp)
  /\ inode' = [inode EXCEPT ![c] = tmp'] /\ content' = [content EXCEPT ![tmp'] = << >>]
  /\ UNCHANGED <<path, value, offset, before, faults>>

\* The bytes after offset up to n, written at their place.
Written(s, v, from, n) ==
  [i \in 1..(IF n > Len(s) THEN n ELSE Len(s)) |->
     IF i \in from + 1..n THEN v ELSE IF i <= Len(s) THEN s[i] ELSE Nil]

\* It writes the text, in any portions.
WriteTmp(c) ==
  LET text == Text(value[c])
  IN  \E n \in offset[c] + 1..Len(text) :
        /\ At(c, "write", IF n = Len(text) THEN "rename" ELSE "write")
        /\ content' = [content EXCEPT ![inode[c]] = Written(@, value[c], offset[c], n)]
        /\ offset' = [offset EXCEPT ![c] = n]
        /\ UNCHANGED <<path, tmp, value, inode, before, faults>>

\* Mutant: the file is renamed before it is complete.
RenameEarly(c) ==
  /\ call[c] \in {"write", "rename"} /\ tmp # Nil
  /\ path' = tmp /\ tmp' = Nil /\ call' = [call EXCEPT ![c] = "saved"]
  /\ UNCHANGED <<content, value, inode, offset, before, faults>>

\* Mutant: a file that exists is kept, its successor dropped.
RenameKeeps(c) ==
  /\ At(c, "rename", "saved")
  /\ path' = (IF path = Nil THEN tmp ELSE path) /\ tmp' = Nil
  /\ UNCHANGED <<content, value, inode, offset, before, faults>>

\* fs::rename puts the temporary file in the place of the file, if it is there.
Rename(c) ==
  \/ /\ tmp # Nil /\ At(c, "rename", "saved")
     /\ path' = tmp /\ tmp' = Nil
     /\ UNCHANGED <<content, value, inode, offset, before, faults>>
  \/ /\ tmp = Nil /\ At(c, "rename", "err")
     /\ UNCHANGED <<path, tmp, content, value, inode, offset, before, faults>>

\* An operation of save, load or delete on the file system fails.
IOError(c) ==
  /\ call[c] \in {"open", "write", "rename", "read", "remove"} /\ Fails(c)
  /\ UNCHANGED <<path, tmp, content, value, inode, offset, before>>

\* path.exists() answers that there is no file, too, when it cannot look: the error is
\* swallowed, and the call ends as if there was none.
Overlooks(c, to) == Begins(c, to) /\ faults' = faults \cup {c}

\* load asks whether the file exists...
LoadBegins(c) ==
  /\ \/ Begins(c, IF path = Nil THEN "loaded" ELSE "read") /\ UNCHANGED faults
     \/ Overlooks(c, "loaded")
  /\ UNCHANGED <<path, tmp, content, value, inode, offset>>

\* ...and then opens, reads and parses it.
Read(c) ==
  /\ IF path = Nil THEN At(c, "read", "err") /\ UNCHANGED value
     ELSE \/ /\ Parses(content[path]) /\ At(c, "read", "loaded")
             /\ value' = [value EXCEPT ![c] = content[path][1]]
          \/ ~ Parses(content[path]) /\ At(c, "read", "err") /\ UNCHANGED value
  /\ UNCHANGED <<path, tmp, content, inode, offset, before, faults>>

\* delete asks whether the file exists and then removes it.
DeleteBegins(c) ==
  /\ \/ Begins(c, IF path = Nil THEN "deleted" ELSE "remove") /\ UNCHANGED faults
     \/ Overlooks(c, "deleted")
  /\ UNCHANGED <<path, tmp, content, value, inode, offset>>

Remove(c) == /\ At(c, "remove", IF path = Nil THEN "err" ELSE "deleted") /\ path' = Nil
             /\ UNCHANGED <<tmp, content, value, inode, offset, before, faults>>

\* The process is killed and started again: the files stay.
Crash == /\ \E c \in Call : call[c] \notin Ended \cup {"free"}
         /\ call' = [c \in Call |-> IF call[c] \in Ended \cup {"free"} THEN call[c] ELSE "dead"]
         /\ UNCHANGED <<path, tmp, content, value, inode, offset, before, faults>>

FileNext == \/ \E c \in Call :
                 \/ \E v \in Item : SaveBegins(c, v)
                 \/ OpenTmp(c) \/ WriteTmp(c) \/ Rename(c) \/ IOError(c)
                 \/ LoadBegins(c) \/ Read(c) \/ DeleteBegins(c) \/ Remove(c)
            \/ Crash

FileSpec == FileInit /\ [][FileNext]_fileVars

------------------------------------------------------------------------------
(* Properties *)

FileTypeOK ==
  /\ path \in Call \cup {Nil} /\ tmp \in Call \cup {Nil}
  /\ content \in [Call -> Seq(Item \cup {Nil})] /\ \A c \in Call : Len(content[c]) <= 2
  /\ call \in [Call -> Ended \cup {"free", "open", "write", "rename", "read", "remove"}]
  /\ value \in [Call -> Item \cup {Nil}] /\ inode \in [Call -> Call \cup {Nil}]
  /\ offset \in [Call -> 0..2] /\ before \in [Call -> SUBSET Call] /\ faults \subseteq Call
  /\ \A c \in Call : call[c] = "rename" => offset[c] = Len(Text(value[c]))

IsSave(c) == value[c] # Nil /\ call[c] # "loaded"
Overlap(c, d) == /\ c # d /\ call[c] # "free" /\ call[d] # "free"
                 /\ c \notin before[d] /\ d \notin before[c]
SavesOverlap == \E c, d \in Call : IsSave(c) /\ IsSave(d) /\ Overlap(c, d)

\* A kill or an I/O error at any step of a save never leaves a file that does not
\* parse: that takes two saves of the same file at once.
TornExplained == path # Nil /\ ~ Parses(content[path]) => SavesOverlap

\* A delete that was acknowledged and did not overlook the file.
Deleted(d) == call[d] = "deleted" /\ d \notin faults
Effective(c) == call[c] = "saved" \/ Deleted(c)

\* A later save or delete was acknowledged before the load c began.
Superseded(d, c) == \E e \in before[c] : d \in before[e] /\ Effective(e)

\* What load returns was stored by a save that began before the load ended, and no save
\* or delete that came after that one, or after a save that overlapped it and may have
\* renamed its text, was acknowledged before the load began.  It finds nothing only if
\* no save was acknowledged, or because of a delete that was not superseded, or because
\* its own look at the file failed.  A delete whose look failed counts for nothing.
LoadRecent ==
  \A c \in Call : call[c] = "loaded" =>
    IF value[c] = Nil
    THEN \/ c \in faults
         \/ ~ \E e \in before[c] : call[e] = "saved"
         \/ \E d \in Call : Deleted(d) /\ c \notin before[d] /\ ~ Superseded(d, c)
    ELSE \E d, e \in Call : /\ IsSave(d) /\ value[d] = value[c] /\ c \notin before[d]
                            /\ d = e \/ (IsSave(e) /\ Overlap(d, e))
                            /\ c \notin before[e] /\ ~ Superseded(e, c)

\* A call that fails without an I/O error met another one: a save another save, a load
\* or a delete another delete or the trace of two saves.
ErrorsExplained ==
  \A c \in Call : call[c] = "err" /\ c \notin faults =>
    IF IsSave(c) THEN \E d \in Call : IsSave(d) /\ Overlap(c, d)
    ELSE SavesOverlap \/ \E d \in Call : Deleted(d) /\ Overlap(c, d)

\* What ADR-001 says of the rename: a partial write never results in a corrupted policy.
\* The code does not keep it when two saves of a policy overlap.
NeverCorrupted == path # Nil => Parses(content[path])
==============================================================================
