------------------------------ MODULE JsonlFile ------------------------------
(***************************************************************************)
(* A file of JSON lines, as FileActionLog and FileAgentRegistry keep one.  *)
(* Only what decides whether a line still parses is kept of its bytes: the *)
(* text of a record is two pieces, its "head" and its "tail", followed by  *)
(* the newline "nl".  A line parses as a record exactly when it consists   *)
(* of the head and the tail of one record; half a record, two records      *)
(* glued together and an empty line do not.  As with BufRead::lines, the   *)
(* newline of the last line may be missing.                                *)
(***************************************************************************)
EXTENDS Naturals, Sequences

Piece(Record) == [rec : Record, part : {"head", "tail", "nl"}]

\* The pieces serde_json::to_string(&r) and the newline after it consist of.
Text(r) == << [rec |-> r, part |-> "head"],
              [rec |-> r, part |-> "tail"],
              [rec |-> r, part |-> "nl"] >>

\* A line of s begins at position p.
LineStart(s, p) == p \in 1..Len(s) /\ (p = 1 \/ s[p - 1].part = "nl")

\* The text of one record, without its newline, is at position p.
RecordAt(s, p) == /\ p \in 1..Len(s) /\ p + 1 \in 1..Len(s)
                  /\ s[p].part = "head" /\ s[p + 1].part = "tail"
                  /\ s[p].rec = s[p + 1].rec

\* The line that begins at p is one record and nothing else.
RecordLine(s, p) == /\ LineStart(s, p) /\ RecordAt(s, p)
                    /\ p + 2 \in 1..Len(s) => s[p + 2].part = "nl"

\* Every line of s parses: a reader that stops at the first bad line succeeds.
Parses(s) == \A p \in 1..Len(s) : LineStart(s, p) => RecordLine(s, p)
==============================================================================
