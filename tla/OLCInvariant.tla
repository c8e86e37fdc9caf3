---------------------------- MODULE OLCInvariant ----------------------------
(***************************************************************************)
(* Why the index is right: what OLC::new has collected at any moment       *)
(* describes the text read so far, line by line, in terms of the text      *)
(* alone.                                                                  *)
(***************************************************************************)
EXTENDS OLC

\* The line that is being read, as if it ended here.
CurrentLine == [start |-> line_start, checkpoints |-> checkpoints]

\* All lines of input[..i].
LinesSoFar == IF built THEN lines ELSE Append(lines, CurrentLine)

\* Where line l of ls ends, without its newline, if the last one ends at e.
EndOf(ls, l, e) == IF l = Len(ls) THEN e ELSE ls[l + 1].start - 1

\* A checkpoint of a line counts the UTF-16 units from the start of the line.
Counts(s, line, checkpoint) ==
  LET offset == line.start + checkpoint.byte
  IN /\ IsBoundary(s, offset)
     /\ checkpoint.utf16 = Utf16Units(s, line.start, offset)

\* Between two characters of a line there is a checkpoint wherever one byte is
\* not one unit.
Checked(s, line, e) ==
  \A p, q \in line.start .. e :
    p < q /\ ~IsBoundary(s, p) /\ IsBoundary(s, q) =>
      \E c \in 1..Len(line.checkpoints) :
        /\ p < line.start + line.checkpoints[c].byte
        /\ line.start + line.checkpoints[c].byte <= q

\* s[line.start..e] is one line, or the beginning of one, and line describes it.
LineOK(s, line, e) ==
  /\ line.start <= e
  /\ e <= Len(s)
  /\ \A p \in line.start + 1 .. e : s[p] # Newline
  /\ \A c \in 1..Len(line.checkpoints) :
       /\ line.checkpoints[c].byte \in 1 .. e - line.start
       /\ Counts(s, line, line.checkpoints[c])
  /\ Increasing(BytesOf(line))
  /\ Checked(s, line, e)

\* A line but the first starts behind a newline, and lines are counted by them.
StartOK(s, ls, l) ==
  LET start == ls[l].start
  IN /\ IF l = 1 THEN start = 0 ELSE start \in 1..Len(s) /\ s[start] = Newline
     /\ Cardinality(LineEnds(s, start)) = l - 1

\* ls are the lines of s[..e].
LinesOK(s, ls, e) ==
  /\ ls # <<>>
  /\ \A l \in 1..Len(ls) : StartOK(s, ls, l) /\ LineOK(s, ls[l], EndOf(ls, l, e))
  /\ \A j, k \in 1..Len(ls) : j < k => ls[j].start < ls[k].start

\* The inductive invariant.
IndexInv ==
  /\ TypeOK
  /\ IsUtf8(input)
  /\ IsBoundary(input, i)
  /\ built => i = Len(input)
  /\ utf16_in_line = Utf16Units(input, line_start, i)
  /\ LinesOK(input, LinesSoFar, i)
=============================================================================
