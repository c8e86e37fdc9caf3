--------------------------------- MODULE OLC ---------------------------------
(***************************************************************************)
(* Offset-Line-Character: the index that turns the byte offset of an error *)
(* into an LSP position, a line and a UTF-16 offset in it, and back.       *)
(* OLC::new reads the text character by character, one action each; the    *)
(* two lookups read the finished index, and no longer the text.            *)
(***************************************************************************)
EXTENDS Utf8, FiniteSets

CONSTANT Inputs   \* the texts that are indexed

ASSUME OLCAssumption == \A s \in Inputs : s \in Text /\ IsUtf8(s)

Newline == 10

VARIABLES
  input,
  built,           \* has OLC::new returned?
  i,               \* where the next character starts
  lines,           \* OLC::lines
  line_start,
  checkpoints,     \* of the line that starts at line_start
  utf16_in_line

vars == <<input, built, i, lines, line_start, checkpoints, utf16_in_line>>

\* How far bytes and UTF-16 units are apart changes at checkpoints only.
Checkpoint == [byte : Nat, utf16 : Nat]
Line == [start : Nat, checkpoints : Seq(Checkpoint)]

-----------------------------------------------------------------------------
(***************************************************************************)
(* OLC::new.                                                               *)
(***************************************************************************)

Init ==
  /\ input \in Inputs
  /\ built = FALSE
  /\ i = 0
  /\ lines = <<>>
  /\ line_start = 0
  /\ checkpoints = <<>>
  /\ utf16_in_line = 0

CloseLine ==
  lines' = Append(lines, [start |-> line_start, checkpoints |-> checkpoints])

\* Bug: the next line keeps the checkpoints of the last.
BugKeepCheckpoints ==
  /\ ~built
  /\ i < Len(input)
  /\ input[i + 1] = Newline
  /\ CloseLine
  /\ i' = i + 1
  /\ line_start' = i + 1
  /\ utf16_in_line' = 0
  /\ UNCHANGED <<input, built, checkpoints>>

EndLine ==
  /\ ~built
  /\ i < Len(input)
  /\ input[i + 1] = Newline
  /\ CloseLine
  /\ i' = i + 1
  /\ line_start' = i + 1
  /\ checkpoints' = <<>>
  /\ utf16_in_line' = 0
  /\ UNCHANGED <<input, built>>

\* Bug: a checkpoint before the non-ASCII character, not after it.
BugCheckpointBefore(end) ==
  IF end - i > 1
  THEN Append(checkpoints, [byte |-> i - line_start, utf16 |-> utf16_in_line])
  ELSE checkpoints

\* Bug: the difference of the two offsets is stored.
BugStoreDifference(end) ==
  IF end - i > 1
  THEN Append(checkpoints,
              [byte  |-> end - line_start,
               utf16 |-> utf16_in_line + Utf16Len(end - i) - (end - line_start)])
  ELSE checkpoints

\* A non-ASCII character leaves a checkpoint after it.
CheckpointsAfter(end) ==
  IF end - i > 1
  THEN Append(checkpoints,
              [byte  |-> end - line_start,
               utf16 |-> utf16_in_line + Utf16Len(end - i)])
  ELSE checkpoints

Character ==
  /\ ~built
  /\ i < Len(input)
  /\ input[i + 1] # Newline
  /\ \E end \in i + 1 .. Len(input) :
       /\ IsChar(input, i, end)
       /\ utf16_in_line' = utf16_in_line + Utf16Len(end - i)
       /\ checkpoints' = CheckpointsAfter(end)
       /\ i' = end
  /\ UNCHANGED <<input, built, lines, line_start>>

\* The last line needs no newline.
Built ==
  /\ ~built
  /\ i = Len(input)
  /\ CloseLine
  /\ built' = TRUE
  /\ UNCHANGED <<input, i, line_start, checkpoints, utf16_in_line>>

Next == EndLine \/ Character \/ Built

Spec == Init /\ [][Next]_vars

-----------------------------------------------------------------------------
(***************************************************************************)
(* The lookups.                                                            *)
(***************************************************************************)

\* slice::partition_point(|k| k <= limit): how many keys pass, if those that
\* pass come first.  What it answers otherwise is unspecified.
PartitionPoint(keys, limit) ==
  CHOOSE k \in 0..Len(keys) : \A j \in 1..Len(keys) : keys[j] <= limit <=> j <= k

Starts        == [l \in 1..Len(lines) |-> lines[l].start]
BytesOf(line) == [c \in 1..Len(line.checkpoints) |-> line.checkpoints[c].byte]
UnitsOf(line) == [c \in 1..Len(line.checkpoints) |-> line.checkpoints[c].utf16]

\* Bug: the UTF-16 unit is looked up among the bytes.
BugUnitAmongBytes(line, unit) == PartitionPoint(BytesOf(line), unit)

\* The number of checkpoints at or before a byte, or a UTF-16 unit.
CheckpointAtByte(line, byte) == PartitionPoint(BytesOf(line), byte)
CheckpointAtUnit(line, unit)   == PartitionPoint(UnitsOf(line), unit)

\* Zero-indexed line of an offset.
LineOf(offset) == PartitionPoint(Starts, offset) - 1

offset_to_line_character(offset) ==
  LET line == lines[LineOf(offset) + 1]
      byte_in_line == offset - line.start
      idx == CheckpointAtByte(line, byte_in_line)
  IN <<LineOf(offset),
       IF idx = 0 THEN byte_in_line
       ELSE line.checkpoints[idx].utf16
              + (byte_in_line - line.checkpoints[idx].byte)>>

line_character_to_offset(position) ==
  LET line == lines[position[1] + 1]
      idx == CheckpointAtUnit(line, position[2])
  IN line.start
       + (IF idx = 0 THEN position[2]
          ELSE line.checkpoints[idx].byte
                 + (position[2] - line.checkpoints[idx].utf16))

-----------------------------------------------------------------------------
(***************************************************************************)
(* What a position is, read off the text: the reference function of the    *)
(* unit tests.                                                             *)
(***************************************************************************)

\* The newlines before an offset, as the offsets they end at.
LineEnds(s, offset) == {p \in 1..offset : s[p] = Newline}

\* Where the line of an offset starts.
LineStart(s, offset) ==
  CHOOSE p \in {0} \cup LineEnds(s, offset) : \A q \in LineEnds(s, offset) : q <= p

\* The UTF-16 units of s[p..e]: one a character, and one more if it is
\* outside the Basic Multilingual Plane.
Utf16Units(s, p, e) ==
  Cardinality({q \in p .. e - 1 : IsBoundary(s, q)})
    + Cardinality({q \in p .. e - 1 : IsChar(s, q, q + 4)})

Position(s, offset) ==
  <<Cardinality(LineEnds(s, offset)),
    Utf16Units(s, LineStart(s, offset), offset)>>

Boundaries(s) == {p \in 0..Len(s) : IsBoundary(s, p)}

-----------------------------------------------------------------------------
(***************************************************************************)
(* Properties.                                                             *)
(***************************************************************************)

\* Every variable has its type.
TypeOK ==
  /\ input \in Text
  /\ built \in BOOLEAN
  /\ i \in Nat
  /\ lines \in Seq(Line)
  /\ line_start \in Nat
  /\ checkpoints \in Seq(Checkpoint)
  /\ utf16_in_line \in Nat

Increasing(keys) == \A j, k \in 1..Len(keys) : j < k => keys[j] < keys[k]

\* The binary searches are sound: line starts increase, from zero, and so do
\* the checkpoints of each line, in bytes and in UTF-16 units.
IndexSorted ==
  /\ Increasing(Starts)
  /\ lines # <<>> => lines[1].start = 0
  /\ \A l \in 1..Len(lines) :
       Increasing(BytesOf(lines[l])) /\ Increasing(UnitsOf(lines[l]))

\* offset_to_line_character answers what the reference of the unit tests
\* (olc.rs:76) does, at every character boundary of every text.
AgreesWithReference ==
  built => \A offset \in Boundaries(input) :
    offset_to_line_character(offset) = Position(input, offset)

\* line_character_to_offset inverts offset_to_line_character on character
\* boundaries (olc.rs:176).
RoundTrips ==
  built => \A offset \in Boundaries(input) :
    line_character_to_offset(offset_to_line_character(offset)) = offset
=============================================================================
