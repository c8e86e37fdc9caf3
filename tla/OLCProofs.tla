------------------------------ MODULE OLCProofs ------------------------------
(***************************************************************************)
(* Proof that the line index agrees with the reference of the unit tests,  *)
(* and that its lookups invert each other, for texts of any length.        *)
(***************************************************************************)
EXTENDS OLCInvariant, TextTheorems, FiniteSetTheorems

-----------------------------------------------------------------------------
(***************************************************************************)
(* Binary search.                                                          *)
(***************************************************************************)

\* On increasing keys the search finds how many are up to the limit, ...
LEMMA SearchFinds ==
  ASSUME NEW keys \in Seq(Nat), Increasing(keys), NEW limit \in Nat
  PROVE  /\ PartitionPoint(keys, limit) \in 0..Len(keys)
         /\ \A j \in 1..Len(keys) :
              keys[j] <= limit <=> j <= PartitionPoint(keys, limit)
<1>1. Len(keys) \in Nat /\ \A j \in 1..Len(keys) : keys[j] \in Nat
  BY LenProperties, ElementOfSeq
<1> DEFINE Beyond == {j \in 1 .. Len(keys) + 1 : j = Len(keys) + 1 \/ keys[j] > limit}
<1>2. PICK m \in Beyond : \A k \in Beyond : m <= k
  <2>1. Len(keys) + 1 \in Beyond /\ Beyond \in SUBSET Nat
    BY <1>1
  <2> HIDE DEF Beyond
  <2> QED
    BY <2>1, LeastElement
<1>3. m - 1 \in 0..Len(keys)
  BY <1>1, <1>2
<1>4. \A j \in 1..Len(keys) : keys[j] <= limit <=> j <= m - 1
  <2> TAKE j \in 1..Len(keys)
  <2>1. ASSUME j <= m - 1 PROVE keys[j] <= limit
    <3>1. j \notin Beyond
      BY <1>1, <1>2, <2>1
    <3> QED
      BY <1>1, <3>1
  <2>2. ASSUME ~(j <= m - 1) PROVE ~(keys[j] <= limit)
    <3>1. m \in 1..Len(keys) /\ keys[m] > limit /\ m <= j
      BY <1>1, <1>2, <2>2
    <3>2. keys[m] <= keys[j]
      BY <1>1, <3>1 DEF Increasing
    <3> QED
      BY <1>1, <3>1, <3>2
  <2> QED
    BY <2>1, <2>2
<1>5. \E k \in 0..Len(keys) : \A j \in 1..Len(keys) : keys[j] <= limit <=> j <= k
  BY <1>3, <1>4
<1> QED
  BY <1>5 DEF PartitionPoint

\* ... and no other number will do.
LEMMA SearchAnswers ==
  ASSUME NEW keys \in Seq(Nat), NEW limit \in Nat, NEW k \in 0..Len(keys),
         \A j \in 1..Len(keys) : keys[j] <= limit <=> j <= k
  PROVE  PartitionPoint(keys, limit) = k
<1>1. Len(keys) \in Nat
  BY LenProperties
<1>2. ASSUME NEW m \in 0..Len(keys),
             \A j \in 1..Len(keys) : keys[j] <= limit <=> j <= m
      PROVE  m = k
  <2>1. ~(m < k)
    <3>1. m < k => k \in 1..Len(keys) /\ (k <= k <=> k <= m)
      BY <1>1, <1>2
    <3> QED
      BY <1>1, <3>1
  <2>2. ~(k < m)
    <3>1. k < m => m \in 1..Len(keys) /\ (m <= m <=> m <= k)
      BY <1>1, <1>2
    <3> QED
      BY <1>1, <3>1
  <2> QED
    BY <1>1, <2>1, <2>2
<1> QED
  BY <1>2 DEF PartitionPoint

-----------------------------------------------------------------------------
(***************************************************************************)
(* UTF-16 units.                                                           *)
(***************************************************************************)

\* What Utf16Units counts: the characters of s[p..e], and once more those of
\* four bytes.
Starting(s, p, e) == {q \in p .. e - 1 : IsBoundary(s, q)}
Wide(s, p, e)     == {q \in p .. e - 1 : IsChar(s, q, q + 4)}

LEMMA UnitsAreCounts ==
  ASSUME NEW s, NEW p \in Nat, NEW e \in Nat
  PROVE  /\ Utf16Units(s, p, e)
              = Cardinality(Starting(s, p, e)) + Cardinality(Wide(s, p, e))
         /\ IsFiniteSet(Starting(s, p, e)) /\ Cardinality(Starting(s, p, e)) \in Nat
         /\ IsFiniteSet(Wide(s, p, e)) /\ Cardinality(Wide(s, p, e)) \in Nat
         /\ Utf16Units(s, p, e) \in Nat
<1>1. IsFiniteSet(p .. e - 1)
  BY FS_Interval, p \in Int, e - 1 \in Int
<1>2. Starting(s, p, e) \in SUBSET (p .. e - 1) /\ Wide(s, p, e) \in SUBSET (p .. e - 1)
  BY DEF Starting, Wide
<1>3. IsFiniteSet(Starting(s, p, e)) /\ IsFiniteSet(Wide(s, p, e))
  BY <1>1, <1>2, FS_Subset
<1>4. Cardinality(Starting(s, p, e)) \in Nat /\ Cardinality(Wide(s, p, e)) \in Nat
  BY <1>3, FS_CardinalityType
<1>5. Utf16Units(s, p, e)
        = Cardinality(Starting(s, p, e)) + Cardinality(Wide(s, p, e))
  BY DEF Utf16Units, Starting, Wide
<1> QED
  BY <1>3, <1>4, <1>5

\* Nothing has no units.
LEMMA NoUnits ==
  ASSUME NEW s, NEW p \in Nat
  PROVE  Utf16Units(s, p, p) = 0
<1>1. Starting(s, p, p) = {} /\ Wide(s, p, p) = {}
  BY DEF Starting, Wide
<1>2. Cardinality(Starting(s, p, p)) = 0 /\ Cardinality(Wide(s, p, p)) = 0
  BY <1>1, FS_EmptySet
<1> QED
  BY <1>2, UnitsAreCounts

\* A character more has as many units more as char::len_utf16 says.
LEMMA CharacterUnits ==
  ASSUME NEW s, NEW p \in Nat, NEW q \in Nat, NEW e \in Nat, p <= q,
         IsChar(s, q, e)
  PROVE  Utf16Units(s, p, e) = Utf16Units(s, p, q) + Utf16Len(e - q)
<1>1. /\ q < e /\ IsBoundary(s, q) /\ IsBoundary(s, e)
      /\ \A x \in q + 1 .. e - 1 : ~IsBoundary(s, x)
  BY DEF IsChar
<1>2. q \notin Starting(s, p, q) /\ q \notin Wide(s, p, q)
  BY DEF Starting, Wide
<1>3. Starting(s, p, e) = Starting(s, p, q) \cup {q}
  BY <1>1 DEF Starting
<1>4. Cardinality(Starting(s, p, e)) = Cardinality(Starting(s, p, q)) + 1
  BY <1>2, <1>3, FS_AddElement, UnitsAreCounts
<1>5. \A x \in q + 1 .. e - 1 : ~IsChar(s, x, x + 4)
  BY <1>1 DEF IsChar
<1>6. IsChar(s, q, q + 4) <=> e - q = 4
  <2>1. CASE e = q + 4
    <3>1. e - q = 4
      BY <2>1
    <3> QED
      BY <2>1, <3>1
  <2>2. CASE e < q + 4
    <3>1. e \in q + 1 .. (q + 4) - 1
      BY <1>1, <2>2
    <3> QED
      BY <1>1, <2>2, <3>1 DEF IsChar
  <2>3. CASE e > q + 4
    <3>1. q + 4 \in q + 1 .. e - 1
      BY <2>3
    <3> QED
      BY <1>1, <2>3, <3>1 DEF IsChar
  <2> QED
    BY <2>1, <2>2, <2>3
<1>7. Cardinality(Wide(s, p, e))
        = Cardinality(Wide(s, p, q)) + (IF e - q = 4 THEN 1 ELSE 0)
  <2>1. CASE e - q = 4
    <3>1. Wide(s, p, e) = Wide(s, p, q) \cup {q}
      BY <1>1, <1>5, <1>6, <2>1 DEF Wide
    <3> QED
      BY <1>2, <2>1, <3>1, FS_AddElement, UnitsAreCounts
  <2>2. CASE e - q # 4
    <3>1. Wide(s, p, e) = Wide(s, p, q)
      BY <1>1, <1>5, <1>6, <2>2 DEF Wide
    <3> QED
      BY <2>2, <3>1, UnitsAreCounts
  <2> QED
    BY <2>1, <2>2
<1> QED
  BY <1>4, <1>7, UnitsAreCounts DEF Utf16Len

\* Where every byte is a character, it is one unit.
LEMMA PlainUnits ==
  ASSUME NEW s, NEW p \in Nat, NEW q \in Nat, NEW e \in Nat, p <= q, q <= e,
         \A x \in q .. e : IsBoundary(s, x)
  PROVE  Utf16Units(s, p, e) = Utf16Units(s, p, q) + (e - q)
<1> DEFINE plain == q .. e - 1
<1>1. IsFiniteSet(plain) /\ Cardinality(plain) = e - q
  <2>1. /\ IsFiniteSet(plain)
        /\ Cardinality(plain) = IF q > e - 1 THEN 0 ELSE (e - 1) - q + 1
    BY FS_Interval, q \in Int, e - 1 \in Int
  <2> HIDE DEF plain
  <2> QED
    BY <2>1
<1>2. Starting(s, p, e) = Starting(s, p, q) \cup plain
  BY DEF Starting
<1>3. Starting(s, p, q) \cap plain = {}
  BY DEF Starting
<1>4. Cardinality(Starting(s, p, e)) = Cardinality(Starting(s, p, q)) + (e - q)
  <2>1. Cardinality(Starting(s, p, q) \cap plain) = 0
    BY <1>3, FS_EmptySet
  <2> HIDE DEF plain
  <2>2. Cardinality(Starting(s, p, q) \cup plain)
          = Cardinality(Starting(s, p, q)) + Cardinality(plain)
              - Cardinality(Starting(s, p, q) \cap plain)
    BY <1>1, FS_Union, UnitsAreCounts
  <2>3. Cardinality(Starting(s, p, q)) \in Nat
    BY UnitsAreCounts
  <2> QED
    BY <1>1, <1>2, <2>1, <2>2, <2>3
<1>5. \A x \in plain : ~IsChar(s, x, x + 4)
  <2> TAKE x \in plain
  <2>1. x + 1 \in x + 1 .. (x + 4) - 1 /\ IsBoundary(s, x + 1)
    OBVIOUS
  <2> QED
    BY <2>1 DEF IsChar
<1>6. Wide(s, p, e) = Wide(s, p, q)
  BY <1>5 DEF Wide
<1> QED
  BY <1>4, <1>6, UnitsAreCounts

\* A character has a unit at least, so later boundaries have more before them.
LEMMA UnitsIncrease ==
  ASSUME NEW s, NEW p \in Nat, NEW q \in Nat, NEW e \in Nat, p <= q, q < e,
         IsBoundary(s, q)
  PROVE  Utf16Units(s, p, q) < Utf16Units(s, p, e)
<1>1. Starting(s, p, q) \cup {q} \in SUBSET Starting(s, p, e)
  BY DEF Starting
<1>2. q \notin Starting(s, p, q)
  BY DEF Starting
<1>3. Cardinality(Starting(s, p, q) \cup {q}) = Cardinality(Starting(s, p, q)) + 1
  BY <1>2, FS_AddElement, UnitsAreCounts
<1>4. Cardinality(Starting(s, p, q) \cup {q}) <= Cardinality(Starting(s, p, e))
  BY <1>1, FS_Subset, UnitsAreCounts
<1>5. Wide(s, p, q) \in SUBSET Wide(s, p, e)
  BY DEF Wide
<1>6. Cardinality(Wide(s, p, q)) <= Cardinality(Wide(s, p, e))
  BY <1>5, FS_Subset, UnitsAreCounts
<1> QED
  BY <1>3, <1>4, <1>6, UnitsAreCounts

-----------------------------------------------------------------------------
(***************************************************************************)
(* Lines.                                                                  *)
(***************************************************************************)

\* The keys of a line's binary searches.
LEMMA KeysOfLine ==
  ASSUME NEW line \in Line
  PROVE  /\ line.start \in Nat /\ line.checkpoints \in Seq(Checkpoint)
         /\ Len(line.checkpoints) \in Nat
         /\ \A c \in 1..Len(line.checkpoints) :
              /\ line.checkpoints[c].byte \in Nat
              /\ line.checkpoints[c].utf16 \in Nat
              /\ BytesOf(line)[c] = line.checkpoints[c].byte
              /\ UnitsOf(line)[c] = line.checkpoints[c].utf16
         /\ BytesOf(line) \in Seq(Nat) /\ Len(BytesOf(line)) = Len(line.checkpoints)
         /\ UnitsOf(line) \in Seq(Nat) /\ Len(UnitsOf(line)) = Len(line.checkpoints)
<1> DEFINE n == Len(line.checkpoints)
<1>1. line.start \in Nat /\ line.checkpoints \in Seq(Checkpoint)
  BY DEF Line
<1>2. n \in Nat /\ \A c \in 1..n : line.checkpoints[c] \in Checkpoint
  BY <1>1, LenProperties, ElementOfSeq
<1>3. \A c \in 1..n : line.checkpoints[c].byte \in Nat /\ line.checkpoints[c].utf16 \in Nat
  BY <1>2 DEF Checkpoint
<1>4. /\ BytesOf(line) = [c \in 1..n |-> line.checkpoints[c].byte]
      /\ UnitsOf(line) = [c \in 1..n |-> line.checkpoints[c].utf16]
  BY DEF BytesOf, UnitsOf
<1> HIDE DEF n
<1>5. BytesOf(line) \in [1..n -> Nat] /\ UnitsOf(line) \in [1..n -> Nat]
  BY <1>3, <1>4
<1>6. BytesOf(line) \in Seq(Nat) /\ UnitsOf(line) \in Seq(Nat)
  BY <1>2, <1>5, SeqDef
<1>7. Len(BytesOf(line)) = n /\ Len(UnitsOf(line)) = n
  BY <1>2, <1>5, <1>6, LenProperties
<1> QED
  BY <1>1, <1>2, <1>3, <1>4, <1>6, <1>7 DEF n

\* A line that starts here, and has nothing in it yet.
EmptyLine(p) == [start |-> p, checkpoints |-> <<>>]

LEMMA EmptyLineOK ==
  ASSUME NEW s \in Text, NEW p \in Nat, p <= Len(s)
  PROVE  EmptyLine(p) \in Line /\ LineOK(s, EmptyLine(p), p)
<1>1. EmptyLine(p) \in Line /\ EmptyLine(p).start = p
      /\ EmptyLine(p).checkpoints = <<>>
  BY EmptySeq DEF EmptyLine, Line
<1>2. Len(EmptyLine(p).checkpoints) = 0 /\ Len(BytesOf(EmptyLine(p))) = 0
  BY <1>1, EmptySeq, KeysOfLine
<1>3. Checked(s, EmptyLine(p), p)
  BY <1>1 DEF Checked
<1> QED
  BY <1>1, <1>2, <1>3 DEF LineOK, Increasing

\* A newline is a character by itself.
LEMMA NewlineIsCharacter ==
  ASSUME NEW s \in Text, IsUtf8(s), NEW p \in 1..Len(s), s[p] = Newline
  PROVE  IsBoundary(s, p - 1) /\ IsBoundary(s, p)
<1>1. /\ p - 1 \in 0 .. Len(s) - 1 /\ p - 1 \in 0..Len(s) /\ (p - 1) + 1 = p
  BY LenProperties DEF Text
<1>2. IsBoundary(s, p - 1)
  <2>1. s[(p - 1) + 1] = 10
    BY <1>1 DEF Newline
  <2>2. ~IsContinuation(s[(p - 1) + 1])
    BY <2>1 DEF IsContinuation
  <2> QED
    BY <1>1, <2>2 DEF IsBoundary
<1>3. Utf8Len(s[p]) = 1
  BY DEF Utf8Len, Newline
<1>4. IsChar(s, p - 1, (p - 1) + Utf8Len(s[(p - 1) + 1]))
  BY <1>1, <1>2 DEF IsUtf8
<1>5. (p - 1) + Utf8Len(s[(p - 1) + 1]) = p
  BY <1>1, <1>3
<1> QED
  BY <1>2, <1>4, <1>5 DEF IsChar

\* A character has no newline in it, unless it is one.
LEMMA CharacterIsNoNewline ==
  ASSUME NEW s \in Text, IsUtf8(s), NEW q \in Nat, NEW e \in Nat,
         IsChar(s, q, e), s[q + 1] # Newline
  PROVE  e <= Len(s) /\ \A p \in q + 1 .. e : s[p] # Newline
<1>1. q < e /\ e \in 0..Len(s) /\ \A x \in q + 1 .. e - 1 : ~IsBoundary(s, x)
  BY DEF IsChar, IsBoundary
<1>2. Len(s) \in Nat
  BY LenProperties DEF Text
<1>3. ASSUME NEW p \in q + 2 .. e PROVE s[p] # Newline
  <2>1. ~IsBoundary(s, p - 1) /\ p \in 1..Len(s)
    BY <1>1, <1>2
  <2> QED
    BY <2>1, NewlineIsCharacter
<1>4. \A p \in q + 1 .. e : p = q + 1 \/ p \in q + 2 .. e
  OBVIOUS
<1> QED
  BY <1>1, <1>2, <1>3, <1>4

\* A line with the checkpoint, if any, that a character to e leaves behind.
Longer(s, line, q, e) ==
  [start |-> line.start,
   checkpoints |->
     IF e - q > 1
     THEN Append(line.checkpoints,
                 [byte  |-> e - line.start,
                  utf16 |-> Utf16Units(s, line.start, q) + Utf16Len(e - q)])
     ELSE line.checkpoints]

LEMMA LongerLineOK ==
  ASSUME NEW s \in Text, IsUtf8(s), NEW line \in Line, NEW q \in Nat, NEW e \in Nat,
         LineOK(s, line, q), IsBoundary(s, q), IsChar(s, q, e),
         s[q + 1] # Newline
  PROVE  Longer(s, line, q, e) \in Line /\ LineOK(s, Longer(s, line, q, e), e)
<1> DEFINE new == Longer(s, line, q, e)
           added == [byte  |-> e - line.start,
                     utf16 |-> Utf16Units(s, line.start, q) + Utf16Len(e - q)]
           n == Len(line.checkpoints)
<1>1. s \in Text /\ Len(s) \in Nat
  BY LenProperties DEF Text
<1>2. q < e /\ e <= Len(s) /\ IsBoundary(s, e)
      /\ \A x \in q + 1 .. e - 1 : ~IsBoundary(s, x)
  BY CharacterIsNoNewline DEF IsChar
<1>3. line.start <= q /\ line.start \in Nat /\ n \in Nat
      /\ line.checkpoints \in Seq(Checkpoint)
  BY KeysOfLine DEF LineOK
<1>4. added \in Checkpoint
  <2>1. Utf16Units(s, line.start, q) \in Nat /\ Utf16Len(e - q) \in Nat
    BY <1>3, UnitsAreCounts DEF Utf16Len
  <2> QED
    BY <1>2, <1>3, <2>1 DEF Checkpoint
<1>5. added.byte = e - line.start /\ Counts(s, new, added) /\ new.start = line.start
  <2>1. Utf16Units(s, line.start, e) = Utf16Units(s, line.start, q) + Utf16Len(e - q)
    BY <1>3, CharacterUnits
  <2>2. line.start + (e - line.start) = e
    BY <1>3
  <2> QED
    BY <1>2, <2>1, <2>2 DEF Counts, Longer
<1> HIDE DEF added
<1>6. /\ new \in Line
      /\ \A c \in 1..n : new.checkpoints[c] = line.checkpoints[c]
      /\ e - q > 1 => Len(new.checkpoints) = n + 1 /\ new.checkpoints[n + 1] = added
      /\ ~(e - q > 1) => Len(new.checkpoints) = n
  <2>1. CASE e - q > 1
    <3>1. /\ new.checkpoints = Append(line.checkpoints, added)
          /\ new = [start |-> line.start, checkpoints |-> Append(line.checkpoints, added)]
      BY <2>1 DEF Longer, added
    <3>2. /\ Append(line.checkpoints, added) \in Seq(Checkpoint)
          /\ Len(Append(line.checkpoints, added)) = n + 1
          /\ \A c \in 1..n : Append(line.checkpoints, added)[c] = line.checkpoints[c]
          /\ Append(line.checkpoints, added)[n + 1] = added
      BY <1>3, <1>4, AppendProperties
    <3> QED
      BY <1>3, <2>1, <3>1, <3>2 DEF Line
  <2>2. CASE ~(e - q > 1)
    BY <1>3, <2>2 DEF Longer, Line
  <2> QED
    BY <2>1, <2>2
<1> HIDE DEF new
<1>7. \A c \in 1..Len(new.checkpoints) :
        c \in 1..n \/ (e - q > 1 /\ c = n + 1 /\ new.checkpoints[c] = added)
  BY <1>3, <1>6
<1>8. \A c \in 1..n : /\ line.checkpoints[c].byte \in 1 .. q - line.start
                      /\ Counts(s, line, line.checkpoints[c])
  BY DEF LineOK
<1>9. \A c \in 1..Len(new.checkpoints) :
        /\ new.checkpoints[c].byte \in 1 .. e - line.start
        /\ Counts(s, new, new.checkpoints[c])
  <2> TAKE c \in 1..Len(new.checkpoints)
  <2>1. CASE c \in 1..n
    <3>1. new.checkpoints[c] = line.checkpoints[c]
      BY <1>6, <2>1
    <3>2. line.checkpoints[c].byte \in 1 .. q - line.start /\ Counts(s, line, line.checkpoints[c])
      BY <1>8, <2>1
    <3>3. line.checkpoints[c].byte \in 1 .. e - line.start
      BY <1>2, <1>3, <3>2
    <3>4. Counts(s, new, line.checkpoints[c])
      BY <1>5, <3>2 DEF Counts
    <3> QED
      BY <3>1, <3>3, <3>4
  <2>2. CASE new.checkpoints[c] = added
    BY <1>2, <1>3, <1>5, <2>2
  <2> QED
    BY <1>7, <2>1, <2>2
<1>10. Increasing(BytesOf(new))
  <2>1. /\ Len(BytesOf(new)) = Len(new.checkpoints)
        /\ \A c \in 1..Len(new.checkpoints) : BytesOf(new)[c] = new.checkpoints[c].byte
    BY <1>6, KeysOfLine
  <2>2. \A j, k \in 1..n : j < k => line.checkpoints[j].byte < line.checkpoints[k].byte
    BY KeysOfLine DEF LineOK, Increasing
  <2>3. ASSUME NEW j \in 1..Len(new.checkpoints), NEW k \in 1..Len(new.checkpoints),
               j < k
        PROVE  new.checkpoints[j].byte < new.checkpoints[k].byte
    <3>1. CASE k \in 1..n
      <4>1. j \in 1..n
        BY <1>3, <2>3, <3>1
      <4>2. /\ new.checkpoints[j] = line.checkpoints[j]
            /\ new.checkpoints[k] = line.checkpoints[k]
        BY <1>6, <3>1, <4>1
      <4> QED
        BY <2>2, <2>3, <3>1, <4>1, <4>2
    <3>2. CASE k = n + 1 /\ new.checkpoints[k] = added
      <4>1. j \in 1..n
        BY <1>3, <2>3, <3>2
      <4>2. new.checkpoints[j] = line.checkpoints[j]
        BY <1>6, <4>1
      <4>3. line.checkpoints[j].byte \in 1 .. q - line.start
        BY <1>8, <4>1
      <4> QED
        BY <1>2, <1>3, <1>5, <3>2, <4>2, <4>3
    <3> QED
      BY <1>7, <3>1, <3>2
  <2> QED
    BY <2>1, <2>3 DEF Increasing
<1>11. Checked(s, new, e)
  <2> SUFFICES ASSUME NEW p \in line.start .. e, NEW x \in line.start .. e,
                      p < x, ~IsBoundary(s, p), IsBoundary(s, x)
               PROVE  \E c \in 1..Len(new.checkpoints) :
                        /\ p < line.start + new.checkpoints[c].byte
                        /\ line.start + new.checkpoints[c].byte <= x
    BY <1>5 DEF Checked
  <2>1. x <= q \/ x = e
    <3>1. x \notin q + 1 .. e - 1
      BY <1>2
    <3> QED
      BY <1>2, <1>3, <3>1
  <2>2. CASE p < q
    <3>1. \E y \in line.start .. q : p < y /\ IsBoundary(s, y) /\ y <= x
      <4>1. CASE x <= q
        BY <1>3, <4>1
      <4>2. CASE x = e
        BY <1>2, <1>3, <2>2, <4>2
      <4> QED
        BY <2>1, <4>1, <4>2
    <3>2. PICK c \in 1..n : /\ p < line.start + line.checkpoints[c].byte
                            /\ line.start + line.checkpoints[c].byte <= x
      <4>1. PICK y \in line.start .. q : p < y /\ IsBoundary(s, y) /\ y <= x
        BY <3>1
      <4>2. p \in line.start .. q
        BY <1>3, <2>2
      <4>3. PICK c \in 1..n : /\ p < line.start + line.checkpoints[c].byte
                              /\ line.start + line.checkpoints[c].byte <= y
        BY <4>1, <4>2 DEF LineOK, Checked
      <4> QED
        BY <1>3, <1>8, <4>1, <4>3
    <3>3. c \in 1..Len(new.checkpoints)
      BY <1>3, <1>6
    <3> QED
      BY <1>6, <3>2, <3>3
  <2>3. CASE ~(p < q)
    <3>1. p > q /\ x = e /\ e - q > 1
      BY <1>2, <1>3, <2>1, <2>3
    <3>2. n + 1 \in 1..Len(new.checkpoints) /\ new.checkpoints[n + 1] = added
      BY <1>3, <1>6, <3>1
    <3>3. line.start + new.checkpoints[n + 1].byte = e
      BY <1>3, <1>5, <3>2
    <3>4. p < e
      BY <3>1
    <3> QED
      BY <3>1, <3>2, <3>3, <3>4
  <2> QED
    BY <2>2, <2>3
<1>12. \A p \in line.start + 1 .. e : s[p] # Newline
  <2>1. \A p \in line.start + 1 .. q : s[p] # Newline
    BY DEF LineOK
  <2>2. \A p \in q + 1 .. e : s[p] # Newline
    BY CharacterIsNoNewline
  <2> QED
    BY <1>3, <2>1, <2>2
<1>13. LineOK(s, new, e)
  BY <1>2, <1>3, <1>5, <1>9, <1>10, <1>11, <1>12 DEF LineOK
<1> QED
  BY <1>6, <1>13 DEF new

\* Lines with one more at the end.
LEMMA LastLine ==
  ASSUME NEW ls \in Seq(Line), NEW line \in Line
  PROVE  /\ Append(ls, line) \in Seq(Line) /\ Append(ls, line) # <<>>
         /\ Len(ls) \in Nat /\ Len(Append(ls, line)) = Len(ls) + 1
         /\ \A l \in 1..Len(ls) : Append(ls, line)[l] = ls[l]
         /\ Append(ls, line)[Len(ls) + 1] = line
<1>1. /\ Append(ls, line) \in Seq(Line)
      /\ Len(ls) \in Nat /\ Len(Append(ls, line)) = Len(ls) + 1
      /\ \A l \in 1..Len(ls) : Append(ls, line)[l] = ls[l]
      /\ Append(ls, line)[Len(ls) + 1] = line
  BY AppendProperties, LenProperties
<1>2. Append(ls, line) # <<>>
  BY <1>1, EmptySeq
<1> QED
  BY <1>1, <1>2

\* The last line may become longer.
LEMMA GrownLine ==
  ASSUME NEW s \in Text, IsUtf8(s), NEW ls \in Seq(Line), NEW line \in Line,
         NEW longer \in Line, NEW q \in Nat, NEW e \in Nat,
         LinesOK(s, Append(ls, line), q),
         longer.start = line.start, LineOK(s, longer, e)
  PROVE  LinesOK(s, Append(ls, longer), e)
<1> DEFINE old == Append(ls, line)
           new == Append(ls, longer)
           n == Len(ls)
<1>1. /\ new # <<>> /\ n \in Nat /\ Len(old) = n + 1 /\ Len(new) = n + 1
      /\ \A l \in 1..n : new[l] = old[l]
      /\ old[n + 1] = line /\ new[n + 1] = longer
  BY LastLine
<1> HIDE DEF old, new, n
<1>2. \A l \in 1..n + 1 : new[l].start = old[l].start
  <2> TAKE l \in 1..n + 1
  <2>1. l \in 1..n \/ l = n + 1
    BY <1>1
  <2> QED
    BY <1>1, <2>1
<1>3. /\ \A l \in 1..n + 1 : StartOK(s, old, l) /\ LineOK(s, old[l], EndOf(old, l, q))
      /\ \A j, k \in 1..n + 1 : j < k => old[j].start < old[k].start
  BY <1>1 DEF LinesOK, old
<1>4. \A l \in 1..n + 1 : StartOK(s, new, l)
  BY <1>2, <1>3 DEF StartOK
<1>5. \A l \in 1..n + 1 : LineOK(s, new[l], EndOf(new, l, e))
  <2> TAKE l \in 1..n + 1
  <2>1. CASE l = n + 1
    <3>1. EndOf(new, l, e) = e /\ new[l] = longer
      BY <1>1, <2>1 DEF EndOf
    <3> QED
      BY <3>1
  <2>2. CASE l # n + 1
    <3>1. l \in 1..n /\ l + 1 \in 1..n + 1
      BY <1>1, <2>2
    <3>2. EndOf(new, l, e) = new[l + 1].start - 1 /\ EndOf(old, l, q) = old[l + 1].start - 1
      BY <1>1, <2>2 DEF EndOf
    <3>3. EndOf(new, l, e) = EndOf(old, l, q) /\ new[l] = old[l]
      BY <1>1, <1>2, <3>1, <3>2
    <3> QED
      BY <1>3, <3>3
  <2> QED
    BY <2>1, <2>2
<1>6. \A j, k \in 1..n + 1 : j < k => new[j].start < new[k].start
  BY <1>2, <1>3
<1>7. LinesOK(s, new, e)
  BY <1>1, <1>4, <1>5, <1>6 DEF LinesOK
<1> QED
  BY <1>7 DEF new

\* A newline ends the last line and begins another.
LEMMA NewLine ==
  ASSUME NEW s \in Text, IsUtf8(s), NEW ls \in Seq(Line), NEW e \in Nat,
         LinesOK(s, ls, e), e < Len(s), s[e + 1] = Newline
  PROVE  LinesOK(s, Append(ls, EmptyLine(e + 1)), e + 1)
<1> DEFINE new == Append(ls, EmptyLine(e + 1))
           n == Len(ls)
<1>1. s \in Text /\ Len(s) \in Nat
  BY LenProperties DEF Text
<1>2. /\ EmptyLine(e + 1) \in Line /\ LineOK(s, EmptyLine(e + 1), e + 1)
      /\ EmptyLine(e + 1).start = e + 1
  BY <1>1, EmptyLineOK DEF EmptyLine
<1>3. /\ new # <<>> /\ n \in Nat /\ Len(new) = n + 1
      /\ \A l \in 1..n : new[l] = ls[l] /\ ls[l] \in Line
      /\ new[n + 1] = EmptyLine(e + 1)
  BY <1>2, LastLine, ElementOfSeq
<1> HIDE DEF new, n
<1>4. /\ \A l \in 1..n : StartOK(s, ls, l) /\ LineOK(s, ls[l], EndOf(ls, l, e))
      /\ \A j, k \in 1..n : j < k => ls[j].start < ls[k].start
  BY DEF LinesOK, n
<1>5. n \in 1..n
  <2>1. ls # <<>>
    BY DEF LinesOK
  <2> QED
    BY <1>3, <2>1, EmptySeq DEF n
<1>6. EndOf(ls, n, e) = e
  BY DEF EndOf, n
<1>7. \A l \in 1..n : EndOf(new, l, e + 1) = EndOf(ls, l, e)
  <2> TAKE l \in 1..n
  <2>1. EndOf(new, l, e + 1) = new[l + 1].start - 1
    BY <1>3 DEF EndOf
  <2>2. CASE l = n
    BY <1>2, <1>3, <1>6, <2>1, <2>2
  <2>3. CASE l # n
    <3>1. l + 1 \in 1..n
      BY <1>3, <2>3
    <3> QED
      BY <1>3, <2>1, <2>3, <3>1 DEF EndOf, n
  <2> QED
    BY <2>2, <2>3
<1>8. \A l \in 1..n : LineOK(s, new[l], EndOf(new, l, e + 1)) /\ StartOK(s, new, l)
  BY <1>3, <1>4, <1>7 DEF StartOK
<1>9. LineOK(s, new[n + 1], EndOf(new, n + 1, e + 1))
  BY <1>2, <1>3 DEF EndOf
<1> DEFINE start == ls[n].start
<1>10. /\ start \in Nat /\ start <= e
       /\ \A p \in start + 1 .. e : s[p] # Newline
  BY <1>3, <1>4, <1>5, <1>6, KeysOfLine DEF LineOK
<1>11. Cardinality(LineEnds(s, start)) = n - 1
  BY <1>4, <1>5 DEF StartOK
<1> HIDE DEF start
<1>12. Cardinality(LineEnds(s, e + 1)) = n
  <2>1. LineEnds(s, e + 1) = LineEnds(s, start) \cup {e + 1}
    BY <1>10 DEF LineEnds
  <2>2. e + 1 \notin LineEnds(s, start)
    BY <1>10 DEF LineEnds
  <2>3. IsFiniteSet(LineEnds(s, start))
    <3>1. IsFiniteSet(1..start) /\ LineEnds(s, start) \in SUBSET (1..start)
      BY <1>10, FS_Interval, 1 \in Int, start \in Int DEF LineEnds
    <3> QED
      BY <3>1, FS_Subset
  <2>4. Cardinality(LineEnds(s, start) \cup {e + 1}) = Cardinality(LineEnds(s, start)) + 1
    BY <2>2, <2>3, FS_AddElement
  <2>5. Cardinality(LineEnds(s, e + 1)) = Cardinality(LineEnds(s, start)) + 1
    BY <2>1, <2>4
  <2> QED
    BY <1>3, <1>11, <2>5
<1>13. StartOK(s, new, n + 1)
  <2>1. new[n + 1].start = e + 1 /\ n + 1 # 1
    BY <1>2, <1>3, <1>5
  <2> QED
    BY <1>1, <1>3, <1>12, <2>1 DEF StartOK
<1>14. \A j, k \in 1..n + 1 : j < k => new[j].start < new[k].start
  <2> SUFFICES ASSUME NEW j \in 1..n + 1, NEW k \in 1..n + 1, j < k
               PROVE  new[j].start < new[k].start
    OBVIOUS
  <2>1. j \in 1..n /\ new[j] = ls[j] /\ ls[j].start \in Nat
    BY <1>3, KeysOfLine
  <2>2. CASE k \in 1..n
    BY <1>3, <1>4, <2>1, <2>2
  <2>3. CASE k = n + 1
    <3>1. j = n \/ ls[j].start < ls[n].start
      BY <1>3, <1>4, <1>5, <2>1
    <3> QED
      BY <1>2, <1>3, <1>10, <2>1, <2>3, <3>1 DEF start
  <2> QED
    BY <1>3, <2>2, <2>3
<1>15. \A l \in 1..Len(new) : l \in 1..n \/ l = n + 1
  BY <1>3
<1>16. LinesOK(s, new, e + 1)
  BY <1>3, <1>8, <1>9, <1>13, <1>14, <1>15 DEF LinesOK
<1> QED
  BY <1>16 DEF new

-----------------------------------------------------------------------------
(***************************************************************************)
(* The invariant.                                                          *)
(***************************************************************************)

\* What the invariant says while OLC::new runs.
LEMMA Indexing ==
  ASSUME IndexInv
  PROVE  /\ IsUtf8(input) /\ input \in Text /\ Len(input) \in Nat
         /\ IsBoundary(input, i) /\ i \in Nat
         /\ lines \in Seq(Line) /\ CurrentLine \in Line
         /\ CurrentLine.start = line_start
         /\ CurrentLine.checkpoints = checkpoints
         /\ ~built => /\ LinesOK(input, Append(lines, CurrentLine), i)
                      /\ LineOK(input, CurrentLine, i)
<1>1. CurrentLine \in Line
  BY DEF IndexInv, TypeOK, CurrentLine, Line
<1>2. input \in Text /\ Len(input) \in Nat /\ lines \in Seq(Line)
  BY LenProperties DEF IndexInv, TypeOK, Text
<1>3. ASSUME ~built
      PROVE  /\ LinesOK(input, Append(lines, CurrentLine), i)
             /\ LineOK(input, CurrentLine, i)
  <2>1. LinesOK(input, Append(lines, CurrentLine), i)
    BY <1>3 DEF IndexInv, LinesSoFar
  <2> DEFINE all == Append(lines, CurrentLine)
  <2>2. /\ Len(all) = Len(lines) + 1 /\ all[Len(lines) + 1] = CurrentLine
        /\ Len(lines) + 1 \in 1..Len(all)
    BY <1>1, <1>2, LastLine
  <2>3. LineOK(input, all[Len(all)], EndOf(all, Len(all), i))
    BY <2>1, <2>2 DEF LinesOK
  <2> HIDE DEF all
  <2>4. EndOf(all, Len(all), i) = i
    BY DEF EndOf
  <2> QED
    BY <2>1, <2>2, <2>3, <2>4
<1> QED
  BY <1>1, <1>2, <1>3 DEF IndexInv, TypeOK, CurrentLine

\* Before the first character there is one line, and nothing in it.
LEMMA InitOK == Init => IndexInv
<1> SUFFICES ASSUME Init PROVE IndexInv
  OBVIOUS
<1>1. /\ IsUtf8(input) /\ input \in Text
      /\ IsBoundary(input, 0) /\ Len(input) \in Nat
  BY OLCAssumption, LenProperties DEF Init, IsUtf8, Text
<1>2. TypeOK
  <2>1. <<>> \in Seq(Line) /\ <<>> \in Seq(Checkpoint)
    BY EmptySeq
  <2> QED
    BY <1>1, <2>1 DEF Init, TypeOK
<1>3. CurrentLine = EmptyLine(0) /\ LinesSoFar = Append(<<>>, EmptyLine(0))
  BY DEF Init, CurrentLine, LinesSoFar, EmptyLine
<1> DEFINE ls == Append(<<>>, EmptyLine(0))
<1>4. EmptyLine(0) \in Line /\ LineOK(input, EmptyLine(0), 0) /\ EmptyLine(0).start = 0
  BY <1>1, EmptyLineOK DEF EmptyLine
<1>5. ls # <<>> /\ Len(ls) = 1 /\ ls[1] = EmptyLine(0)
  <2>1. <<>> \in Seq(Line) /\ Len(<<>>) = 0
    BY EmptySeq
  <2> QED
    BY <1>4, <2>1, LastLine
<1> HIDE DEF ls
<1>6. StartOK(input, ls, 1)
  <2>1. LineEnds(input, 0) = {}
    BY DEF LineEnds
  <2>2. Cardinality(LineEnds(input, 0)) = 0
    BY <2>1, FS_EmptySet
  <2> QED
    BY <1>4, <1>5, <2>2 DEF StartOK
<1>7. EndOf(ls, 1, 0) = 0
  BY <1>5 DEF EndOf
<1>8. \A l \in 1..Len(ls) : l = 1
  BY <1>5
<1>9. LinesOK(input, ls, 0)
  BY <1>4, <1>5, <1>6, <1>7, <1>8 DEF LinesOK
<1>10. utf16_in_line = Utf16Units(input, line_start, i)
  BY NoUnits DEF Init
<1> QED
  BY <1>1, <1>2, <1>3, <1>9, <1>10 DEF Init, IndexInv, ls

LEMMA EndLineOK == IndexInv /\ EndLine => IndexInv'
<1> SUFFICES ASSUME IndexInv, EndLine PROVE IndexInv'
  OBVIOUS
<1>1. /\ ~built /\ built' = built /\ input' = input
      /\ i < Len(input) /\ input[i + 1] = Newline
      /\ lines' = Append(lines, CurrentLine) /\ i' = i + 1
      /\ line_start' = i + 1 /\ checkpoints' = <<>> /\ utf16_in_line' = 0
  BY DEF EndLine, CloseLine, CurrentLine
<1>2. TypeOK'
  <2>1. lines' \in Seq(Line) /\ checkpoints' \in Seq(Checkpoint)
    BY <1>1, Indexing, LastLine, EmptySeq
  <2> QED
    BY <1>1, <2>1, Indexing DEF IndexInv, TypeOK
<1>3. LinesSoFar' = Append(lines', EmptyLine(i + 1))
  BY <1>1 DEF LinesSoFar, CurrentLine, EmptyLine
<1>4. LinesOK(input, lines', i)
  BY <1>1, Indexing
<1>5. LinesOK(input, Append(lines', EmptyLine(i + 1)), i + 1)
  <2>1. lines' \in Seq(Line)
    BY <1>2 DEF TypeOK
  <2> QED
    BY <1>1, <1>4, <2>1, Indexing, NewLine
<1>6. IsBoundary(input, i + 1)
  <2>1. i + 1 \in 1..Len(input)
    BY <1>1, Indexing
  <2> QED
    BY <1>1, <2>1, Indexing, NewlineIsCharacter
<1>7. Utf16Units(input, i + 1, i + 1) = 0
  BY Indexing, NoUnits
<1> QED
  BY <1>1, <1>2, <1>3, <1>5, <1>6, <1>7, Indexing DEF IndexInv

LEMMA CharacterOK == IndexInv /\ Character => IndexInv'
<1> SUFFICES ASSUME IndexInv, Character PROVE IndexInv'
  OBVIOUS
<1>1. PICK end \in i + 1 .. Len(input) :
        /\ IsChar(input, i, end)
        /\ utf16_in_line' = utf16_in_line + Utf16Len(end - i)
        /\ checkpoints' = CheckpointsAfter(end)
        /\ i' = end
  BY DEF Character
<1>2. /\ ~built /\ input[i + 1] # Newline
      /\ input' = input /\ built' = built /\ lines' = lines /\ line_start' = line_start
  BY DEF Character
<1>3. line_start \in Nat /\ line_start <= i /\ end \in Nat
      /\ utf16_in_line = Utf16Units(input, line_start, i)
  BY <1>1, <1>2, Indexing DEF IndexInv, TypeOK, LineOK
<1>4. CurrentLine' = Longer(input, CurrentLine, i, end)
  BY <1>1, <1>2, <1>3 DEF CurrentLine, Longer, CheckpointsAfter
<1>5. /\ Longer(input, CurrentLine, i, end) \in Line
      /\ LineOK(input, Longer(input, CurrentLine, i, end), end)
  BY <1>1, <1>2, <1>3, Indexing, LongerLineOK
<1>6. LinesOK(input, Append(lines, Longer(input, CurrentLine, i, end)), end)
  <2>1. Longer(input, CurrentLine, i, end).start = CurrentLine.start
    BY DEF Longer
  <2> QED
    BY <1>2, <1>3, <1>5, <2>1, Indexing, GrownLine
<1>7. LinesSoFar' = Append(lines, Longer(input, CurrentLine, i, end))
  BY <1>2, <1>4 DEF LinesSoFar
<1>8. utf16_in_line' = Utf16Units(input, line_start, end)
  BY <1>1, <1>3, Indexing, CharacterUnits
<1>9. TypeOK'
  <2>1. checkpoints' \in Seq(Checkpoint)
    <3>1. CurrentLine'.checkpoints = checkpoints'
      BY DEF CurrentLine
    <3> QED
      BY <1>4, <1>5, <3>1, KeysOfLine
  <2>2. utf16_in_line' \in Nat
    BY <1>3, <1>8, UnitsAreCounts
  <2> QED
    BY <1>1, <1>2, <1>3, <2>1, <2>2 DEF IndexInv, TypeOK
<1>10. IsBoundary(input, end)
  BY <1>1 DEF IsChar
<1> QED
  BY <1>1, <1>2, <1>6, <1>7, <1>8, <1>9, <1>10, Indexing DEF IndexInv

LEMMA BuiltOK == IndexInv /\ Built => IndexInv'
<1> SUFFICES ASSUME IndexInv, Built PROVE IndexInv'
  OBVIOUS
<1>1. /\ ~built /\ built' = TRUE /\ i = Len(input)
      /\ lines' = Append(lines, CurrentLine)
      /\ UNCHANGED <<input, i, line_start, checkpoints, utf16_in_line>>
  BY DEF Built, CloseLine, CurrentLine
<1>2. LinesSoFar' = LinesSoFar
  BY <1>1 DEF LinesSoFar
<1>3. lines' \in Seq(Line)
  BY <1>1, Indexing, LastLine
<1> QED
  BY <1>1, <1>2, <1>3 DEF IndexInv, TypeOK

\* The index always describes the text read so far: every line starts behind a
\* newline and has none in it, its checkpoints count its UTF-16 units, and
\* there is one wherever a byte is not a unit.
THEOREM IndexInvariance == Spec => []IndexInv
<1>1. Init => IndexInv
  BY InitOK
<1>2. IndexInv /\ [Next]_vars => IndexInv'
  <2> SUFFICES ASSUME IndexInv, [Next]_vars PROVE IndexInv'
    OBVIOUS
  <2>1. CASE EndLine
    BY <2>1, EndLineOK
  <2>2. CASE Character
    BY <2>2, CharacterOK
  <2>3. CASE Built
    BY <2>3, BuiltOK
  <2>4. CASE UNCHANGED vars
    <3>1. LinesSoFar' = LinesSoFar /\ CurrentLine' = CurrentLine
      BY <2>4 DEF vars, LinesSoFar, CurrentLine
    <3> QED
      BY <2>4, <3>1 DEF vars, IndexInv, TypeOK
  <2> QED
    BY <2>1, <2>2, <2>3, <2>4 DEF Next
<1> QED
  BY <1>1, <1>2, PTL DEF Spec

\* Every variable of OLC::new has its type, at every moment.
THEOREM TypeCorrect == Spec => []TypeOK
<1>1. IndexInv => TypeOK
  BY DEF IndexInv
<1> QED
  BY <1>1, IndexInvariance, PTL

-----------------------------------------------------------------------------
(***************************************************************************)
(* The lookups.                                                            *)
(***************************************************************************)

\* The UTF-16 offsets of a line's checkpoints increase, as their bytes do.
LEMMA UnitsSorted ==
  ASSUME NEW s \in Text, NEW line \in Line, NEW e, LineOK(s, line, e)
  PROVE  Increasing(UnitsOf(line))
<1> DEFINE n == Len(line.checkpoints)
<1>1. /\ Len(UnitsOf(line)) = n /\ n \in Nat /\ line.start \in Nat
      /\ \A c \in 1..n : /\ line.checkpoints[c].byte \in Nat
                         /\ UnitsOf(line)[c] = line.checkpoints[c].utf16
                         /\ BytesOf(line)[c] = line.checkpoints[c].byte
      /\ Len(BytesOf(line)) = n
  BY KeysOfLine
<1>2. /\ Increasing(BytesOf(line))
      /\ \A c \in 1..n : Counts(s, line, line.checkpoints[c])
  BY DEF LineOK
<1> HIDE DEF n
<1> SUFFICES ASSUME NEW j \in 1..n, NEW k \in 1..n, j < k
             PROVE  UnitsOf(line)[j] < UnitsOf(line)[k]
  BY <1>1 DEF Increasing
<1> DEFINE at(c) == line.start + line.checkpoints[c].byte
<1>3. at(j) < at(k) /\ at(j) \in Nat /\ at(k) \in Nat /\ line.start <= at(j)
  <2>1. BytesOf(line)[j] < BytesOf(line)[k]
    BY <1>1, <1>2 DEF Increasing
  <2>2. /\ line.checkpoints[j].byte < line.checkpoints[k].byte
        /\ line.checkpoints[j].byte \in Nat /\ line.checkpoints[k].byte \in Nat
    BY <1>1, <2>1
  <2>3. line.start \in Nat
    BY <1>1
  <2> QED
    BY <2>2, <2>3
<1>4. /\ IsBoundary(s, at(j))
      /\ UnitsOf(line)[j] = Utf16Units(s, line.start, at(j))
      /\ UnitsOf(line)[k] = Utf16Units(s, line.start, at(k))
  BY <1>1, <1>2 DEF Counts
<1> HIDE DEF at
<1> QED
  BY <1>1, <1>3, <1>4, UnitsIncrease

\* An offset in a line: counting from the last checkpoint before it gives its
\* UTF-16 units, and they have the same checkpoints before them.
LEMMA Column ==
  ASSUME NEW s \in Text, NEW line \in Line, NEW e \in Nat, LineOK(s, line, e),
         IsBoundary(s, line.start), NEW offset \in line.start .. e,
         IsBoundary(s, offset)
  PROVE  LET idx   == CheckpointAtByte(line, offset - line.start)
             units == Utf16Units(s, line.start, offset)
         IN /\ idx \in 0..Len(line.checkpoints)
            /\ units = IF idx = 0 THEN offset - line.start
                       ELSE line.checkpoints[idx].utf16
                              + (offset - line.start - line.checkpoints[idx].byte)
            /\ CheckpointAtUnit(line, units) = idx
<1> DEFINE n     == Len(line.checkpoints)
           idx   == CheckpointAtByte(line, offset - line.start)
           units == Utf16Units(s, line.start, offset)
           at(c) == line.start + line.checkpoints[c].byte
<1>1. /\ n \in Nat /\ line.start \in Nat
      /\ BytesOf(line) \in Seq(Nat) /\ Len(BytesOf(line)) = n
      /\ UnitsOf(line) \in Seq(Nat) /\ Len(UnitsOf(line)) = n
      /\ \A c \in 1..n : /\ line.checkpoints[c].byte \in Nat
                         /\ line.checkpoints[c].utf16 \in Nat
                         /\ BytesOf(line)[c] = line.checkpoints[c].byte
                         /\ UnitsOf(line)[c] = line.checkpoints[c].utf16
  BY KeysOfLine
<1>2. /\ Increasing(BytesOf(line)) /\ Checked(s, line, e)
      /\ \A c \in 1..n : Counts(s, line, line.checkpoints[c])
  BY DEF LineOK
<1>3. offset \in Nat /\ offset - line.start \in Nat /\ line.start <= offset
  BY <1>1
<1>4. /\ idx \in 0..n
      /\ \A c \in 1..n : BytesOf(line)[c] <= offset - line.start <=> c <= idx
  BY <1>1, <1>2, <1>3, SearchFinds DEF CheckpointAtByte
<1>5. \A c \in 1..n : /\ at(c) \in Nat /\ line.start <= at(c)
                      /\ at(c) <= offset <=> c <= idx
                      /\ IsBoundary(s, at(c))
                      /\ line.checkpoints[c].utf16 = Utf16Units(s, line.start, at(c))
  <2> TAKE c \in 1..n
  <2>1. BytesOf(line)[c] <= offset - line.start <=> c <= idx
    BY <1>4
  <2>2. Counts(s, line, line.checkpoints[c])
    BY <1>2
  <2>3. line.checkpoints[c].byte \in Nat /\ BytesOf(line)[c] = line.checkpoints[c].byte
    BY <1>1
  <2>4. at(c) \in Nat /\ line.start <= at(c)
    BY <1>1, <2>3
  <2>5. at(c) <= offset <=> c <= idx
    BY <1>1, <1>3, <2>1, <2>3
  <2> QED
    BY <2>2, <2>4, <2>5 DEF Counts
<1>6. \A j, k \in 1..n : j <= k => at(j) <= at(k)
  <2> SUFFICES ASSUME NEW j \in 1..n, NEW k \in 1..n, j < k PROVE at(j) <= at(k)
    BY <1>5
  <2>1. BytesOf(line)[j] < BytesOf(line)[k]
    BY <1>1, <1>2 DEF Increasing
  <2>2. /\ line.checkpoints[j].byte < line.checkpoints[k].byte
        /\ line.checkpoints[j].byte \in Nat /\ line.checkpoints[k].byte \in Nat
    BY <1>1, <2>1
  <2>3. line.start \in Nat
    BY <1>1
  <2> QED
    BY <2>2, <2>3
<1>7. units \in Nat
  BY <1>1, <1>3, UnitsAreCounts
<1> DEFINE from == IF idx = 0 THEN line.start ELSE at(idx)
<1> HIDE DEF n, idx, units
<1>8. /\ from \in Nat /\ line.start <= from /\ from <= offset
      /\ IsBoundary(s, from)
  <2>1. CASE idx = 0
    BY <1>1, <1>3, <2>1
  <2>2. CASE idx # 0
    <3>1. idx \in 1..n /\ idx <= idx
      BY <1>1, <1>4, <2>2
    <3> QED
      BY <1>5, <2>2, <3>1
  <2> QED
    BY <2>1, <2>2
<1>9. \A x \in from .. offset : IsBoundary(s, x)
  <2> SUFFICES ASSUME NEW x \in from .. offset, ~IsBoundary(s, x) PROVE FALSE
    OBVIOUS
  <2>1. x \in line.start .. e /\ x < offset /\ offset \in line.start .. e
    BY <1>1, <1>3, <1>8
  <2>2. PICK c \in 1..n : x < at(c) /\ at(c) <= offset
    BY <1>2, <2>1 DEF Checked, n
  <2>3. c <= idx /\ idx \in 1..n
    BY <1>1, <1>4, <1>5, <2>2
  <2>4. from = at(idx) /\ at(c) <= at(idx)
    BY <1>6, <2>3
  <2>5. at(c) \in Nat /\ at(idx) \in Nat
    BY <1>5, <2>3
  <2> QED
    BY <1>8, <2>2, <2>4, <2>5
<1>10. units = Utf16Units(s, line.start, from) + (offset - from)
  BY <1>1, <1>3, <1>8, <1>9, PlainUnits DEF units
<1>11. units = IF idx = 0 THEN offset - line.start
               ELSE line.checkpoints[idx].utf16
                      + (offset - line.start - line.checkpoints[idx].byte)
  <2>1. CASE idx = 0
    <3>1. Utf16Units(s, line.start, line.start) = 0
      BY <1>1, NoUnits
    <3> QED
      BY <1>3, <1>10, <2>1, <3>1
  <2>2. CASE idx # 0
    <3>1. idx \in 1..n
      BY <1>1, <1>4, <2>2
    <3>2. units = line.checkpoints[idx].utf16 + (offset - at(idx))
      BY <1>5, <1>10, <2>2, <3>1
    <3>3. line.checkpoints[idx].byte \in Nat /\ line.checkpoints[idx].utf16 \in Nat
      BY <1>1, <3>1
    <3>4. offset - at(idx) = offset - line.start - line.checkpoints[idx].byte
      BY <1>1, <1>3, <3>3
    <3> QED
      BY <2>2, <3>2, <3>4
  <2> QED
    BY <2>1, <2>2
<1>12. \A c \in 1..n : UnitsOf(line)[c] <= units <=> c <= idx
  <2> TAKE c \in 1..n
  <2> DEFINE before == Utf16Units(s, line.start, at(c))
  <2>1. UnitsOf(line)[c] = before /\ before \in Nat
    BY <1>1, <1>5
  <2>2. at(c) \in Nat /\ line.start <= at(c) /\ IsBoundary(s, at(c))
        /\ (at(c) <= offset <=> c <= idx)
    BY <1>5
  <2> HIDE DEF at
  <2>3. CASE at(c) < offset
    <3>1. before < units
      BY <1>1, <1>3, <2>2, <2>3, UnitsIncrease DEF units
    <3> QED
      BY <1>3, <1>7, <2>1, <2>2, <2>3, <3>1
  <2>4. CASE at(c) = offset
    <3>1. before = units
      BY <2>4 DEF units
    <3> QED
      BY <1>3, <1>7, <2>1, <2>2, <2>4, <3>1
  <2>5. CASE at(c) > offset
    <3>1. units < before
      BY <1>1, <1>3, <2>2, <2>5, UnitsIncrease DEF units
    <3>2. ~(at(c) <= offset)
      BY <1>3, <2>2, <2>5
    <3> QED
      BY <1>7, <2>1, <2>2, <3>1, <3>2
  <2> QED
    BY <1>3, <2>2, <2>3, <2>4, <2>5
<1>13. CheckpointAtUnit(line, units) = idx
  BY <1>1, <1>4, <1>7, <1>12, SearchAnswers DEF CheckpointAtUnit
<1> QED
  BY <1>4, <1>11, <1>13 DEF n, idx, units

\* The keys of the search for a line.
LEMMA LineKeys ==
  ASSUME lines \in Seq(Line)
  PROVE  /\ Len(lines) \in Nat /\ Len(Starts) = Len(lines)
         /\ Starts \in Seq(Nat)
         /\ \A l \in 1..Len(lines) : lines[l] \in Line /\ Starts[l] = lines[l].start
<1> DEFINE n == Len(lines)
<1>1. n \in Nat /\ \A l \in 1..n : lines[l] \in Line /\ lines[l].start \in Nat
  BY LenProperties, ElementOfSeq, KeysOfLine
<1>2. Starts = [l \in 1..n |-> lines[l].start]
  BY DEF Starts
<1> HIDE DEF n
<1>3. Starts \in [1..n -> Nat]
  BY <1>1, <1>2
<1>4. Starts \in Seq(Nat)
  BY <1>1, <1>3, SeqDef
<1>5. Len(Starts) = n
  BY <1>1, <1>3, <1>4, LenProperties
<1> QED
  BY <1>1, <1>2, <1>4, <1>5 DEF n

\* The lines that are closed are the first of all lines.
LEMMA ClosedLines ==
  ASSUME IndexInv, NEW l \in 1..Len(lines)
  PROVE  /\ l \in 1..Len(LinesSoFar) /\ LinesSoFar[l] = lines[l]
<1>1. CASE built
  BY <1>1 DEF LinesSoFar
<1>2. CASE ~built
  BY <1>2, Indexing, LastLine DEF LinesSoFar
<1> QED
  BY <1>1, <1>2

\* Both binary searches are sound: the lines start at zero and their starts
\* increase, and so do the checkpoints of every line, in bytes and in units.
THEOREM Sorted == Spec => []IndexSorted
<1>1. IndexInv => IndexSorted
  <2> SUFFICES ASSUME IndexInv PROVE IndexSorted
    OBVIOUS
  <2>1. /\ LinesOK(input, LinesSoFar, i) /\ input \in Text /\ i \in Nat
        /\ lines \in Seq(Line)
    BY DEF IndexInv, TypeOK
  <2>2. \A j, k \in 1..Len(lines) : j < k => lines[j].start < lines[k].start
    <3> TAKE j, k \in 1..Len(lines)
    <3>1. /\ j \in 1..Len(LinesSoFar) /\ LinesSoFar[j] = lines[j]
          /\ k \in 1..Len(LinesSoFar) /\ LinesSoFar[k] = lines[k]
      BY ClosedLines
    <3>2. j < k => LinesSoFar[j].start < LinesSoFar[k].start
      BY <2>1, <3>1 DEF LinesOK
    <3> QED
      BY <3>1, <3>2
  <2>3. Increasing(Starts)
    BY <2>1, <2>2, LineKeys DEF Increasing
  <2>4. lines # <<>> => lines[1].start = 0
    <3> SUFFICES ASSUME lines # <<>> PROVE lines[1].start = 0
      OBVIOUS
    <3>1. 1 \in 1..Len(lines)
      BY <2>1, LineKeys, EmptySeq
    <3>2. 1 \in 1..Len(LinesSoFar) /\ LinesSoFar[1] = lines[1]
      BY <3>1, ClosedLines
    <3>3. StartOK(input, LinesSoFar, 1)
      BY <2>1, <3>2 DEF LinesOK
    <3> QED
      BY <3>2, <3>3 DEF StartOK
  <2>5. ASSUME NEW l \in 1..Len(lines)
        PROVE  Increasing(BytesOf(lines[l])) /\ Increasing(UnitsOf(lines[l]))
    <3>1. l \in 1..Len(LinesSoFar) /\ LinesSoFar[l] = lines[l] /\ lines[l] \in Line
      BY <2>1, ClosedLines, LineKeys
    <3>2. LineOK(input, lines[l], EndOf(LinesSoFar, l, i))
      <4>1. LineOK(input, LinesSoFar[l], EndOf(LinesSoFar, l, i))
        BY <2>1, <3>1 DEF LinesOK
      <4> QED
        BY <3>1, <4>1
    <3> QED
      BY <2>1, <3>1, <3>2, UnitsSorted DEF LineOK
  <2> QED
    BY <2>3, <2>4, <2>5 DEF IndexSorted
<1> QED
  BY <1>1, IndexInvariance, PTL

\* The line an offset is looked up in is the line it is in.
LEMMA LineFound ==
  ASSUME IndexInv, built, NEW offset \in Boundaries(input)
  PROVE  \E l \in 1..Len(lines) :
           /\ LineOf(offset) = l - 1
           /\ lines[l] \in Line
           /\ LineOK(input, lines[l], EndOf(lines, l, Len(input)))
           /\ offset \in lines[l].start .. EndOf(lines, l, Len(input))
           /\ StartOK(input, lines, l)
<1> DEFINE n    == Len(lines)
           l    == PartitionPoint(Starts, offset)
           e(k) == EndOf(lines, k, Len(input))
<1>1. /\ LinesOK(input, lines, Len(input)) /\ lines \in Seq(Line)
  BY DEF IndexInv, LinesSoFar, TypeOK
<1>2. /\ n \in Nat /\ Len(Starts) = n /\ Starts \in Seq(Nat)
      /\ \A k \in 1..n : /\ lines[k] \in Line /\ lines[k].start \in Nat
                         /\ Starts[k] = lines[k].start
  BY <1>1, LineKeys, KeysOfLine
<1>3. offset \in Nat /\ offset <= Len(input) /\ Len(input) \in Nat
  BY Indexing DEF Boundaries
<1>4. /\ \A k \in 1..n : StartOK(input, lines, k) /\ LineOK(input, lines[k], e(k))
      /\ \A j, k \in 1..n : j < k => lines[j].start < lines[k].start
      /\ n # 0
  BY <1>1, EmptySeq DEF LinesOK
<1> HIDE DEF n, e, l
<1>5. l \in 0..n /\ \A k \in 1..n : lines[k].start <= offset <=> k <= l
  <2>1. Increasing(Starts)
    BY <1>2, <1>4 DEF Increasing
  <2>2. /\ l \in 0..Len(Starts)
        /\ \A k \in 1..Len(Starts) : Starts[k] <= offset <=> k <= l
    BY <1>2, <1>3, <2>1, SearchFinds DEF l
  <2> QED
    BY <1>2, <2>2
<1>6. l \in 1..n
  <2>1. 1 \in 1..n
    BY <1>2, <1>4
  <2>2. lines[1].start = 0
    BY <1>4, <2>1 DEF StartOK
  <2> QED
    BY <1>2, <1>3, <1>5, <2>1, <2>2
<1>7. lines[l].start <= offset
  BY <1>2, <1>5, <1>6
<1>8. offset <= e(l)
  <2>1. CASE l = n
    BY <1>3, <2>1 DEF e, EndOf, n
  <2>2. CASE l # n
    <3>1. l + 1 \in 1..n /\ ~(l + 1 <= l)
      BY <1>2, <1>6, <2>2
    <3>2. ~(lines[l + 1].start <= offset) /\ lines[l + 1].start \in Nat
      BY <1>2, <1>5, <3>1
    <3>3. e(l) = lines[l + 1].start - 1
      BY <2>2 DEF e, EndOf, n
    <3> QED
      BY <1>3, <3>2, <3>3
  <2> QED
    BY <2>1, <2>2
<1>9. e(l) \in Int
  <2>1. l = n \/ l + 1 \in 1..n
    BY <1>2, <1>6
  <2> QED
    BY <1>2, <1>3, <2>1 DEF e, EndOf, n
<1>10. offset \in lines[l].start .. e(l)
  <2>1. lines[l].start \in Nat
    BY <1>2, <1>6
  <2> QED
    BY <1>3, <1>7, <1>8, <1>9, <2>1
<1>11. LineOf(offset) = l - 1
  BY DEF LineOf, l
<1> QED
  BY <1>2, <1>4, <1>6, <1>10, <1>11 DEF n, e

\* Between the start of a line and an offset in it there is no newline: the
\* offset is in this line for the reference, too.
LEMMA LineOfReference ==
  ASSUME NEW s \in Text, NEW start \in Nat, NEW offset \in Nat, start <= offset,
         \A p \in start + 1 .. offset : s[p] # Newline,
         start = 0 \/ s[start] = Newline
  PROVE  /\ LineEnds(s, offset) = LineEnds(s, start)
         /\ LineStart(s, offset) = start
<1>1. LineEnds(s, offset) = LineEnds(s, start)
  BY DEF LineEnds
<1>2. start \in {0} \cup LineEnds(s, offset)
  BY <1>1 DEF LineEnds
<1>3. \A q \in LineEnds(s, offset) : q \in Nat /\ q <= start
  BY <1>1 DEF LineEnds
<1>4. ASSUME NEW p \in {0} \cup LineEnds(s, offset),
             \A q \in LineEnds(s, offset) : q <= p
      PROVE  p = start
  <2>1. p \in Nat /\ p <= start
    BY <1>3
  <2>2. CASE start = 0
    BY <2>1, <2>2
  <2>3. CASE start # 0
    BY <1>2, <1>4, <2>1, <2>3
  <2> QED
    BY <2>2, <2>3
<1>5. LineStart(s, offset) = start
  BY <1>2, <1>3, <1>4 DEF LineStart
<1> QED
  BY <1>1, <1>5

\* What both lookups do with an offset.
LEMMA Lookups ==
  ASSUME IndexInv, built, NEW offset \in Boundaries(input)
  PROVE  /\ offset_to_line_character(offset) = Position(input, offset)
         /\ line_character_to_offset(Position(input, offset)) = offset
<1>1. PICK l \in 1..Len(lines) :
           /\ LineOf(offset) = l - 1
           /\ lines[l] \in Line
           /\ LineOK(input, lines[l], EndOf(lines, l, Len(input)))
           /\ offset \in lines[l].start .. EndOf(lines, l, Len(input))
           /\ StartOK(input, lines, l)
  BY LineFound
<1> DEFINE line  == lines[l]
           start == line.start
           e     == EndOf(lines, l, Len(input))
           units == Utf16Units(input, start, offset)
           idx   == CheckpointAtByte(line, offset - start)
<1>2. /\ IsUtf8(input) /\ input \in Text /\ Len(input) \in Nat
      /\ offset \in Nat /\ IsBoundary(input, offset) /\ start \in Nat
      /\ line \in Line /\ LineOK(input, line, e) /\ offset \in start .. e
  BY <1>1, Indexing, KeysOfLine DEF Boundaries
<1>3. e \in Int
  <2>1. \A k \in 1..Len(lines) : lines[k].start \in Nat
    BY LineKeys, KeysOfLine DEF IndexInv, TypeOK
  <2>2. l = Len(lines) \/ l + 1 \in 1..Len(lines)
    BY LineKeys DEF IndexInv, TypeOK
  <2> QED
    BY <1>2, <2>1, <2>2 DEF EndOf
<1>4. /\ IF l = 1 THEN start = 0 ELSE start \in 1..Len(input) /\ input[start] = Newline
      /\ Cardinality(LineEnds(input, start)) = l - 1
  BY <1>1 DEF StartOK
<1> HIDE DEF line, start, e
<1>5. start <= offset /\ offset <= e
  BY <1>2, <1>3
<1>6. e \in Nat
  BY <1>2, <1>3, <1>5
<1>7. IsBoundary(input, start)
  BY <1>2, <1>4, NewlineIsCharacter DEF IsUtf8
<1>8. \A p \in start + 1 .. offset : input[p] # Newline
  <2>1. \A p \in start + 1 .. e : input[p] # Newline
    BY <1>2 DEF LineOK, start
  <2> QED
    BY <1>2, <1>3, <1>5, <2>1
<1>9. LineEnds(input, offset) = LineEnds(input, start) /\ LineStart(input, offset) = start
  BY <1>2, <1>4, <1>5, <1>8, LineOfReference
<1>10. Position(input, offset) = <<l - 1, units>>
  BY <1>4, <1>9 DEF Position
<1>11. /\ idx \in 0..Len(line.checkpoints)
       /\ units = IF idx = 0 THEN offset - start
                  ELSE line.checkpoints[idx].utf16
                         + (offset - start - line.checkpoints[idx].byte)
       /\ CheckpointAtUnit(line, units) = idx
  BY <1>2, <1>6, <1>7, Column DEF start
<1> HIDE DEF units, idx
<1>12. (l - 1) + 1 = l
  BY LineKeys DEF IndexInv, TypeOK
<1>13. offset_to_line_character(offset) = <<l - 1, units>>
  BY <1>1, <1>11, <1>12 DEF offset_to_line_character, line, start, idx
<1>14. line_character_to_offset(<<l - 1, units>>) = offset
  <2>1. line_character_to_offset(<<l - 1, units>>)
          = start + (IF idx = 0 THEN units
                     ELSE line.checkpoints[idx].byte
                            + (units - line.checkpoints[idx].utf16))
    BY <1>11, <1>12 DEF line_character_to_offset, line, start
  <2>2. CASE idx = 0
    BY <1>2, <1>11, <2>1, <2>2
  <2>3. CASE idx # 0
    <3>1. idx \in 1..Len(line.checkpoints)
      BY <1>2, <1>11, <2>3, KeysOfLine
    <3>2. line.checkpoints[idx].byte \in Nat /\ line.checkpoints[idx].utf16 \in Nat
      BY <1>2, <3>1, KeysOfLine
    <3>3. units = line.checkpoints[idx].utf16
                     + (offset - start - line.checkpoints[idx].byte)
      BY <1>11, <2>3
    <3>4. line.checkpoints[idx].byte + (units - line.checkpoints[idx].utf16)
            = offset - start
      BY <1>2, <3>2, <3>3
    <3>5. line_character_to_offset(<<l - 1, units>>) = start + (offset - start)
      BY <2>1, <2>3, <3>4
    <3> QED
      BY <1>2, <3>5
  <2> QED
    BY <2>2, <2>3
<1> QED
  BY <1>10, <1>13, <1>14

\* For every text of UTF-8 and every offset of a character in it,
\* offset_to_line_character answers what the reference of the unit tests does.
THEOREM Agreement == Spec => []AgreesWithReference
<1>1. IndexInv => AgreesWithReference
  BY Lookups DEF AgreesWithReference
<1> QED
  BY <1>1, IndexInvariance, PTL

\* line_character_to_offset gives back the offset that a position is of.
THEOREM Inversion == Spec => []RoundTrips
<1>1. IndexInv => RoundTrips
  <2> SUFFICES ASSUME IndexInv, built, NEW offset \in Boundaries(input)
               PROVE  line_character_to_offset(offset_to_line_character(offset)) = offset
    BY DEF RoundTrips
  <2> QED
    BY Lookups
<1> QED
  BY <1>1, IndexInvariance, PTL
=============================================================================
