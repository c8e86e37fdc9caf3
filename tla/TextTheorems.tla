---------------------------- MODULE TextTheorems ----------------------------
(***************************************************************************)
(* Facts about numbers, bytes, slices and characters that the proofs about *)
(* the parser and about the line index cite.                               *)
(***************************************************************************)
EXTENDS Utf8, SequenceTheorems, WellFoundedInduction, TLAPS

\* A set of numbers that is not empty has a least element.
LEMMA LeastElement ==
  ASSUME NEW S \in SUBSET Nat, S # {}
  PROVE  \E m \in S : \A k \in S : m <= k
<1> DEFINE R == {ss \in Nat \X Nat : ss[1] < ss[2]}
<1>1. IsWellFoundedOn(R, Nat)
  BY NatLessThanWellFounded DEF OpToRel
<1>2. \A x, y \in Nat : <<x, y>> \in R <=> x < y
  OBVIOUS
<1> HIDE DEF R
<1>3. PICK m \in S : \A k \in S : <<k, m>> \notin R
  BY <1>1, WFMin
<1>4. \A k \in S : ~(k < m)
  BY <1>2, <1>3
<1> QED
  BY <1>4

-----------------------------------------------------------------------------
(***************************************************************************)
(* Bytes and slices.                                                       *)
(***************************************************************************)

\* Two bytes are equal but for ASCII case exactly when one is the lower-case
\* or the upper-case form of the other: what AddCharCI puts into a FIRST set
\* is what StringEqCI accepts first.
LEMMA SameLetter ==
  ASSUME NEW b \in Byte, NEW c \in Byte
  PROVE  Lower(b) = Lower(c) <=> b \in {Lower(c), Upper(c)}
BY DEF Byte, Lower, Upper

\* A byte of a text is a byte.
LEMMA TextByte ==
  ASSUME NEW s \in Text, NEW i \in 1..Len(s)
  PROVE  s[i] \in Byte
BY ElementOfSeq DEF Text

\* A slice within a text is a text, of the bytes from p to e.
LEMMA SliceProperties ==
  ASSUME NEW s \in Text, NEW p \in Nat, NEW e \in Nat, e <= Len(s)
  PROVE  /\ Slice(s, p, e) \in Text
         /\ p <= e => Len(Slice(s, p, e)) = e - p
         /\ \A i \in 1 .. e - p : Slice(s, p, e)[i] = s[p + i]
<1> DEFINE sub == SubSeq(s, p + 1, e)
<1>1. Len(s) \in Nat
  BY LenProperties DEF Text
<1>2. \A i \in p + 1 .. e : s[i] \in Byte
  BY <1>1, TextByte
<1>3. /\ sub \in Seq(Byte)
      /\ Len(sub) = IF p + 1 <= e THEN e - (p + 1) + 1 ELSE 0
      /\ \A i \in 1 .. e - (p + 1) + 1 : sub[i] = s[(p + 1) + i - 1]
  <2> HIDE DEF sub
  <2> QED
    BY <1>2, SubSeqProperties, p + 1 \in Int, e \in Int DEF sub
<1>4. \A i \in 1 .. e - p : (p + 1) + i - 1 = p + i /\ e - (p + 1) + 1 = e - p
  OBVIOUS
<1> QED
  BY <1>3, <1>4 DEF Slice, Text

\* A slice from where it ends is empty.
LEMMA SliceEmpty ==
  ASSUME NEW s, NEW p \in Nat
  PROVE  Slice(s, p, p) = <<>>
BY SubSeqEmpty, p + 1 \in Int, p \in Int, p < p + 1 DEF Slice

\* Adjacent slices join.
LEMMA SliceJoin ==
  ASSUME NEW s \in Text, NEW p \in Nat, NEW q \in Nat, NEW e \in Nat,
         p <= q, q <= e, e <= Len(s)
  PROVE  Slice(s, p, q) \o Slice(s, q, e) = Slice(s, p, e)
<1> DEFINE left == Slice(s, p, q)
           right == Slice(s, q, e)
           whole == Slice(s, p, e)
<1>0. Len(s) \in Nat
  BY LenProperties DEF Text
<1>1. /\ left \in Text /\ Len(left) = q - p
      /\ \A i \in 1 .. q - p : left[i] = s[p + i]
  BY <1>0, q <= Len(s), SliceProperties
<1>2. /\ right \in Text /\ Len(right) = e - q
      /\ \A i \in 1 .. e - q : right[i] = s[q + i]
  BY <1>0, SliceProperties
<1>3. /\ whole \in Text /\ Len(whole) = e - p
      /\ \A i \in 1 .. e - p : whole[i] = s[p + i]
  BY <1>0, p <= e, SliceProperties
<1> HIDE DEF left, right, whole
<1>4. /\ left \o right \in Text
      /\ Len(left \o right) = Len(left) + Len(right)
      /\ \A i \in 1 .. Len(left) + Len(right) : (left \o right)[i] =
           IF i <= Len(left) THEN left[i] ELSE right[i - Len(left)]
  BY <1>1, <1>2, ConcatProperties DEF Text
<1>5. \A i \in 1 .. e - p : (left \o right)[i] = whole[i]
  <2> TAKE i \in 1 .. e - p
  <2>0. i \in 1 .. Len(left) + Len(right) /\ whole[i] = s[p + i]
    BY <1>1, <1>2, <1>3
  <2>1. CASE i <= q - p
    <3>1. i \in 1 .. q - p /\ i <= Len(left)
      BY <2>1, <1>1
    <3>2. (left \o right)[i] = left[i]
      BY <3>1, <2>0, <1>4
    <3> QED
      BY <3>1, <3>2, <2>0, <1>1
  <2>2. CASE ~(i <= q - p)
    <3>1. i - (q - p) \in 1 .. e - q /\ q + (i - (q - p)) = p + i
      BY <2>2
    <3>2. ~(i <= Len(left)) /\ i - Len(left) = i - (q - p)
      BY <2>2, <1>1
    <3>3. (left \o right)[i] = right[i - (q - p)]
      BY <3>2, <2>0, <1>4
    <3>4. right[i - (q - p)] = s[q + (i - (q - p))]
      BY <3>1, <1>2
    <3> QED
      BY <3>1, <3>3, <3>4, <2>0
  <2> QED
    BY <2>1, <2>2
<1>6. Len(left \o right) = e - p
  BY <1>1, <1>2, <1>4
<1>7. left \o right = whole
  <2>1. /\ Len(left \o right) = Len(whole)
        /\ \A i \in 1 .. Len(left \o right) : (left \o right)[i] = whole[i]
    BY <1>3, <1>5, <1>6
  <2>2. left \o right \in Seq(Byte) /\ whole \in Seq(Byte)
    BY <1>3, <1>4 DEF Text
  <2> QED
    BY <2>1, <2>2, SeqEqual
<1> QED
  BY <1>7 DEF left, right, whole

-----------------------------------------------------------------------------
(***************************************************************************)
(* Characters.                                                             *)
(***************************************************************************)

\* Ignoring case changes neither whether a byte starts a character nor how
\* long that character is.
LEMMA SameShape ==
  ASSUME NEW b \in Byte, NEW c \in Byte, Lower(b) = Lower(c)
  PROVE  /\ IsContinuation(b) <=> IsContinuation(c)
         /\ Utf8Len(b) = Utf8Len(c)
BY DEF Byte, Lower, IsContinuation, Utf8Len

\* Before a boundary that is not the first one there is a character.
LEMMA CharacterBefore ==
  ASSUME NEW s \in Text, IsUtf8(s), NEW k \in Nat, k # 0, IsBoundary(s, k)
  PROVE  \E j \in 0 .. k - 1 : IsBoundary(s, j) /\ k = j + Utf8Len(s[j + 1])
<1>1. Len(s) \in Nat /\ k <= Len(s)
  BY LenProperties DEF Text, IsBoundary
\* How far the boundaries before k are from it.
<1> DEFINE Back == {d \in 1..k : IsBoundary(s, k - d)}
<1>2. Back \in SUBSET Nat /\ k \in Back
  BY DEF IsUtf8
<1>3. PICK d \in Back : \A e \in Back : d <= e
  <2> HIDE DEF Back
  <2>1. Back # {}
    BY <1>2
  <2> QED
    BY <1>2, <2>1, LeastElement
<1> DEFINE j == k - d
<1>4. j \in 0 .. k - 1 /\ IsBoundary(s, j) /\ j \in 0 .. Len(s) - 1
  BY <1>1, <1>3
<1>5. \A q \in j + 1 .. k - 1 : ~IsBoundary(s, q)
  <2> SUFFICES ASSUME NEW q \in j + 1 .. k - 1, IsBoundary(s, q) PROVE FALSE
    OBVIOUS
  <2>1. k - q \in 1..k /\ k - (k - q) = q /\ k - q < d
    BY <1>3
  <2>2. k - q \in Back
    BY <2>1
  <2> QED
    BY <1>3, <2>1, <2>2
<1> DEFINE e == j + Utf8Len(s[j + 1])
<1>6. IsChar(s, j, e) /\ e \in Nat
  BY <1>4 DEF IsUtf8, Utf8Len
<1> HIDE DEF j, e
<1>7. j < e /\ IsBoundary(s, e) /\ \A q \in j + 1 .. e - 1 : ~IsBoundary(s, q)
  BY <1>6 DEF IsChar
<1>8. ~(e < k)
  <2>1. e < k => e \in j + 1 .. k - 1
    BY <1>4, <1>6, <1>7
  <2> QED
    BY <1>5, <1>7, <2>1
<1>9. ~(k < e)
  <2>1. k < e => k \in j + 1 .. e - 1
    BY <1>4, <1>6
  <2> QED
    BY <1>7, <2>1
<1>10. k = e
  BY <1>6, <1>8, <1>9
<1> QED
  BY <1>4, <1>10 DEF e
=============================================================================
