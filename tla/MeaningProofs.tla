---------------------------- MODULE MeaningProofs ----------------------------
(***************************************************************************)
(* Proof that the parser keeps its promise: with dispatch tables that skip *)
(* variants, loops that stop early, and a scan that builds nothing, every  *)
(* call is answered with what the grammar means.                           *)
(***************************************************************************)
EXTENDS Meaning, ParserProofs

-----------------------------------------------------------------------------
(***************************************************************************)
(* The equations of the table, kind by kind.                               *)
(***************************************************************************)

LEMMA FoundFacts ==
  ASSUME NEW r \in Found
  PROVE  /\ r.ok \in BOOLEAN /\ r.end \in Nat /\ r.print \in Text
         /\ ~r.ok => r.end = 0 /\ r.print = <<>>
<1>1. <<>> \in Text
  BY EmptySeq DEF Text
<1>2. CASE r \in [ok : {TRUE}, end : Nat, print : Text]
  <2>1. r.ok = TRUE /\ r.end \in Nat /\ r.print \in Text
    BY <1>2
  <2> QED
    BY <2>1
<1>3. CASE r = Unread
  <2>1. r.ok = FALSE /\ r.end = 0 /\ r.print = <<>>
    BY <1>3 DEF Unread
  <2>2. r.end \in Nat /\ r.print \in Text
    BY <1>1, <2>1
  <2> QED
    BY <2>1, <2>2
<1> QED
  BY <1>2, <1>3 DEF Found

LEMMA PlaceFacts ==
  ASSUME NEW s \in Inputs, NEW p \in 0..Len(s)
  PROVE  s \in Text /\ IsUtf8(s) /\ Len(s) \in Nat /\ p \in Nat /\ p <= Len(s)
<1>1. s \in Text /\ IsUtf8(s)
  BY ParserAssumption
<1>2. Len(s) \in Nat
  BY <1>1, LenProperties DEF Text
<1> QED
  BY <1>1, <1>2

LEMMA ReadsFacts ==
  ASSUME NEW s \in Inputs, NEW n \in Node, NEW p \in 0..Len(s)
  PROVE  LET r == Reads(n, s, p)
         IN /\ r.ok \in BOOLEAN /\ r.end \in Nat /\ r.print \in Text
            /\ ~r.ok => r.end = 0 /\ r.print = <<>>
BY MeaningAssumption, FoundFacts

LEMMA LeafReads ==
  ASSUME NEW s \in Inputs, NEW n \in Node, NEW p \in 0..Len(s)
  PROVE  LET r == Reads(n, s, p)
             text == Def[n].text
         IN /\ Kind(n) \in Literals =>
                 r = IF Spells(n, s, p)
                     THEN Read(p + Len(text),
                               IF Kind(n) = "lit" THEN text
                               ELSE Slice(s, p, p + Len(text)))
                     ELSE Unread
            /\ Kind(n) = "class" =>
                 r = IF CharEnds(n, s, p) = {} THEN Unread
                     ELSE LET end == CHOOSE e \in CharEnds(n, s, p) : TRUE
                          IN Read(end, Slice(s, p, end))
            /\ Kind(n) = "unit" => r = Read(p, <<>>)
<1>1. Reads(n, s, p) = ReadsAt(n, s, p)
  BY MeaningAssumption
<1> QED
  BY <1>1 DEF ReadsAt, Literals

LEMMA RepetitionReads ==
  ASSUME NEW s \in Inputs, NEW n \in Node, NEW p \in 0..Len(s)
  PROVE  LET r == Reads(n, s, p)
             kid == Reads(Kids(n)[1], s, p)
             items == Reads(Kids(n)[2], s, p)
         IN /\ Kind(n) = "opt" => r = IF kid.ok THEN kid ELSE Read(p, <<>>)
            /\ Kind(n) = "vec" =>
                 r = IF kid.ok /\ kid.end # p
                     THEN After(kid.print, Reads(n, s, kid.end))
                     ELSE Read(p, <<>>)
            /\ Kind(n) = "vec1" => r = IF items.end = p THEN Unread ELSE items
            /\ Kind(n) = "not" => r = IF kid.ok THEN Unread ELSE Read(p, <<>>)
<1>1. Reads(n, s, p) = ReadsAt(n, s, p)
  BY MeaningAssumption
<1> QED
  BY <1>1 DEF ReadsAt, Literals

LEMMA WrapperReads ==
  ASSUME NEW s \in Inputs, NEW n \in Node, NEW p \in 0..Len(s)
  PROVE  LET r == Reads(n, s, p)
             kid == Reads(Kids(n)[1], s, p)
         IN /\ Kind(n) = "box" => r = kid
            /\ Kind(n) = "raw" =>
                 r = IF kid.ok THEN Read(kid.end, Slice(s, p, kid.end)) ELSE Unread
            /\ Kind(n) = "phantom" =>
                 r = IF kid.ok THEN Read(kid.end, <<>>) ELSE Unread
            /\ Kind(n) \in Conversions =>
                 r = Approved(n, s, p, kid,
                       Printed(n, IF Kind(n) = "fromStr" THEN Slice(s, p, kid.end)
                                  ELSE kid.print))
<1>1. Reads(n, s, p) = ReadsAt(n, s, p)
  BY MeaningAssumption
<1> QED
  BY <1>1 DEF ReadsAt, Literals, Conversions

LEMMA BranchReads ==
  ASSUME NEW s \in Inputs, NEW n \in Node, NEW p \in 0..Len(s)
  PROVE  LET r == Reads(n, s, p)
         IN /\ Kind(n) = "seq" =>
                 r = Approved(n, s, p, Rest(n, 1, s, p), Rest(n, 1, s, p).print)
            /\ Kind(n) = "alt" =>
                 r = IF Fitting(n, s, p) = {} THEN Unread
                     ELSE Reads(Kids(n)[Min(Fitting(n, s, p))], s, p)
<1>1. Reads(n, s, p) = ReadsAt(n, s, p)
  BY MeaningAssumption
<1> QED
  BY <1>1 DEF ReadsAt, Literals

LEMMA RestReads ==
  ASSUME NEW s \in Inputs, NEW n \in Node, NEW p \in 0..Len(s), Kind(n) = "seq",
         NEW i \in 1 .. Len(Kids(n)) + 1
  PROVE  LET r == Rest(n, i, s, p)
             kid == Reads(Kids(n)[i], s, p)
         IN /\ r.ok \in BOOLEAN /\ r.end \in Nat /\ r.print \in Text
            /\ ~r.ok => r.end = 0 /\ r.print = <<>>
            /\ r = IF i > Len(Kids(n)) THEN Read(p, <<>>)
                   ELSE IF kid.ok THEN After(kid.print, Rest(n, i + 1, s, kid.end))
                   ELSE Unread
<1>1. Rest(n, i, s, p) \in Found /\ Rest(n, i, s, p) = RestAt(n, i, s, p)
  BY MeaningAssumption
<1> QED
  BY <1>1, FoundFacts DEF RestAt

\* The least of a set of numbers.
LEMMA MinFacts ==
  ASSUME NEW S \in SUBSET Nat, S # {}
  PROVE  Min(S) \in S /\ \A k \in S : Min(S) <= k
<1>1. \E m \in S : \A k \in S : m <= k
  BY LeastElement
<1> QED
  BY <1>1 DEF Min

-----------------------------------------------------------------------------
(***************************************************************************)
(* What the table reads, the parser's invariant allows.                    *)
(***************************************************************************)

\* A grammar that reads something at p starts there with a byte of its FIRST
\* set, or is nullable.
ReadsWell(n, s, p) ==
  Reads(n, s, p).ok => MayMatch(s, n, p, Reads(n, s, p).end)

LEMMA LiteralReadsWell ==
  ASSUME NEW s \in Inputs, NEW n \in Node, NEW p \in 0..Len(s),
         Kind(n) \in Literals
  PROVE  ReadsWell(n, s, p)
<1> DEFINE text == Def[n].text
<1> SUFFICES ASSUME Spells(n, s, p) PROVE MayMatch(s, n, p, p + Len(text))
  BY LeafReads DEF ReadsWell, Read, Unread
<1>1. /\ s \in Text /\ Len(s) \in Nat /\ p \in Nat
      /\ Len(text) \in Nat \ {0} /\ text[1] \in Byte /\ 1 \in 1..Len(text)
  BY PlaceFacts, LiteralFirst
<1>2. /\ p + Len(text) <= Len(s)
      /\ IF Kind(n) = "litCI" THEN Lower(s[p + 1]) = Lower(text[1])
         ELSE s[p + 1] = text[1]
  BY <1>1 DEF Spells
<1>3. p + 1 \in 1..Len(s)
  BY <1>1, <1>2
<1>4. s[p + 1] \in Byte
  BY <1>1, <1>3, TextByte
<1>5. s[p + 1] \in First[n].bytes
  <2>1. CASE Kind(n) = "lit"
    BY <1>2, <2>1, LiteralFirst
  <2>2. CASE Kind(n) = "litCI"
    BY <1>1, <1>2, <1>4, <2>2, SameLetter, LiteralFirst
  <2> QED
    BY <2>1, <2>2 DEF Literals
<1>6. StartsAt(s, n, p)
  BY <1>1, <1>3, <1>5 DEF StartsAt
<1> HIDE DEF text
<1> QED
  BY <1>1, <1>2, <1>6 DEF MayMatch

LEMMA LeafReadsWell ==
  ASSUME NEW s \in Inputs, NEW n \in Node, NEW p \in 0..Len(s),
         Kind(n) \in {"class", "unit", "not"}
  PROVE  ReadsWell(n, s, p)
<1>1. s \in Text /\ Len(s) \in Nat /\ p \in Nat /\ p <= Len(s)
  BY PlaceFacts
<1>2. CASE Kind(n) = "class"
  <2> SUFFICES ASSUME NEW e \in CharEnds(n, s, p) PROVE MayMatch(s, n, p, e)
    BY <1>2, LeafReads DEF ReadsWell, Read, Unread
  <2>1. e \in p + 1 .. Len(s)
    BY DEF CharEnds
  <2>2. p + 1 \in 1..Len(s) /\ e \in Nat /\ p < e /\ e <= Len(s) /\ p < Len(s)
    BY <1>1, <2>1
  <2>3. s[p + 1] \in First[n].bytes
    BY <1>1, <1>2, <2>2, TextByte, LeafFirst
  <2> QED
    BY <1>1, <2>2, <2>3 DEF MayMatch, StartsAt
<1>3. CASE Kind(n) \in {"unit", "not"}
  <2>1. First[n].nil
    BY <1>3, LeafFirst
  <2>2. Reads(n, s, p) \in {Read(p, <<>>), Unread}
    BY <1>3, LeafReads, RepetitionReads
  <2>3. Reads(n, s, p).ok => Reads(n, s, p).end = p
    BY <2>2 DEF Read, Unread
  <2> QED
    BY <1>1, <2>1, <2>3 DEF ReadsWell, MayMatch
<1> QED
  BY <1>2, <1>3

\* Option, Box, Raw, PhantomData and the conversions read what their kid does.
LEMMA WrapperReadsWell ==
  ASSUME NEW s \in Inputs, NEW n \in Node, NEW p \in 0..Len(s),
         Kind(n) \in {"opt", "box", "raw", "phantom"} \cup Conversions,
         ReadsWell(Kids(n)[1], s, p)
  PROVE  ReadsWell(n, s, p)
<1> DEFINE kid == Reads(Kids(n)[1], s, p)
           r == Reads(n, s, p)
<1>1. s \in Text /\ Len(s) \in Nat /\ p \in Nat /\ p <= Len(s)
  BY PlaceFacts
<1>2. /\ First[n].bytes = First[Kids(n)[1]].bytes
      /\ First[n].nil = (Kind(n) = "opt" \/ First[Kids(n)[1]].nil)
  BY WrappedFirst DEF Wrappers, Conversions
<1>3. CASE Kind(n) = "opt"
  <2>1. r = IF kid.ok THEN kid ELSE Read(p, <<>>)
    BY <1>3, RepetitionReads
  <2> HIDE DEF kid, r
  <2>2. r = kid \/ r.end = p
    BY <2>1 DEF Read
  <2>3. MayMatch(s, n, p, p)
    <3>1. First[n].nil
      BY <1>2, <1>3
    <3> QED
      BY <1>1, <3>1 DEF MayMatch
  <2> QED
    BY <1>2, <2>2, <2>3 DEF ReadsWell, MayMatch, StartsAt, kid, r
<1>4. CASE Kind(n) \in {"box", "raw", "phantom"} \cup Conversions
  <2>1. \/ r = kid
        \/ r = IF kid.ok THEN Read(kid.end, Slice(s, p, kid.end)) ELSE Unread
        \/ r = IF kid.ok THEN Read(kid.end, <<>>) ELSE Unread
        \/ \E print : r = Approved(n, s, p, kid, print)
    BY <1>4, WrapperReads
  <2> HIDE DEF kid, r
  <2>2. r.ok => kid.ok /\ r.end = kid.end
    BY <2>1 DEF Approved, Read, Unread
  <2> QED
    BY <1>2, <1>4, <2>2 DEF ReadsWell, MayMatch, StartsAt, kid, r
<1> QED
  BY <1>3, <1>4

LEMMA VecReadsWell ==
  ASSUME NEW s \in Inputs, NEW n \in Node, NEW p \in 0..Len(s),
         Kind(n) = "vec", ReadsWell(Kids(n)[1], s, p),
         \A q \in p + 1 .. Len(s) : ReadsWell(n, s, q)
  PROVE  ReadsWell(n, s, p)
<1> DEFINE kid == Reads(Kids(n)[1], s, p)
           r == Reads(n, s, p)
<1>1. s \in Text /\ Len(s) \in Nat /\ p \in Nat /\ p <= Len(s)
  BY PlaceFacts
<1>2. Kids(n)[1] \in Node /\ First[n].bytes = First[Kids(n)[1]].bytes /\ First[n].nil
  BY WrappedFirst DEF Wrappers
<1>3. r = IF kid.ok /\ kid.end # p THEN After(kid.print, Reads(n, s, kid.end))
          ELSE Read(p, <<>>)
  BY RepetitionReads
<1>4. kid.end \in Nat /\ (kid.ok => MayMatch(s, Kids(n)[1], p, kid.end))
  BY <1>2, ReadsFacts DEF ReadsWell
<1> HIDE DEF kid, r
<1>5. CASE ~(kid.ok /\ kid.end # p)
  <2>1. r.end = p
    BY <1>3, <1>5 DEF Read
  <2>2. MayMatch(s, n, p, p)
    BY <1>1, <1>2 DEF MayMatch
  <2> QED
    BY <2>1, <2>2 DEF ReadsWell, r
<1>6. CASE kid.ok /\ kid.end # p
  <2> DEFINE more == Reads(n, s, kid.end)
  <2>1. r.ok => more.ok /\ r.end = more.end
    BY <1>3, <1>6 DEF After, Read, Unread
  <2>2. p < kid.end /\ kid.end \in p + 1 .. Len(s) /\ kid.end \in 0..Len(s)
    BY <1>1, <1>4, <1>6 DEF MayMatch
  <2>3. StartsAt(s, n, p)
    BY <1>2, <1>4, <1>6, <2>2 DEF MayMatch, StartsAt
  <2>4. more.end \in Nat /\ (more.ok => kid.end <= more.end /\ more.end <= Len(s))
    BY <2>2, ReadsFacts DEF ReadsWell, MayMatch
  <2> HIDE DEF more
  <2>5. more.ok => MayMatch(s, n, p, more.end)
    BY <1>1, <1>4, <2>2, <2>3, <2>4 DEF MayMatch
  <2> QED
    BY <2>1, <2>5 DEF ReadsWell, r
<1> QED
  BY <1>5, <1>6

LEMMA Vec1ReadsWell ==
  ASSUME NEW s \in Inputs, NEW n \in Node, NEW p \in 0..Len(s),
         Kind(n) = "vec1", ReadsWell(Kids(n)[2], s, p)
  PROVE  ReadsWell(n, s, p)
<1> DEFINE v == Kids(n)[2]
           items == Reads(v, s, p)
           r == Reads(n, s, p)
<1>1. WellFormed(n) /\ Len(Kids(n)) = 2
  BY NodeFacts, Vec1First
<1>2. v \in Node /\ Kind(v) = "vec" /\ Kids(v) = <<Kids(n)[1]>>
  BY <1>1, NodeFacts DEF WellFormed
<1>3. First[v].bytes = First[Kids(n)[1]].bytes
  BY <1>2, WrappedFirst DEF Wrappers
<1>4. First[n].bytes = First[Kids(n)[1]].bytes
  BY WrappedFirst
<1>5. r = IF items.end = p THEN Unread ELSE items
  BY RepetitionReads
<1>6. items.ok => MayMatch(s, v, p, items.end)
  BY DEF ReadsWell
<1>7. ASSUME r.ok PROVE r = items /\ items.ok /\ items.end # p
  BY <1>5, <1>7 DEF Unread
<1> HIDE DEF v, items, r
<1>8. ASSUME r.ok PROVE MayMatch(s, n, p, items.end)
  BY <1>3, <1>4, <1>6, <1>7, <1>8 DEF MayMatch, StartsAt
<1> QED
  BY <1>7, <1>8 DEF ReadsWell, r

\* The variant an enum reads is the first that reads anything.
LEMMA FirstFitting ==
  ASSUME NEW s \in Inputs, NEW n \in Node, NEW p \in 0..Len(s), Kind(n) = "alt",
         Reads(n, s, p).ok
  PROVE  \E j \in 1..Len(Kids(n)) :
           Reads(Kids(n)[j], s, p).ok /\ Reads(n, s, p) = Reads(Kids(n)[j], s, p)
<1> DEFINE fit == Fitting(n, s, p)
<1>1. fit # {} /\ Reads(n, s, p) = Reads(Kids(n)[Min(fit)], s, p)
  BY BranchReads DEF Unread
<1>2. fit \in SUBSET Nat
  BY NodeFacts DEF Fitting
<1>3. Min(fit) \in fit
  BY <1>1, <1>2, MinFacts
<1> QED
  BY <1>1, <1>3 DEF Fitting

LEMMA AltReadsWell ==
  ASSUME NEW s \in Inputs, NEW n \in Node, NEW p \in 0..Len(s), Kind(n) = "alt",
         \A j \in 1..Len(Kids(n)) : ReadsWell(Kids(n)[j], s, p)
  PROVE  ReadsWell(n, s, p)
<1> SUFFICES ASSUME Reads(n, s, p).ok PROVE MayMatch(s, n, p, Reads(n, s, p).end)
  BY DEF ReadsWell
<1>1. PICK j \in 1..Len(Kids(n)) :
        Reads(Kids(n)[j], s, p).ok /\ Reads(n, s, p) = Reads(Kids(n)[j], s, p)
  BY FirstFitting
<1>2. MayMatch(s, Kids(n)[j], p, Reads(n, s, p).end)
  BY <1>1 DEF ReadsWell
<1>3. /\ First[Kids(n)[j]].bytes \subseteq First[n].bytes
      /\ First[Kids(n)[j]].nil => First[n].nil
  BY AlternationFirst
<1> QED
  BY <1>2, <1>3 DEF MayMatch, StartsAt

\* The fields of a sequence, one after the other: the kids before the i-th may
\* match from p to q, the others read on.
LEMMA FieldsReadWell ==
  ASSUME NEW s \in Inputs, NEW n \in Node, NEW p \in 0..Len(s), Kind(n) = "seq",
         \A j \in 1..Len(Kids(n)) : \A q \in p + 1 .. Len(s) :
           ReadsWell(Kids(n)[j], s, q),
         \A j \in 1..Len(Kids(n)) : LeftKid(n, j) => ReadsWell(Kids(n)[j], s, p)
  PROVE  \A i \in 1 .. Len(Kids(n)) + 1 : \A q \in p..Len(s) :
           FieldsMayMatch(s, Kids(n), i, p, q) /\ Rest(n, i, s, q).ok =>
             LET e == Rest(n, i, s, q).end
             IN /\ q <= e /\ e <= Len(s)
                /\ FieldsMayMatch(s, Kids(n), Len(Kids(n)) + 1, p, e)
<1> DEFINE kids == Kids(n)
           last == Len(kids)
           Goes(i, q, e) ==
             q <= e /\ e <= Len(s) /\ FieldsMayMatch(s, kids, last + 1, p, e)
           Fine(i) ==
             \A q \in p..Len(s) :
               FieldsMayMatch(s, kids, i, p, q) /\ Rest(n, i, s, q).ok =>
                 Goes(i, q, Rest(n, i, s, q).end)
           bad == {d \in 0..last : ~Fine(last + 1 - d)}
<1>1. /\ s \in Text /\ Len(s) \in Nat /\ p \in Nat /\ p <= Len(s)
      /\ last \in Nat /\ \A j \in 1..last : kids[j] \in Node
  BY PlaceFacts, NodeFacts
<1>2. Fine(last + 1)
  <2> SUFFICES ASSUME NEW q \in p..Len(s), FieldsMayMatch(s, kids, last + 1, p, q)
               PROVE  Goes(last + 1, q, Rest(n, last + 1, s, q).end)
    OBVIOUS
  <2>1. q \in 0..Len(s) /\ last + 1 \in 1 .. Len(kids) + 1 /\ last + 1 > last
    BY <1>1
  <2>2. Rest(n, last + 1, s, q) = Read(q, <<>>)
    BY <2>1, RestReads
  <2>3. Rest(n, last + 1, s, q).end = q
    BY <2>2 DEF Read
  <2> QED
    BY <1>1, <2>3
<1>3. ASSUME NEW i \in 1..last, Fine(i + 1) PROVE Fine(i)
  <2> SUFFICES ASSUME NEW q \in p..Len(s), FieldsMayMatch(s, kids, i, p, q),
                      Rest(n, i, s, q).ok
               PROVE  Goes(i, q, Rest(n, i, s, q).end)
    OBVIOUS
  <2> DEFINE kid == Reads(kids[i], s, q)
             more == Rest(n, i + 1, s, kid.end)
  <2>1. q \in 0..Len(s) /\ q \in Nat /\ i \in 1 .. last + 1 /\ ~(i > last)
        /\ p <= q /\ q <= Len(s) /\ i \in Nat \ {0} /\ i + 1 \in 1 .. last + 1
    BY <1>1
  <2>2. Rest(n, i, s, q) = IF kid.ok THEN After(kid.print, more) ELSE Unread
    BY <2>1, RestReads
  <2>3. kid.ok /\ more.ok /\ Rest(n, i, s, q).end = more.end
    BY <2>2 DEF After, Read, Unread
  <2>4. ReadsWell(kids[i], s, q)
    <3>1. CASE q = p
      <4>1. \A j \in 1 .. i - 1 : First[kids[j]].nil
        BY <3>1 DEF FieldsMayMatch
      <4> QED
        BY <3>1, <4>1 DEF LeftKid
    <3>2. CASE q # p
      BY <1>1, <2>1, <3>2
    <3> QED
      BY <3>1, <3>2
  <2>5. MayMatch(s, kids[i], q, kid.end) /\ kid.end \in Nat
    BY <1>1, <2>1, <2>3, <2>4, ReadsFacts DEF ReadsWell
  <2> HIDE DEF kid
  <2>6. q <= kid.end /\ kid.end <= Len(s) /\ kid.end \in p..Len(s)
    BY <1>1, <2>1, <2>5 DEF MayMatch
  <2>7. FieldsMayMatch(s, kids, i + 1, p, kid.end)
    BY <1>1, <2>1, <2>5, <2>6, FieldsAndOne
  <2>8. Goes(i + 1, kid.end, more.end)
    BY <1>3, <2>3, <2>6, <2>7
  <2>9. more.end \in Nat
    BY <1>1, <2>1, <2>6, RestReads
  <2> HIDE DEF more
  <2>10. q <= more.end
    BY <2>1, <2>5, <2>6, <2>8, <2>9
  <2> QED
    BY <2>3, <2>8, <2>10
<1> HIDE DEF Fine
<1>4. ASSUME bad # {} PROVE FALSE
  <2>1. bad \subseteq Nat
    OBVIOUS
  <2>2. PICK d \in bad : \A c \in bad : d <= c
    BY <1>4, <2>1, LeastElement
  <2>3. d \in 0..last /\ ~Fine(last + 1 - d)
    BY <2>2
  <2>4. d # 0
    BY <1>1, <1>2, <2>3
  <2>5. /\ last + 1 - d \in 1..last /\ (last + 1 - d) + 1 = last + 1 - (d - 1)
        /\ d - 1 \in 0..last /\ ~(d <= d - 1)
    BY <1>1, <2>3, <2>4
  <2>6. Fine(last + 1 - (d - 1))
    BY <2>2, <2>5
  <2>7. Fine((last + 1 - d) + 1)
    BY <2>5, <2>6
  <2> QED
    BY <1>3, <2>3, <2>5, <2>7
<1>5. ASSUME NEW i \in 1 .. last + 1 PROVE Fine(i)
  <2>1. last + 1 - i \in 0..last /\ last + 1 - (last + 1 - i) = i
    BY <1>1
  <2>2. Fine(last + 1 - (last + 1 - i))
    BY <1>4, <2>1
  <2> QED
    BY <2>1, <2>2
<1> QED
  BY <1>5 DEF Fine

LEMMA SeqReadsWell ==
  ASSUME NEW s \in Inputs, NEW n \in Node, NEW p \in 0..Len(s), Kind(n) = "seq",
         \A j \in 1..Len(Kids(n)) : \A q \in p + 1 .. Len(s) :
           ReadsWell(Kids(n)[j], s, q),
         \A j \in 1..Len(Kids(n)) : LeftKid(n, j) => ReadsWell(Kids(n)[j], s, p)
  PROVE  ReadsWell(n, s, p)
<1> DEFINE r == Reads(n, s, p)
           all == Rest(n, 1, s, p)
<1> SUFFICES ASSUME r.ok PROVE MayMatch(s, n, p, r.end)
  BY DEF ReadsWell
<1>1. /\ s \in Text /\ Len(s) \in Nat /\ p \in Nat /\ p <= Len(s)
      /\ Len(Kids(n)) \in Nat /\ 1 \in 1 .. Len(Kids(n)) + 1
      /\ p \in p..Len(s)
  BY PlaceFacts, NodeFacts
<1>2. r = Approved(n, s, p, all, all.print)
  BY BranchReads
<1>3. all.ok /\ r.end = all.end
  BY <1>2 DEF Approved, Read, Unread
<1>4. FieldsMayMatch(s, Kids(n), 1, p, p)
  BY <1>1 DEF FieldsMayMatch
<1>5. /\ p <= all.end /\ all.end <= Len(s)
      /\ FieldsMayMatch(s, Kids(n), Len(Kids(n)) + 1, p, all.end)
  BY <1>1, <1>3, <1>4, FieldsReadWell
<1>6. all.end \in Nat
  BY <1>1, RestReads
<1> HIDE DEF all, r
<1>7. MayMatch(s, n, p, all.end)
  BY <1>1, <1>5, <1>6, FieldsMatch
<1> QED
  BY <1>3, <1>7

\* One grammar at one place, if all it may read before are well.
LEMMA StepReadsWell ==
  ASSUME NEW s \in Inputs, NEW n \in Node, NEW p \in 0..Len(s),
         \A m \in Node : \A q \in p + 1 .. Len(s) : ReadsWell(m, s, q),
         \A j \in 1..Len(Kids(n)) : LeftKid(n, j) => ReadsWell(Kids(n)[j], s, p)
  PROVE  ReadsWell(n, s, p)
<1>1. /\ WellFormed(n) /\ Kind(n) \in Kinds /\ Len(Kids(n)) \in Nat
      /\ \A j \in 1..Len(Kids(n)) : Kids(n)[j] \in Node
  BY NodeFacts
<1>2. Kind(n) # "seq" =>
        \A j \in 1..Len(Kids(n)) : ReadsWell(Kids(n)[j], s, p)
  BY DEF LeftKid
<1>3. ASSUME Kind(n) \in Wrappers \cup Conversions PROVE 1 \in 1..Len(Kids(n))
  <2>1. Len(Kids(n)) = 1
    BY <1>1, <1>3 DEF WellFormed
  <2> QED
    BY <2>1
<1>4. Kind(n) = "vec1" => 2 \in 1..Len(Kids(n))
  BY Vec1First
<1>5. CASE Kind(n) \in Literals
  BY <1>5, LiteralReadsWell
<1>6. CASE Kind(n) \in {"class", "unit", "not"}
  BY <1>6, LeafReadsWell
<1>7. CASE Kind(n) \in {"opt", "box", "raw", "phantom"} \cup Conversions
  <2>1. Kind(n) # "seq" /\ 1 \in 1..Len(Kids(n))
    BY <1>3, <1>7 DEF Wrappers, Conversions
  <2> QED
    BY <1>2, <1>7, <2>1, WrapperReadsWell
<1>8. CASE Kind(n) = "vec"
  <2>1. 1 \in 1..Len(Kids(n))
    BY <1>3, <1>8 DEF Wrappers
  <2> QED
    BY <1>2, <1>8, <2>1, VecReadsWell
<1>9. CASE Kind(n) = "vec1"
  BY <1>2, <1>4, <1>9, Vec1ReadsWell
<1>10. CASE Kind(n) = "alt"
  BY <1>2, <1>10, AltReadsWell
<1>11. CASE Kind(n) = "seq"
  BY <1>1, <1>11, SeqReadsWell
<1> QED
  BY <1>1, <1>5, <1>6, <1>7, <1>8, <1>9, <1>10, <1>11 DEF Kinds, Wrappers

\* Whatever the table reads, without left recursion it reads within the text,
\* and from where the FIRST set says the grammar may start.
LEMMA AllReadWell ==
  ASSUME NEW s \in Inputs
  PROVE  \A n \in Node : \A p \in 0..Len(s) : ReadsWell(n, s, p)
<1> DEFINE Bad(n, p) == ~ReadsWell(n, s, p)
           places == {d \in 0..Len(s) : \E n \in Node : Bad(n, Len(s) - d)}
<1>1. s \in Text /\ Len(s) \in Nat
  BY ParserAssumption, LenProperties DEF Text
<1> HIDE DEF Bad
<1>2. ASSUME places # {} PROVE FALSE
  <2>1. places \subseteq Nat
    OBVIOUS
  <2>2. PICK d \in places : \A c \in places : d <= c
    BY <1>2, <2>1, LeastElement
  <2> DEFINE p == Len(s) - d
             ranks == {k \in Nat : \E n \in Node : LeftRank[n] = k /\ Bad(n, p)}
  <2>3. d \in 0..Len(s) /\ p \in 0..Len(s) /\ \E n \in Node : Bad(n, p)
    BY <1>1, <2>2
  <2>4. ASSUME NEW m \in Node, NEW q \in p + 1 .. Len(s) PROVE ~Bad(m, q)
    <3>1. Len(s) - q \in 0..Len(s) /\ ~(d <= Len(s) - q) /\ Len(s) - (Len(s) - q) = q
      BY <1>1, <2>3
    <3>2. Len(s) - q \notin places
      BY <2>2, <3>1
    <3>3. ~Bad(m, Len(s) - (Len(s) - q))
      BY <3>1, <3>2
    <3> QED
      BY <3>1, <3>3
  <2> HIDE DEF p
  <2>5. ranks # {} /\ ranks \subseteq Nat
    BY <2>3, NoLeftRecursion
  <2>6. PICK k \in ranks : \A l \in ranks : k <= l
    BY <2>5, LeastElement
  <2>7. PICK n \in Node : LeftRank[n] = k /\ Bad(n, p)
    BY <2>6
  <2>8. ASSUME NEW j \in 1..Len(Kids(n)), LeftKid(n, j) PROVE ~Bad(Kids(n)[j], p)
    <3>1. /\ Kids(n)[j] \in Node /\ LeftRank[Kids(n)[j]] \in Nat
          /\ LeftRank[Kids(n)[j]] < LeftRank[n] /\ LeftRank[n] \in Nat
      BY <2>8, NodeFacts, NoLeftRecursion
    <3>2. ~(k <= LeftRank[Kids(n)[j]])
      BY <2>7, <3>1
    <3>3. LeftRank[Kids(n)[j]] \notin ranks
      BY <2>6, <3>2
    <3> QED
      BY <3>1, <3>3
  <2>9. ReadsWell(n, s, p)
    BY <2>3, <2>4, <2>8, StepReadsWell DEF Bad
  <2> QED
    BY <2>7, <2>9 DEF Bad
<1>3. ASSUME NEW n \in Node, NEW p \in 0..Len(s) PROVE ~Bad(n, p)
  <2>1. Len(s) - p \in 0..Len(s) /\ Len(s) - (Len(s) - p) = p
    BY <1>1
  <2>2. ~Bad(n, Len(s) - (Len(s) - p))
    BY <1>2, <2>1
  <2> QED
    BY <2>1, <2>2
<1> QED
  BY <1>3 DEF Bad

\* So a table lookup skips nothing that the table reads.
LEMMA SkipsNothing ==
  ASSUME input \in Inputs, NEW n \in Node, NEW p \in 0..Len(input),
         ~MayStart(n, p)
  PROVE  ~Reads(n, input, p).ok
<1>1. Reads(n, input, p).ok => MayMatch(input, n, p, Reads(n, input, p).end)
  BY AllReadWell DEF ReadsWell
<1>2. Reads(n, input, p).end \in Nat /\ p \in Nat
  BY ReadsFacts, PlaceFacts
<1> QED
  BY <1>1, <1>2 DEF MayMatch, MayStart, StartsAt

-----------------------------------------------------------------------------
(***************************************************************************)
(* Steps of the stack.                                                     *)
(***************************************************************************)

\* What the invariants say of the top activation.
LEMMA TopMeans ==
  ASSUME IInv, ReadsInv, stack # <<>>
  PROVE  /\ input \in Inputs /\ input \in Text /\ Len(input) \in Nat
         /\ Top \in FrameSet /\ Top.node \in Node
         /\ Top.pos \in 0..Len(input) /\ Top.cur \in 0..Len(input)
         /\ Top.pos \in Nat /\ Top.cur \in Nat /\ Top.i \in Nat /\ Top.out \in Text
         /\ Located(input, Top) /\ Indexed(Top)
         /\ FrameMeans(input, Top, Reads(Top.node, input, Top.pos))
<1>1. Top \in FrameSet /\ FrameOK(input, Top) /\ input \in Text /\ Len(input) \in Nat
  BY TopFacts
<1>2. stack \in Seq(FrameSet) /\ input \in Inputs
  BY DEF IInv, TypeOK
<1>3. /\ Top.node \in Node /\ Top.pos \in Nat /\ Top.cur \in Nat /\ Top.i \in Nat
      /\ Top.out \in Text
  BY <1>1 DEF FrameSet
<1>4. Top.pos <= Top.cur /\ Top.cur <= Len(input)
  BY <1>1 DEF FrameOK, Located
<1>5. Len(stack) \in 1..Len(stack) /\ Top = stack[Len(stack)]
  <2>1. Len(stack) \in Nat \ {0} /\ Last(stack) = stack[Len(stack)]
    BY <1>2, FrontProperties
  <2> QED
    BY <2>1 DEF Top
<1>6. FrameMeans(input, Top, Reads(Top.node, input, Top.pos))
  BY <1>5 DEF ReadsInv
<1>7. Top.pos \in 0..Len(input) /\ Top.cur \in 0..Len(input)
  BY <1>1, <1>3, <1>4
<1> QED
  BY <1>1, <1>2, <1>3, <1>6, <1>7 DEF FrameOK

\* An answer of an activation is one of the operation it runs for its caller.
LEMMA MeantPassesOn ==
  ASSUME NEW f, NEW n, NEW op, NEW p, NEW r, NEW m,
         Runs(f, n, op, p), AnswerMeans(f.node, f.op, f.pos, r, m),
         f.op = "miss" => /\ Kind(f.node) = "alt" /\ r.ok = FALSE /\ r.end = 0
                          /\ r.print = <<>>
                          /\ m.ok = FALSE /\ m.end = 0 /\ m.print = <<>>
  PROVE  AnswerMeans(n, op, p, r, m)
<1>1. CASE f.op = op
  BY <1>1 DEF Runs
<1>2. CASE f.op # op
  BY <1>2 DEF Runs, AnswerMeans
<1> QED
  BY <1>1, <1>2

\* An activation ends.
LEMMA ReturnMeans ==
  ASSUME IInv, ReadsInv, phase # "idle", stack # <<>>, NEW r, Return(r),
         AnswerMeans(Top.node, Top.op, Top.pos, r, Reads(Top.node, input, Top.pos)),
         Top.op = "miss" => r = Nothing
  PROVE  ReadsInv'
<1> DEFINE m == Reads(Top.node, input, Top.pos)
<1>1. stack \in Seq(FrameSet)
  BY DEF IInv, TypeOK
<1>2. /\ Len(stack) \in Nat \ {0}
      /\ stack' \in Seq(FrameSet)
      /\ Len(stack') = Len(stack) - 1
      /\ \A j \in 1 .. Len(stack) - 1 : stack'[j] = stack[j]
      /\ Top = stack[Len(stack)]
  BY <1>1, FrontProperties DEF Return, Top
<1>3. \A k \in 1..Len(stack') :
        FrameMeans(input, stack'[k], Reads(stack'[k].node, input, stack'[k].pos))
  BY <1>2 DEF ReadsInv
<1>4. Top.op = "miss" => /\ Kind(Top.node) = "alt" /\ r.ok = FALSE /\ r.end = 0
                         /\ r.print = <<>>
                         /\ m.ok = FALSE /\ m.end = 0 /\ m.print = <<>>
  <2> SUFFICES ASSUME Top.op = "miss"
               PROVE  /\ Kind(Top.node) = "alt" /\ r.ok = FALSE /\ r.end = 0
                      /\ r.print = <<>>
                      /\ m.ok = FALSE /\ m.end = 0 /\ m.print = <<>>
    OBVIOUS
  <2>1. Kind(Top.node) = "alt" /\ ~m.ok
    BY TopMeans DEF Indexed, FrameMeans
  <2>2. m.ok \in BOOLEAN /\ (~m.ok => m.end = 0 /\ m.print = <<>>)
    BY TopMeans, ReadsFacts
  <2> HIDE DEF m
  <2>3. r.ok = FALSE /\ r.end = 0 /\ r.print = <<>>
    BY DEF Nothing
  <2> QED
    BY <2>1, <2>2, <2>3
<1>5. AnswerMeans(AskedNode', AskedOp', AskedPos', r,
                  Reads(AskedNode', input, AskedPos'))
  <2>1. CASE stack' = <<>>
    <3>1. Len(stack') = 0
      BY <2>1, EmptySeq
    <3>2. Top = stack[1]
      <4>1. Len(stack) = 1
        BY <1>2, <3>1
      <4> QED
        BY <1>2, <4>1
    <3>3. Runs(Top, root, EntryOp(Entry), 0)
      BY <3>2 DEF IInv, StackOK
    <3>4. Top.node = root /\ Top.pos = 0
      BY <3>3 DEF Runs
    <3>5. AnswerMeans(root, EntryOp(Entry), 0, r, m)
      BY <1>4, <3>3, MeantPassesOn
    <3>6. AskedNode' = root /\ AskedOp' = EntryOp(Entry) /\ AskedPos' = 0
      BY <2>1 DEF AskedNode, AskedOp, AskedPos, Entry, Return
    <3> QED
      BY <3>4, <3>5, <3>6
  <2>2. CASE stack' # <<>>
    <3>1. Len(stack') \in Nat \ {0} /\ Top' = stack'[Len(stack')]
      BY <1>2, <2>2, FrontProperties DEF Top
    <3>2. Len(stack) - 1 \in 1 .. Len(stack) - 1 /\ Top' = stack[Len(stack) - 1]
          /\ (Len(stack) - 1) + 1 = Len(stack)
      BY <1>2, <3>1
    <3>3. Waits(stack[Len(stack) - 1], stack[(Len(stack) - 1) + 1])
      BY <3>2 DEF IInv, StackOK
    <3>4. Runs(Top, Callee(Top'), KidOp(Top'), Top'.cur)
      BY <1>2, <3>2, <3>3 DEF Waits
    <3>5. Top.node = Callee(Top') /\ Top.pos = Top'.cur
      BY <3>4 DEF Runs
    <3>6. AnswerMeans(Callee(Top'), KidOp(Top'), Top'.cur, r, m)
      BY <1>4, <3>4, MeantPassesOn
    <3>7. /\ AskedNode' = Callee(Top') /\ AskedOp' = KidOp(Top')
          /\ AskedPos' = Top'.cur
      BY <2>2 DEF AskedNode, AskedOp, AskedPos
    <3> QED
      BY <3>5, <3>6, <3>7
  <2> QED
    BY <2>1, <2>2
<1>6. AnsweredAsMeant'
  BY DEF ReadsInv, AnsweredAsMeant, Return
<1> QED
  BY <1>3, <1>5, <1>6 DEF ReadsInv, Return

\* An activation goes on, as f.
LEMMA ContinueMeans ==
  ASSUME IInv, ReadsInv, phase # "idle", stack # <<>>,
         NEW f \in FrameSet, Continue(f),
         FrameMeans(input, f, Reads(f.node, input, f.pos))
  PROVE  ReadsInv'
<1>1. stack \in Seq(FrameSet)
  BY DEF IInv, TypeOK
<1>2. /\ Len(stack) \in Nat \ {0}
      /\ Len(stack') = Len(stack)
      /\ \A j \in 1 .. Len(stack) - 1 : stack'[j] = stack[j]
      /\ stack'[Len(stack)] = f
  <2> DEFINE s == [stack EXCEPT ![Len(stack)] = f]
  <2>1. /\ Len(stack) \in Nat \ {0}
        /\ Len(s) = Len(stack)
        /\ \A j \in 1 .. Len(stack) - 1 : s[j] = stack[j]
        /\ s[Len(stack)] = f
    BY <1>1, FrontProperties, ReplaceLast
  <2>2. stack' = s
    BY DEF Continue
  <2> HIDE DEF s
  <2> QED
    BY <2>1, <2>2
<1>3. ASSUME NEW k \in 1..Len(stack')
      PROVE  FrameMeans(input, stack'[k], Reads(stack'[k].node, input, stack'[k].pos))
  <2>1. k = Len(stack) \/ k \in 1 .. Len(stack) - 1
    BY <1>2
  <2>2. CASE k = Len(stack)
    BY <1>2, <2>2
  <2>3. CASE k \in 1 .. Len(stack) - 1
    <3>1. stack'[k] = stack[k] /\ k \in 1..Len(stack)
      BY <1>2, <2>3
    <3> QED
      BY <3>1 DEF ReadsInv
  <2> QED
    BY <2>1, <2>2, <2>3
<1>4. AnsweredAsMeant'
  BY DEF ReadsInv, AnsweredAsMeant, Continue
<1> QED
  BY <1>3, <1>4 DEF ReadsInv, Continue

-----------------------------------------------------------------------------
(***************************************************************************)
(* Printing what was read piece by piece.                                  *)
(***************************************************************************)

LEMMA FoundRecord ==
  ASSUME NEW r \in Found
  PROVE  r = IF r.ok THEN Read(r.end, r.print) ELSE Unread
<1>1. CASE r \in [ok : {TRUE}, end : Nat, print : Text]
  BY <1>1 DEF Read
<1>2. CASE r = Unread
  BY <1>2 DEF Unread
<1> QED
  BY <1>1, <1>2 DEF Found

LEMMA AfterNothing ==
  ASSUME NEW r \in Found
  PROVE  After(<<>>, r) = r
<1>1. r.print \in Seq(Byte)
  BY FoundFacts DEF Text
<1>2. <<>> \o r.print = r.print
  BY <1>1, ConcatEmptySeq
<1> QED
  BY <1>2, FoundRecord DEF After

LEMMA AfterAfter ==
  ASSUME NEW a \in Text, NEW b \in Text, NEW r \in Found
  PROVE  After(a, After(b, r)) = After(a \o b, r)
<1>1. r.print \in Seq(Byte) /\ a \in Seq(Byte) /\ b \in Seq(Byte)
  BY FoundFacts DEF Text
<1>2. a \o (b \o r.print) = (a \o b) \o r.print
  <2>1. \A x, y, z \in Seq(Byte) : (x \o y) \o z = x \o (y \o z)
    BY ConcatAssociative
  <2> QED
    BY <1>1, <2>1
<1>3. CASE r.ok
  BY <1>2, <1>3 DEF After, Read
<1>4. CASE ~r.ok
  BY <1>4 DEF After, Unread
<1> QED
  BY <1>3, <1>4

\* An activation that starts has all left to read.
LEMMA ActivationMeans ==
  ASSUME NEW s \in Inputs, NEW n \in Node, NEW op \in Matching \cup {"fail"},
         NEW p \in 0..Len(s), NEW ctx
  PROVE  LET f == Activation(n, op, p, ctx)
         IN FrameMeans(s, f, Reads(f.node, s, f.pos))
<1> DEFINE f == Activation(n, op, p, ctx)
<1>1. /\ f.node = n /\ f.op = op /\ f.pos = p /\ f.cur = p /\ f.out = <<>>
      /\ f.items = 0 /\ f.i \in {0, 1} /\ (Kind(n) # "alt" => f.i = 1)
  BY DEF Activation, Dispatches
<1> HIDE DEF f
<1>2. op # "miss"
  BY DEF Matching
<1>3. ASSUME Kind(n) = "seq"
      PROVE  Continues(f, Rest(n, 1, s, p), Rest(n, f.i, s, p))
  <2>1. 1 \in 1 .. Len(Kids(n)) + 1 /\ f.i = 1
    BY <1>1, <1>3, NodeFacts
  <2>2. Rest(n, 1, s, p) \in Found
    BY <1>3, <2>1, MeaningAssumption
  <2> QED
    BY <1>1, <2>1, <2>2, AfterNothing DEF Continues
<1>4. Continues(f, Reads(n, s, p), Reads(n, s, p))
  <2>1. Reads(n, s, p) \in Found
    BY MeaningAssumption
  <2> QED
    BY <1>1, <2>1, AfterNothing DEF Continues
<1>5. \A j \in 1 .. f.i - 1 : ~Reads(Kids(n)[j], s, p).ok
  BY <1>1
<1> QED
  BY <1>1, <1>2, <1>3, <1>4, <1>5 DEF FrameMeans, f

\* An activation calls another, with its own history set aside or not.
LEMMA PushMeans ==
  ASSUME IInv, ReadsInv, phase = "call", HasCall(Top), phase' = "call",
         NEW f \in FrameSet, FrameMeans(input, f, Reads(f.node, input, f.pos)),
         stack' = Append([stack EXCEPT ![Len(stack)] = f], Started(Top)),
         UNCHANGED <<input, root, ret, outcomes>>
  PROVE  ReadsInv'
<1> DEFINE s == [stack EXCEPT ![Len(stack)] = f]
           g == Started(Top)
           Means(x) == FrameMeans(input, x, Reads(x.node, input, x.pos))
<1>1. stack \in Seq(FrameSet) /\ stack # <<>>
  BY DEF IInv, TypeOK, PhaseOK
<1>2. /\ Len(stack) \in Nat \ {0}
      /\ s \in Seq(FrameSet)
      /\ Len(s) = Len(stack)
      /\ \A j \in 1 .. Len(stack) - 1 : s[j] = stack[j]
      /\ s[Len(stack)] = f
  BY <1>1, FrontProperties, ReplaceLast
<1>3. g \in FrameSet /\ Means(g)
  <2>1. g \in FrameSet
    BY <1>1, CalleeOK
  <2>2. Callee(Top) \in Node /\ KidOp(Top) \in Matching \cup {"fail"}
    BY <1>1, TopMeans, CalleeFacts DEF FrameSet
  <2>3. input \in Inputs /\ Top.cur \in 0..Len(input)
    BY <1>1, TopMeans
  <2>4. g = Activation(Callee(Top), KidOp(Top), Top.cur, Top.ctx)
    BY DEF Started
  <2> HIDE DEF g
  <2> QED
    BY <2>1, <2>2, <2>3, <2>4, ActivationMeans
<1> HIDE DEF s, g
<1>4. stack' = Append(s, g)
  BY DEF s, g
<1>5. /\ Len(stack') = Len(stack) + 1
      /\ \A j \in 1 .. Len(s) : stack'[j] = s[j]
      /\ stack'[Len(s) + 1] = g
  BY <1>2, <1>3, <1>4, AppendProperties
<1>6. ASSUME NEW k \in 1..Len(stack') PROVE Means(stack'[k])
  <2>1. k \in 1 .. Len(stack) - 1 \/ k = Len(stack) \/ k = Len(stack) + 1
    BY <1>2, <1>5
  <2>2. CASE k \in 1 .. Len(stack) - 1
    <3>1. stack'[k] = stack[k] /\ k \in 1..Len(stack)
      BY <1>2, <1>5, <2>2
    <3> QED
      BY <3>1 DEF ReadsInv
  <2>3. CASE k = Len(stack)
    BY <1>2, <1>5, <2>3
  <2>4. CASE k = Len(stack) + 1
    BY <1>2, <1>3, <1>5, <2>4
  <2> QED
    BY <2>1, <2>2, <2>3, <2>4
<1>7. AnsweredAsMeant'
  BY DEF ReadsInv, AnsweredAsMeant
<1> QED
  BY <1>6, <1>7 DEF ReadsInv

LEMMA BeginMeans ==
  ASSUME IInv, ReadsInv, Begin
  PROVE  ReadsInv'
<1> DEFINE g == Activation(root, EntryOp(Entry), 0, <<>>)
<1>1. root \in Node /\ input \in Inputs /\ 0 \in 0..Len(input)
  <2>1. root \in Node /\ input \in Inputs /\ input \in Text
    BY ParserAssumption DEF IInv, TypeOK
  <2> QED
    BY <2>1, LenProperties DEF Text
<1>2. EntryOp(Entry) \in Matching
  BY DEF EntryOp, Matching
<1>3. FrameMeans(input, g, Reads(g.node, input, g.pos))
  BY <1>1, <1>2, ActivationMeans
<1> HIDE DEF g
<1>4. stack' = <<g>> /\ Len(<<g>>) = 1 /\ <<g>>[1] = g
  BY DEF Begin, g
<1>5. \A k \in 1..Len(stack') : stack'[k] = g
  BY <1>4
<1>6. AnsweredAsMeant'
  BY DEF ReadsInv, AnsweredAsMeant, Begin
<1> QED
  BY <1>3, <1>5, <1>6 DEF ReadsInv, Begin

LEMMA CallMeans ==
  ASSUME IInv, ReadsInv, Call
  PROVE  ReadsInv'
<1>1. stack # <<>> /\ HasCall(Top)
  BY DEF IInv, PhaseOK, Call
<1>2. /\ Top \in FrameSet
      /\ FrameMeans(input, Top, Reads(Top.node, input, Top.pos))
  BY <1>1, TopMeans
<1>3. [stack EXCEPT ![Len(stack)] = Top] = stack
  BY <1>1, FrontProperties DEF Top, Last, IInv, TypeOK
<1>4. stack' = Append([stack EXCEPT ![Len(stack)] = Top], Started(Top))
  BY <1>3 DEF Call
<1> QED
  BY <1>1, <1>2, <1>4, PushMeans DEF Call

LEMMA ProbeMeans ==
  ASSUME IInv, ReadsInv, Probe
  PROVE  ReadsInv'
<1> DEFINE f == [Top EXCEPT !.saved = history]
<1>1. stack # <<>> /\ HasCall(Top) /\ Kind(Top.node) = "not"
  BY DEF IInv, PhaseOK, Probe
<1>2. /\ Top \in FrameSet /\ history \in HistorySet
      /\ FrameMeans(input, Top, Reads(Top.node, input, Top.pos))
  BY <1>1, TopMeans DEF IInv, TypeOK
<1>3. /\ f \in FrameSet /\ f.pos = Top.pos /\ f.node = Top.node
      /\ f.op = Top.op
  BY <1>2 DEF FrameSet
<1>4. stack' = Append([stack EXCEPT ![Len(stack)] = f], Started(Top))
  <2>1. stack \in Seq(FrameSet) /\ Len(stack) \in Nat \ {0}
        /\ Top = stack[Len(stack)]
    BY <1>1, FrontProperties DEF IInv, TypeOK, Top
  <2>2. [stack EXCEPT ![Len(stack)].saved = history]
          = [stack EXCEPT ![Len(stack)] = f]
    BY <2>1
  <2> QED
    BY <2>2 DEF Probe
<1> HIDE DEF f
<1>5. FrameMeans(input, f, Reads(f.node, input, f.pos))
  BY <1>1, <1>2, <1>3 DEF FrameMeans
<1> QED
  BY <1>1, <1>2, <1>3, <1>4, <1>5, PushMeans DEF Probe

-----------------------------------------------------------------------------
(***************************************************************************)
(* Leaves.                                                                 *)
(***************************************************************************)

\* A match of what the table reads is the answer it promises.
LEMMA MatchMeans ==
  ASSUME NEW f, NEW end, NEW print, NEW items, NEW m,
         m = Read(end, m.print), f.op = "parse" => m.print = print,
         f.op = "parse" /\ Kind(f.node) = "vec" => (items = 0 <=> end = f.pos)
  PROVE  AnswerMeans(f.node, f.op, f.pos, Match(f, end, print, items), m)
<1>1. m.ok = TRUE /\ m.end = end
  BY DEF Read
<1>2. /\ Match(f, end, print, items).ok = TRUE
      /\ Match(f, end, print, items).end = end
      /\ Match(f, end, print, items).print = IF f.op = "parse" THEN print ELSE <<>>
      /\ f.op = "parse" => Match(f, end, print, items).items = items
  BY DEF Match
<1> QED
  BY <1>1, <1>2 DEF AnswerMeans

\* So is Nothing, where it reads nothing.
LEMMA NothingMeans ==
  ASSUME NEW n, NEW op, NEW p, NEW m, m = Unread, Kind(n) # "vec"
  PROVE  AnswerMeans(n, op, p, Nothing, m)
BY DEF AnswerMeans, Nothing, Unread

\* The parser compares a literal as the table does.
LEMMA AgreesSpells ==
  ASSUME input \in Text, NEW n \in Node, Kind(n) \in Literals, NEW p \in Nat
  PROVE  AgreesUpTo(n, p, Len(Def[n].text)) <=> Spells(n, input, p)
<1> DEFINE text == Def[n].text
<1>1. Len(text) \in Nat \ {0} /\ Len(input) \in Nat
  BY LiteralFirst, LenProperties DEF Text
<1>2. ASSUME AgreesUpTo(n, p, Len(text)) PROVE Spells(n, input, p)
  <2>1. \A j \in 1..Len(text) : Agrees(n, p, j)
    BY <1>2 DEF AgreesUpTo
  <2>2. Agrees(n, p, Len(text))
    BY <1>1, <2>1
  <2> QED
    BY <2>1, <2>2 DEF Agrees, Spells
<1>3. ASSUME Spells(n, input, p), NEW j \in 1..Len(text) PROVE Agrees(n, p, j)
  <2>1. p + j <= p + Len(text) /\ p + Len(text) <= Len(input)
    BY <1>1, <1>3 DEF Spells
  <2>2. p + j <= Len(input)
    BY <1>1, <2>1
  <2>3. IF Kind(n) = "litCI" THEN Lower(input[p + j]) = Lower(text[j])
        ELSE input[p + j] = text[j]
    BY <1>3 DEF Spells
  <2> QED
    BY <2>2, <2>3 DEF Agrees
<1> QED
  BY <1>2, <1>3 DEF AgreesUpTo

LEMMA LiteralMatchMeans ==
  ASSUME IInv, ReadsInv, LiteralMatch
  PROVE  ReadsInv'
<1> DEFINE n   == Top.node
           end == Top.pos + Len(Def[n].text)
           print == IF Kind(n) = "lit" THEN Def[n].text ELSE Slice(input, Top.pos, end)
           m   == Reads(n, input, Top.pos)
<1>1. /\ phase # "idle" /\ stack # <<>> /\ Kind(n) \in Literals
      /\ Top.op \in Matching
  BY GoingFacts DEF LiteralMatch
<1>2. /\ n \in Node /\ input \in Inputs /\ input \in Text /\ Top.pos \in Nat
      /\ Top.pos \in 0..Len(input)
  BY <1>1, TopMeans
<1>3. Spells(n, input, Top.pos)
  BY <1>1, <1>2, AgreesSpells DEF LiteralMatch
<1>4. m = Read(end, print)
  BY <1>1, <1>2, <1>3, LeafReads
<1>5. LiteralPrint(n, Top.pos, end) = print
  BY DEF LiteralPrint
<1>6. Return(Match(Top, end, LiteralPrint(n, Top.pos, end), 0))
  BY DEF LiteralMatch
<1> HIDE DEF print, end, m
<1>7. m.print = print
  BY <1>4 DEF Read
<1>8. Kind(n) # "vec" /\ Top.op # "miss"
  BY <1>1 DEF Literals, Matching
<1>9. AnswerMeans(n, Top.op, Top.pos, Match(Top, end, print, 0), m)
  BY <1>4, <1>7, <1>8, MatchMeans
<1> QED
  BY <1>1, <1>5, <1>6, <1>8, <1>9, ReturnMeans DEF m

LEMMA LiteralMismatchMeans ==
  ASSUME IInv, ReadsInv, LiteralMismatch
  PROVE  ReadsInv'
<1> DEFINE n    == Top.node
           text == Def[n].text
<1>1. /\ phase # "idle" /\ stack # <<>> /\ Kind(n) \in Literals
      /\ Top.op \in Matching
  BY GoingFacts DEF LiteralMismatch
<1>2. /\ n \in Node /\ input \in Inputs /\ input \in Text /\ Top.pos \in Nat
      /\ Top.pos \in 0..Len(input)
  BY <1>1, TopMeans
<1>3. PICK l \in 0..Len(text) : ~AgreesUpTo(n, Top.pos, l)
  BY DEF LiteralMismatch
<1>4. Len(text) \in Nat
  BY <1>1, <1>2, LiteralFirst
<1>5. ~AgreesUpTo(n, Top.pos, Len(text))
  BY <1>3, <1>4 DEF AgreesUpTo
<1>6. Reads(n, input, Top.pos) = Unread
  BY <1>1, <1>2, <1>5, AgreesSpells, LeafReads
<1>7. Return(Nothing) /\ Kind(n) # "vec"
  BY <1>1 DEF LiteralMismatch, Literals
<1> QED
  BY <1>1, <1>6, <1>7, NothingMeans, ReturnMeans DEF Matching

\* A character ends in one place.
LEMMA CharEndsOnce ==
  ASSUME NEW n, NEW s \in Text, NEW p \in Nat,
         NEW e \in CharEnds(n, s, p), NEW f \in CharEnds(n, s, p)
  PROVE  e = f
<1>1. e \in p + 1 .. Len(s) /\ f \in p + 1 .. Len(s) /\ IsChar(s, p, e) /\ IsChar(s, p, f)
  BY DEF CharEnds
<1>2. Len(s) \in Nat
  BY LenProperties DEF Text
<1>3. ~(e < f) /\ ~(f < e)
  BY <1>1, <1>2 DEF IsChar
<1> QED
  BY <1>1, <1>2, <1>3

LEMMA CharMatchMeans ==
  ASSUME IInv, ReadsInv, CharMatch
  PROVE  ReadsInv'
<1> DEFINE n == Top.node
           m == Reads(n, input, Top.pos)
<1>1. /\ phase # "idle" /\ stack # <<>> /\ Kind(n) = "class"
      /\ Top.op \in Matching
  BY GoingFacts DEF CharMatch
<1>2. /\ n \in Node /\ input \in Inputs /\ input \in Text /\ Top.pos \in Nat
      /\ Top.pos \in 0..Len(input)
  BY <1>1, TopMeans
<1>3. PICK end \in Top.pos + 1 .. Len(input) :
        /\ CharHere(end)
        /\ Slice(input, Top.pos, end) \in Def[n].chars
        /\ Return(Match(Top, end, Slice(input, Top.pos, end), 0))
  BY DEF CharMatch
<1>4. end \in CharEnds(n, input, Top.pos)
  BY <1>3 DEF CharHere, CharEnds
<1>5. (CHOOSE e \in CharEnds(n, input, Top.pos) : TRUE) = end
  BY <1>2, <1>4, CharEndsOnce
<1>6. m = Read(end, Slice(input, Top.pos, end))
  BY <1>1, <1>2, <1>4, <1>5, LeafReads
<1> HIDE DEF m
<1>7. m.print = Slice(input, Top.pos, end)
  BY <1>6 DEF Read
<1>8. AnswerMeans(n, Top.op, Top.pos,
                  Match(Top, end, Slice(input, Top.pos, end), 0), m)
  BY <1>1, <1>6, <1>7, MatchMeans
<1> QED
  BY <1>1, <1>3, <1>8, ReturnMeans DEF m, Matching

LEMMA CharMismatchMeans ==
  ASSUME IInv, ReadsInv, CharMismatch
  PROVE  ReadsInv'
<1>1. phase # "idle" /\ stack # <<>> /\ Kind(Top.node) = "class"
      /\ Top.op \in Matching
  BY GoingFacts DEF CharMismatch
<1>2. Top.node \in Node /\ input \in Inputs /\ Top.pos \in 0..Len(input)
  BY <1>1, TopMeans
<1>3. CharEnds(Top.node, input, Top.pos) = {}
  BY DEF CharMismatch, CharHere, CharEnds
<1>4. Reads(Top.node, input, Top.pos) = Unread
  BY <1>1, <1>2, <1>3, LeafReads
<1>5. Return(Nothing) /\ Kind(Top.node) # "vec"
  BY <1>1 DEF CharMismatch
<1> QED
  BY <1>1, <1>4, <1>5, NothingMeans, ReturnMeans DEF Matching

LEMMA UnitMatchMeans ==
  ASSUME IInv, ReadsInv, UnitMatch
  PROVE  ReadsInv'
<1> DEFINE m == Reads(Top.node, input, Top.pos)
<1>1. phase # "idle" /\ stack # <<>> /\ Kind(Top.node) = "unit"
      /\ Top.op \in Matching
  BY GoingFacts DEF UnitMatch
<1>2. Top.node \in Node /\ input \in Inputs /\ Top.pos \in 0..Len(input)
  BY <1>1, TopMeans
<1>3. m = Read(Top.pos, <<>>)
  BY <1>1, <1>2, LeafReads
<1>4. Return(Match(Top, Top.pos, <<>>, 0))
  BY DEF UnitMatch
<1> HIDE DEF m
<1>5. m.print = <<>>
  BY <1>3 DEF Read
<1>6. AnswerMeans(Top.node, Top.op, Top.pos, Match(Top, Top.pos, <<>>, 0), m)
  BY <1>1, <1>3, <1>5, MatchMeans
<1> QED
  BY <1>1, <1>4, <1>6, ReturnMeans DEF m, Matching

\* What fail_at answers is not the table's business, ...
LEMMA FailingMeans ==
  ASSUME IInv, ReadsInv, phase # "idle", stack # <<>>, Top.op \in Failing,
         NEW r, Return(r), Top.op = "miss" => r = Nothing
  PROVE  ReadsInv'
<1>1. AnswerMeans(Top.node, Top.op, Top.pos, r, Reads(Top.node, input, Top.pos))
  BY DEF AnswerMeans, Matching, Failing
<1> QED
  BY <1>1, ReturnMeans

LEMMA FailLeafMeans ==
  ASSUME IInv, ReadsInv, FailLeaf
  PROVE  ReadsInv'
<1>1. /\ phase # "idle" /\ stack # <<>> /\ Top.op \in Failing
      /\ Kind(Top.node) \in Literals \cup {"class"}
  BY GoingFacts DEF FailLeaf
<1>2. Top.op # "miss"
  BY <1>1, TopMeans DEF Indexed, Literals
<1> QED
  BY <1>1, <1>2, FailingMeans DEF FailLeaf

LEMMA FailNothingMeans ==
  ASSUME IInv, ReadsInv, FailNothing
  PROVE  ReadsInv'
<1>1. /\ phase # "idle" /\ stack # <<>> /\ Top.op \in Failing
      /\ Kind(Top.node) \in {"unit", "not"}
  BY GoingFacts DEF FailNothing
<1>2. Top.op # "miss"
  BY <1>1, TopMeans DEF Indexed
<1> QED
  BY <1>1, <1>2, FailingMeans DEF FailNothing

-----------------------------------------------------------------------------
(***************************************************************************)
(* Repetition.                                                             *)
(***************************************************************************)

\* What a callee that matches answers is what the table says of it.
LEMMA KidMeans ==
  ASSUME IInv, ReadsInv, NEW kinds, Answered(kinds, Matching)
  PROVE  LET kid == Reads(Callee(Top), input, Top.cur)
         IN /\ phase # "idle" /\ stack # <<>>
            /\ Kind(Top.node) \in kinds
            /\ Top.op \in Matching /\ Top.op # "miss"
            /\ KidIndex(Top) \in 1..Len(Kids(Top.node))
            /\ Callee(Top) \in Node /\ KidOp(Top) \in Matching
            /\ kid \in Found
            /\ ret.ok = kid.ok /\ ret.end = kid.end
            /\ KidOp(Top) = "parse" => ret.print = kid.print
            /\ KidOp(Top) = "scan" => ret.print = <<>>
            /\ KidOp(Top) = "parse" /\ Kind(Callee(Top)) = "vec" =>
                 (ret.items = 0 <=> ret.end = Top.cur)
            /\ ret.end \in Nat /\ ret.print \in Text
            /\ ret.ok => ret.end \in Top.cur .. Len(input)
<1> DEFINE kid == Reads(Callee(Top), input, Top.cur)
<1>1. /\ phase # "idle" /\ stack # <<>> /\ HasCall(Top)
      /\ Kind(Top.node) \in kinds /\ Top.op \in Matching
      /\ phase = "return"
  BY AnsweredFacts DEF Answered
<1>2. /\ Top \in FrameSet /\ input \in Inputs /\ Top.cur \in 0..Len(input)
      /\ Top.cur \in Nat /\ Len(input) \in Nat
  BY <1>1, TopMeans
<1>3. /\ Callee(Top) \in Node /\ KidOp(Top) \in Matching
      /\ KidIndex(Top) \in 1..Len(Kids(Top.node))
  BY <1>1, <1>2, CalleeFacts
<1>4. kid \in Found
  BY <1>2, <1>3, MeaningAssumption
<1>5. AnswerMeans(Callee(Top), KidOp(Top), Top.cur, ret, kid)
  BY <1>1 DEF ReadsInv, AskedNode, AskedOp, AskedPos
<1>6. ret \in Result
  BY DEF IInv, TypeOK
<1>7. ret.end \in Nat /\ ret.print \in Text
  BY <1>6 DEF Result
<1>8. ReadsWell(Callee(Top), input, Top.cur)
  BY <1>2, <1>3, AllReadWell
<1> HIDE DEF kid
<1>9. ret.ok = kid.ok /\ ret.end = kid.end
  BY <1>3, <1>5 DEF AnswerMeans
<1>10. ret.ok => ret.end \in Top.cur .. Len(input)
  BY <1>2, <1>7, <1>8, <1>9 DEF ReadsWell, MayMatch, kid
<1>11. /\ KidOp(Top) = "parse" => ret.print = kid.print
       /\ KidOp(Top) = "scan" => ret.print = <<>>
       /\ KidOp(Top) = "parse" /\ Kind(Callee(Top)) = "vec" =>
            (ret.items = 0 <=> ret.end = Top.cur)
  BY <1>3, <1>5 DEF AnswerMeans, Matching
<1>12. Top.op # "miss"
  BY <1>1 DEF Matching
<1> QED
  BY <1>1, <1>3, <1>4, <1>7, <1>9, <1>10, <1>11, <1>12 DEF kid

\* Handing on a callee's answer.
LEMMA ForwardMeans ==
  ASSUME NEW n, NEW op, NEW p, NEW r, NEW m, op \in Matching,
         r.ok = m.ok, r.end = m.end, op = "parse" => r.print = m.print,
         op = "scan" => r.print = <<>>, Kind(n) # "vec"
  PROVE  AnswerMeans(n, op, p, r, m)
BY DEF AnswerMeans, Matching

\* All but sequences and repetitions call their kid where they started.
LEMMA KidInPlace ==
  ASSUME IInv, ReadsInv, stack # <<>>,
         Kind(Top.node) \notin {"seq", "vec", "alt", "vec1"}
  PROVE  Top.cur = Top.pos /\ Callee(Top) = Kids(Top.node)[1]
<1>1. Located(input, Top) /\ Indexed(Top)
  BY TopMeans
<1>2. Top.cur = Top.pos /\ Top.i = 1
  BY <1>1 DEF Located, Indexed
<1> QED
  BY <1>2 DEF Callee, KidIndex

LEMMA OptionReturnMeans ==
  ASSUME IInv, ReadsInv, OptionReturn
  PROVE  ReadsInv'
<1> DEFINE n == Top.node
           kid == Reads(Callee(Top), input, Top.cur)
           m == Reads(n, input, Top.pos)
<1>1. /\ phase # "idle" /\ stack # <<>> /\ Kind(n) = "opt"
      /\ Top.op \in Matching /\ Top.op # "miss"
      /\ ret.ok = kid.ok /\ ret.end = kid.end
      /\ KidOp(Top) = "parse" => ret.print = kid.print
      /\ KidOp(Top) = "scan" => ret.print = <<>>
  BY KidMeans DEF OptionReturn
<1>2. KidOp(Top) = Top.op
  BY <1>1 DEF KidOp, NeedsValue, Matching, Failing
<1>3. n \in Node /\ input \in Inputs /\ Top.pos \in 0..Len(input)
  BY <1>1, TopMeans
<1>4. Top.cur = Top.pos /\ Callee(Top) = Kids(n)[1]
  BY <1>1, KidInPlace
<1>5. m = IF kid.ok THEN kid ELSE Read(Top.pos, <<>>)
  BY <1>1, <1>3, <1>4, RepetitionReads
<1> HIDE DEF kid, m
<1>6. CASE ret.ok
  <2>1. m = kid
    BY <1>1, <1>5, <1>6
  <2>2. AnswerMeans(n, Top.op, Top.pos, ret, m)
    BY <1>1, <1>2, <2>1, ForwardMeans
  <2>3. Return(ret)
    BY <1>6 DEF OptionReturn
  <2> QED
    BY <1>1, <2>2, <2>3, ReturnMeans DEF m
<1>7. CASE ~ret.ok
  <2>1. m = Read(Top.pos, <<>>)
    BY <1>1, <1>5, <1>7
  <2>2. m.print = <<>>
    BY <2>1 DEF Read
  <2>3. AnswerMeans(n, Top.op, Top.pos, Match(Top, Top.pos, <<>>, 0), m)
    BY <1>1, <2>1, <2>2, MatchMeans
  <2>4. Return(Match(Top, Top.pos, <<>>, 0))
    BY <1>7 DEF OptionReturn
  <2> QED
    BY <1>1, <2>3, <2>4, ReturnMeans DEF m
<1> QED
  BY <1>6, <1>7

\* Printing something first changes neither verdict nor end.
LEMMA AfterKeeps ==
  ASSUME NEW print, NEW rest \in Found
  PROVE  After(print, rest).ok = rest.ok /\ After(print, rest).end = rest.end
<1> DEFINE next == After(print, rest)
<1>1. CASE rest.ok
  <2>1. rest.ok = TRUE
    BY <1>1, FoundFacts
  <2>2. next = Read(rest.end, print \o rest.print)
    BY <1>1 DEF After
  <2> HIDE DEF next
  <2>3. next.ok = TRUE /\ next.end = rest.end
    BY <2>2 DEF Read
  <2> QED
    BY <2>1, <2>3 DEF next
<1>2. CASE ~rest.ok
  <2>1. rest.ok = FALSE /\ rest.end = 0
    BY <1>2, FoundFacts
  <2>2. next = Unread
    BY <1>2 DEF After
  <2> HIDE DEF next
  <2>3. next.ok = FALSE /\ next.end = 0
    BY <2>2 DEF Unread
  <2> QED
    BY <2>1, <2>3 DEF next
<1> QED
  BY <1>1, <1>2

\* Another piece was read: what was read before it, and now it, is printed.
LEMMA ContinuesOn ==
  ASSUME NEW f, NEW g, NEW whole, NEW r \in Found, NEW rest \in Found,
         Continues(f, whole, After(r.print, rest)),
         g.op = f.op, f.out \in Text, f.op = "parse" => g.out = f.out \o r.print
  PROVE  Continues(g, whole, rest)
<1> DEFINE next == After(r.print, rest)
<1>1. next.ok = rest.ok /\ next.end = rest.end
  BY FoundFacts, AfterKeeps
<1>2. After(f.out, next) = After(f.out \o r.print, rest)
  BY FoundFacts, AfterAfter
<1> HIDE DEF next
<1>3. whole.ok = next.ok /\ whole.end = next.end
      /\ (f.op = "parse" => whole = After(f.out, next))
  BY DEF Continues, next
<1> QED
  BY <1>1, <1>2, <1>3 DEF Continues

\* Nothing is left to read.
LEMMA ContinuesToEnd ==
  ASSUME NEW f, NEW whole \in Found, NEW end, f.out \in Text,
         Continues(f, whole, Read(end, <<>>))
  PROVE  /\ whole.ok = TRUE /\ whole.end = end
         /\ whole = Read(end, whole.print)
         /\ f.op = "parse" => whole.print = f.out
<1>1. whole.ok = TRUE /\ whole.end = end
  BY DEF Continues, Read
<1>2. whole = Read(end, whole.print)
  BY <1>1, FoundRecord
<1>3. ASSUME f.op = "parse" PROVE whole.print = f.out
  <2>1. whole = After(f.out, Read(end, <<>>))
    BY <1>3 DEF Continues
  <2>2. f.out \o <<>> = f.out
    BY ConcatEmptySeq DEF Text
  <2> QED
    BY <2>1, <2>2 DEF After, Read
<1> QED
  BY <1>1, <1>2, <1>3

LEMMA VecItemMeans ==
  ASSUME IInv, ReadsInv, VecItem
  PROVE  ReadsInv'
<1> DEFINE n == Top.node
           kid == Reads(Callee(Top), input, Top.cur)
           whole == Reads(n, input, Top.pos)
           next == Reads(n, input, ret.end)
           out == Top.out \o ret.print
           items == 1
           f == [Top EXCEPT !.cur = ret.end, !.out = out, !.items = items]
<1>1. /\ phase # "idle" /\ stack # <<>> /\ Kind(n) = "vec"
      /\ Top.op \in Matching /\ Top.op # "miss" /\ kid \in Found
      /\ ret.ok = kid.ok /\ ret.end = kid.end
      /\ KidOp(Top) = "parse" => ret.print = kid.print
      /\ ret.end \in Nat /\ ret.print \in Text
      /\ ret.ok => ret.end \in Top.cur .. Len(input)
  BY KidMeans DEF VecItem
<1>2. /\ Top \in FrameSet /\ n \in Node /\ input \in Inputs /\ Len(input) \in Nat
      /\ Top.pos \in Nat /\ Top.cur \in Nat /\ Top.cur \in 0..Len(input)
      /\ Top.out \in Text /\ Top.pos <= Top.cur
      /\ FrameMeans(input, Top, whole) /\ Indexed(Top)
  BY <1>1, TopMeans DEF Located
<1>3. Callee(Top) = Kids(n)[1]
  BY <1>1, <1>2 DEF Indexed, Callee, KidIndex
<1>4. ret.ok /\ ret.end # Top.cur
  BY DEF VecItem, OneMore
<1>5. Reads(n, input, Top.cur)
        = IF kid.ok /\ kid.end # Top.cur
          THEN After(kid.print, Reads(n, input, kid.end)) ELSE Read(Top.cur, <<>>)
  BY <1>1, <1>2, <1>3, RepetitionReads
<1>6. ret.end \in 0..Len(input) /\ ret.end # Top.pos
  BY <1>1, <1>2, <1>4
<1>7. next \in Found
  BY <1>2, <1>6, MeaningAssumption
<1>8. Continues(Top, whole, Reads(n, input, Top.cur))
  BY <1>1, <1>2 DEF FrameMeans
<1>9. Top.op = "parse" => KidOp(Top) = "parse"
  BY <1>1 DEF KidOp, Failing
<1>10. out \in Text /\ items \in {0, 1} /\ items # 0
  BY <1>1, <1>2, ConcatProperties DEF Text
<1>11. Continue(f)
  BY DEF VecItem
<1> HIDE DEF kid, whole, items, out
<1>12. /\ f \in FrameSet /\ f.node = n /\ f.op = Top.op /\ f.pos = Top.pos
       /\ f.cur = ret.end /\ f.i = Top.i /\ f.out = out /\ f.items = items
  BY <1>1, <1>2, <1>10 DEF FrameSet
<1> HIDE DEF f
<1>13. Reads(n, input, Top.cur) = After(kid.print, next)
  BY <1>1, <1>4, <1>5
<1> HIDE DEF next
<1>14. Continues(f, whole, next)
  BY <1>1, <1>2, <1>7, <1>8, <1>9, <1>12, <1>13, ContinuesOn DEF out
<1>15. f.items # 0 /\ f.cur # f.pos
  BY <1>6, <1>10, <1>12
<1>16. FrameMeans(input, f, Reads(f.node, input, f.pos))
  BY <1>1, <1>12, <1>14, <1>15 DEF FrameMeans, whole, next
<1> QED
  BY <1>1, <1>11, <1>12, <1>16, ContinueMeans

LEMMA VecEndMeans ==
  ASSUME IInv, ReadsInv, VecEnd
  PROVE  ReadsInv'
<1> DEFINE n == Top.node
           kid == Reads(Callee(Top), input, Top.cur)
           whole == Reads(n, input, Top.pos)
<1>1. /\ phase # "idle" /\ stack # <<>> /\ Kind(n) = "vec"
      /\ Top.op \in Matching /\ Top.op # "miss"
      /\ ret.ok = kid.ok /\ ret.end = kid.end
  BY KidMeans DEF VecEnd
<1>2. /\ n \in Node /\ input \in Inputs /\ Top.pos \in 0..Len(input)
      /\ Top.cur \in 0..Len(input) /\ Top.out \in Text
      /\ FrameMeans(input, Top, whole) /\ Indexed(Top)
  BY <1>1, TopMeans
<1>3. Callee(Top) = Kids(n)[1]
  BY <1>1, <1>2 DEF Indexed, Callee, KidIndex
<1>4. ~(ret.ok /\ ret.end # Top.cur)
  BY DEF VecEnd, OneMore
<1>5. Reads(n, input, Top.cur)
        = IF kid.ok /\ kid.end # Top.cur
          THEN After(kid.print, Reads(n, input, kid.end)) ELSE Read(Top.cur, <<>>)
  BY <1>1, <1>2, <1>3, RepetitionReads
<1>6. /\ Continues(Top, whole, Reads(n, input, Top.cur))
      /\ Top.items = 0 <=> Top.cur = Top.pos
  BY <1>1, <1>2 DEF FrameMeans
<1>7. whole \in Found
  BY <1>2, MeaningAssumption
<1> HIDE DEF kid, whole
<1>8. Continues(Top, whole, Read(Top.cur, <<>>))
  BY <1>1, <1>4, <1>5, <1>6
<1>9. /\ whole = Read(Top.cur, whole.print)
      /\ Top.op = "parse" => whole.print = Top.out
  BY <1>2, <1>7, <1>8, ContinuesToEnd
<1>10. AnswerMeans(n, Top.op, Top.pos, Match(Top, Top.cur, Top.out, Top.items), whole)
  BY <1>6, <1>9, MatchMeans
<1>11. Return(Match(Top, Top.cur, Top.out, Top.items))
  BY DEF VecEnd
<1> QED
  BY <1>1, <1>10, <1>11, ReturnMeans DEF whole

LEMMA Vec1ReturnMeans ==
  ASSUME IInv, ReadsInv, Vec1Return
  PROVE  ReadsInv'
<1> DEFINE n == Top.node
           items == Reads(Callee(Top), input, Top.cur)
           m == Reads(n, input, Top.pos)
<1>0. Answered({"vec1"}, Matching)
  BY DEF Vec1Return
<1>1. /\ phase # "idle" /\ stack # <<>> /\ Kind(n) = "vec1"
      /\ Top.op \in Matching /\ Top.op # "miss" /\ items \in Found
      /\ ret.ok = items.ok /\ ret.end = items.end
      /\ KidOp(Top) = "parse" => ret.print = items.print
      /\ KidOp(Top) = "parse" /\ Kind(Callee(Top)) = "vec" =>
           (ret.items = 0 <=> ret.end = Top.cur)
  <2> HIDE DEF items, n
  <2>1. Kind(Top.node) \in {"vec1"}
    BY <1>0, KidMeans
  <2> QED
    BY <1>0, <2>1, KidMeans DEF items, n
<1>2. KidOp(Top) = Top.op
  BY <1>1 DEF KidOp, NeedsValue, Matching, Failing
<1>3. n \in Node /\ input \in Inputs /\ Top.pos \in 0..Len(input)
      /\ Located(input, Top)
  BY <1>1, TopMeans
<1>4. Top.cur = Top.pos /\ Callee(Top) = Kids(n)[2] /\ Kind(Callee(Top)) = "vec"
  <2>1. Top.cur = Top.pos
    BY <1>1, <1>3 DEF Located
  <2>2. Callee(Top) = Kids(n)[2]
    BY <1>1 DEF Callee, KidIndex
  <2>3. Kind(Kids(n)[2]) = "vec"
    BY <1>1, <1>3, NodeFacts DEF WellFormed
  <2> QED
    BY <2>1, <2>2, <2>3
<1>5. m = IF items.end = Top.pos THEN Unread ELSE items
  BY <1>1, <1>3, <1>4, RepetitionReads
<1>6. NoItem(Top, ret) <=> items.end = Top.pos
  BY <1>1, <1>2, <1>4 DEF NoItem, Matching
<1>7. ret.ok
  BY DEF Vec1Return
<1> HIDE DEF items, m
<1>8. CASE NoItem(Top, ret)
  <2>1. m = Unread
    BY <1>5, <1>6, <1>8
  <2>2. Return(Nothing)
    BY <1>8 DEF Vec1Return
  <2> QED
    BY <1>1, <2>1, <2>2, NothingMeans, ReturnMeans DEF m
<1>9. CASE ~NoItem(Top, ret)
  <2>1. m = items
    BY <1>5, <1>6, <1>9
  <2>2. m = Read(ret.end, m.print)
    BY <1>1, <1>7, <2>1, FoundRecord
  <2>3. AnswerMeans(n, Top.op, Top.pos, Match(Top, ret.end, ret.print, 0), m)
    BY <1>1, <1>2, <2>1, <2>2, MatchMeans
  <2>4. Return(Match(Top, ret.end, ret.print, 0))
    BY <1>9 DEF Vec1Return
  <2> QED
    BY <1>1, <2>3, <2>4, ReturnMeans DEF m
<1> QED
  BY <1>8, <1>9

-----------------------------------------------------------------------------
(***************************************************************************)
(* Sequences.                                                              *)
(***************************************************************************)

LEMMA SequenceMeans ==
  ASSUME IInv, ReadsInv, stack # <<>>, Kind(Top.node) = "seq",
         Top.op \in Matching
  PROVE  LET n == Top.node
             whole == Rest(n, 1, input, Top.pos)
             rest == Rest(n, Top.i, input, Top.cur)
         IN /\ Top.i \in 1 .. Len(Kids(n)) + 1 /\ Len(Kids(n)) \in Nat
            /\ whole \in Found /\ rest \in Found
            /\ Continues(Top, whole, rest)
            /\ Reads(n, input, Top.pos)
                 = Approved(n, input, Top.pos, whole, whole.print)
<1> DEFINE n == Top.node
<1>1. /\ n \in Node /\ input \in Inputs
      /\ Top.pos \in 0..Len(input) /\ Top.cur \in 0..Len(input)
      /\ Indexed(Top) /\ FrameMeans(input, Top, Reads(n, input, Top.pos))
  BY TopMeans
<1>2. Top.i \in 1 .. Len(Kids(n)) + 1 /\ Len(Kids(n)) \in Nat
  BY <1>1, NodeFacts DEF Indexed
<1>3. 1 \in 1 .. Len(Kids(n)) + 1
  BY <1>2
<1>4. /\ Rest(n, 1, input, Top.pos) \in Found
      /\ Rest(n, Top.i, input, Top.cur) \in Found
  BY <1>1, <1>2, <1>3, MeaningAssumption
<1>5. Continues(Top, Rest(n, 1, input, Top.pos), Rest(n, Top.i, input, Top.cur))
  BY <1>1 DEF FrameMeans
<1>6. Reads(n, input, Top.pos)
        = Approved(n, input, Top.pos, Rest(n, 1, input, Top.pos),
                   Rest(n, 1, input, Top.pos).print)
  BY <1>1, BranchReads
<1> QED
  BY <1>2, <1>4, <1>5, <1>6

LEMMA NextFieldMeans ==
  ASSUME IInv, ReadsInv, NextField
  PROVE  ReadsInv'
<1> DEFINE n == Top.node
           kid == Reads(Callee(Top), input, Top.cur)
           whole == Rest(n, 1, input, Top.pos)
           i == Top.i + 1
           rest == Rest(n, i, input, ret.end)
           out == Top.out \o ret.print
           f == [Top EXCEPT !.cur = ret.end, !.out = out, !.i = i]
<1>0. Answered({"seq"}, Matching) /\ ret.ok /\ Continue(f)
  BY DEF NextField
<1>1. /\ phase # "idle" /\ stack # <<>> /\ Kind(n) = "seq"
      /\ Top.op \in Matching /\ Top.op # "miss" /\ kid \in Found
      /\ KidIndex(Top) \in 1..Len(Kids(n))
      /\ ret.ok = kid.ok /\ ret.end = kid.end
      /\ KidOp(Top) = "parse" => ret.print = kid.print
      /\ ret.end \in Nat /\ ret.print \in Text
      /\ ret.ok => ret.end \in Top.cur .. Len(input)
  <2> HIDE DEF n, kid, f
  <2>1. Kind(Top.node) \in {"seq"}
    BY <1>0, KidMeans
  <2> QED
    BY <1>0, <2>1, KidMeans DEF n, kid
<1>2. /\ Top \in FrameSet /\ n \in Node /\ input \in Inputs /\ Len(input) \in Nat
      /\ Top.cur \in Nat /\ Top.cur \in 0..Len(input) /\ Top.out \in Text
  BY <1>1, TopMeans
<1>3. /\ Top.i \in 1 .. Len(Kids(n)) + 1 /\ Len(Kids(n)) \in Nat
      /\ whole \in Found /\ Continues(Top, whole, Rest(n, Top.i, input, Top.cur))
  BY <1>1, SequenceMeans
<1>4. KidIndex(Top) = Top.i /\ Callee(Top) = Kids(n)[Top.i]
  BY <1>1 DEF KidIndex, Callee
<1>5. Top.i \in Nat /\ ~(Top.i > Len(Kids(n))) /\ i \in 1 .. Len(Kids(n)) + 1
      /\ i \in Nat
  BY <1>1, <1>3, <1>4
<1>6. ret.end \in 0..Len(input)
  BY <1>0, <1>1, <1>2
<1>7. rest \in Found
  BY <1>1, <1>2, <1>5, <1>6, MeaningAssumption
<1>8. Rest(n, Top.i, input, Top.cur)
        = IF kid.ok THEN After(kid.print, Rest(n, i, input, kid.end)) ELSE Unread
  BY <1>1, <1>2, <1>3, <1>4, <1>5, RestReads
<1>9. Top.op = "parse" => KidOp(Top) = "parse"
  BY <1>1 DEF KidOp, Failing
<1>10. out \in Text
  BY <1>1, <1>2, ConcatProperties DEF Text
<1> HIDE DEF kid, whole, out, i
<1>11. /\ f \in FrameSet /\ f.node = n /\ f.op = Top.op /\ f.pos = Top.pos
       /\ f.cur = ret.end /\ f.i = i /\ f.out = out
  BY <1>1, <1>2, <1>5, <1>10 DEF FrameSet
<1> HIDE DEF f
<1>12. Rest(n, Top.i, input, Top.cur) = After(kid.print, rest)
  BY <1>0, <1>1, <1>8
<1> HIDE DEF rest
<1>13. Continues(f, whole, rest)
  BY <1>1, <1>2, <1>3, <1>7, <1>9, <1>11, <1>12, ContinuesOn DEF out
<1>14. FrameMeans(input, f, Reads(f.node, input, f.pos))
  BY <1>1, <1>11, <1>13 DEF FrameMeans, whole, rest
<1> QED
  BY <1>0, <1>1, <1>11, <1>14, ContinueMeans

LEMMA FieldFailedMeans ==
  ASSUME IInv, ReadsInv, FieldFailed
  PROVE  ReadsInv'
<1> DEFINE n == Top.node
           kid == Reads(Callee(Top), input, Top.cur)
           whole == Rest(n, 1, input, Top.pos)
           m == Reads(n, input, Top.pos)
<1>0. Answered({"seq"}, Matching) /\ ~ret.ok /\ Return(Nothing)
  BY DEF FieldFailed
<1>1. /\ phase # "idle" /\ stack # <<>> /\ Kind(n) = "seq"
      /\ Top.op \in Matching /\ KidIndex(Top) \in 1..Len(Kids(n))
      /\ ret.ok = kid.ok
  BY <1>0, KidMeans
<1>2. n \in Node /\ input \in Inputs /\ Top.cur \in 0..Len(input)
  BY <1>1, TopMeans
<1>3. /\ Top.i \in 1 .. Len(Kids(n)) + 1 /\ Len(Kids(n)) \in Nat
      /\ Continues(Top, whole, Rest(n, Top.i, input, Top.cur))
      /\ m = Approved(n, input, Top.pos, whole, whole.print)
  BY <1>1, SequenceMeans
<1>4. KidIndex(Top) = Top.i /\ Callee(Top) = Kids(n)[Top.i]
  BY <1>1 DEF KidIndex, Callee
<1>5. ~(Top.i > Len(Kids(n)))
  BY <1>1, <1>3, <1>4
<1>6. Rest(n, Top.i, input, Top.cur) = Unread
  BY <1>0, <1>1, <1>2, <1>3, <1>4, <1>5, RestReads
<1>7. whole.ok = FALSE
  <2>1. Rest(n, Top.i, input, Top.cur).ok = FALSE
    BY <1>6 DEF Unread
  <2> HIDE DEF whole
  <2> QED
    BY <1>3, <2>1 DEF Continues
<1>8. m = Unread
  BY <1>3, <1>7 DEF Approved
<1> QED
  BY <1>0, <1>1, <1>8, NothingMeans, ReturnMeans

\* All fields were read.
LEMMA FieldsMean ==
  ASSUME IInv, ReadsInv, Going({"seq"}, Matching), ~HasCall(Top)
  PROVE  LET n == Top.node
             whole == Rest(n, 1, input, Top.pos)
         IN /\ phase # "idle" /\ stack # <<>> /\ Kind(n) = "seq"
            /\ Top.op \in Matching
            /\ whole.ok = TRUE /\ whole.end = Top.cur
            /\ whole = Read(Top.cur, whole.print)
            /\ Top.op = "parse" => whole.print = Top.out
            /\ Reads(n, input, Top.pos)
                 = IF Invalid(n, Slice(input, Top.pos, Top.cur)) THEN Unread
                   ELSE whole
<1> DEFINE n == Top.node
           whole == Rest(n, 1, input, Top.pos)
           m == Reads(n, input, Top.pos)
<1>1. /\ phase # "idle" /\ stack # <<>> /\ Kind(n) = "seq"
      /\ Top.op \in Matching
  BY GoingFacts
<1>2. /\ n \in Node /\ input \in Inputs /\ Top.cur \in 0..Len(input)
      /\ Top.out \in Text
  BY <1>1, TopMeans
<1>3. /\ Top.i \in 1 .. Len(Kids(n)) + 1 /\ Len(Kids(n)) \in Nat
      /\ whole \in Found
      /\ Continues(Top, whole, Rest(n, Top.i, input, Top.cur))
      /\ m = Approved(n, input, Top.pos, whole, whole.print)
  BY <1>1, SequenceMeans
<1>4. Top.i > Len(Kids(n))
  <2>1. KidIndex(Top) = Top.i /\ Top.i \notin DOMAIN Kids(n)
    BY <1>1 DEF HasCall, KidIndex
  <2>2. DOMAIN Kids(n) = 1..Len(Kids(n))
    BY <1>2, NodeFacts
  <2> QED
    BY <1>3, <2>1, <2>2
<1>5. Rest(n, Top.i, input, Top.cur) = Read(Top.cur, <<>>)
  BY <1>1, <1>2, <1>3, <1>4, RestReads
<1> HIDE DEF whole
<1>6. /\ whole.ok = TRUE /\ whole.end = Top.cur
      /\ whole = Read(Top.cur, whole.print)
      /\ Top.op = "parse" => whole.print = Top.out
  BY <1>2, <1>3, <1>5, ContinuesToEnd
<1>7. Refuses(n, Slice(input, Top.pos, Top.cur))
        <=> Invalid(n, Slice(input, Top.pos, Top.cur))
  BY <1>1 DEF Refuses, Invalid
<1>8. m = IF Invalid(n, Slice(input, Top.pos, Top.cur)) THEN Unread ELSE whole
  BY <1>3, <1>6, <1>7 DEF Approved
<1> QED
  BY <1>1, <1>6, <1>8 DEF whole

LEMMA FieldsParsedMeans ==
  ASSUME IInv, ReadsInv, FieldsParsed
  PROVE  ReadsInv'
<1> DEFINE n == Top.node
           whole == Rest(n, 1, input, Top.pos)
           m == Reads(n, input, Top.pos)
<1>1. /\ phase # "idle" /\ stack # <<>> /\ Kind(n) = "seq" /\ Top.op \in Matching
      /\ whole = Read(Top.cur, whole.print)
      /\ Top.op = "parse" => whole.print = Top.out
      /\ m = whole
  BY FieldsMean DEF FieldsParsed
<1>2. Return(Match(Top, Top.cur, Top.out, 0)) /\ Top.op # "miss"
  BY <1>1 DEF FieldsParsed, Matching
<1> HIDE DEF whole
<1>3. AnswerMeans(n, Top.op, Top.pos, Match(Top, Top.cur, Top.out, 0), whole)
  BY <1>1, MatchMeans
<1> QED
  BY <1>1, <1>2, <1>3, ReturnMeans

LEMMA FieldsRejectedMeans ==
  ASSUME IInv, ReadsInv, FieldsRejected
  PROVE  ReadsInv'
<1>1. /\ phase # "idle" /\ stack # <<>> /\ Kind(Top.node) = "seq"
      /\ Reads(Top.node, input, Top.pos) = Unread
  BY FieldsMean DEF FieldsRejected
<1>2. Return(Nothing)
  BY DEF FieldsRejected
<1> QED
  BY <1>1, <1>2, NothingMeans, ReturnMeans

-----------------------------------------------------------------------------
(***************************************************************************)
(* Alternatives.                                                           *)
(***************************************************************************)

LEMMA NothingFits ==
  ASSUME NEW s \in Inputs, NEW n \in Node, NEW p \in 0..Len(s), Kind(n) = "alt",
         \A j \in 1..Len(Kids(n)) : ~Reads(Kids(n)[j], s, p).ok
  PROVE  Reads(n, s, p) = Unread
<1>1. Fitting(n, s, p) = {}
  BY DEF Fitting
<1> QED
  BY <1>1, BranchReads

LEMMA FirstFits ==
  ASSUME NEW s \in Inputs, NEW n \in Node, NEW p \in 0..Len(s), Kind(n) = "alt",
         NEW i \in 1..Len(Kids(n)), Reads(Kids(n)[i], s, p).ok,
         \A j \in 1 .. i - 1 : ~Reads(Kids(n)[j], s, p).ok
  PROVE  Reads(n, s, p) = Reads(Kids(n)[i], s, p)
<1> DEFINE fit == Fitting(n, s, p)
<1>1. i \in fit /\ fit \in SUBSET Nat /\ Len(Kids(n)) \in Nat
  BY NodeFacts DEF Fitting
<1>2. Min(fit) \in fit /\ Min(fit) <= i
  BY <1>1, MinFacts
<1>3. Min(fit) \in 1..Len(Kids(n)) /\ Reads(Kids(n)[Min(fit)], s, p).ok
  BY <1>2 DEF Fitting
<1>4. Reads(n, s, p) = Reads(Kids(n)[Min(fit)], s, p)
  BY <1>1, BranchReads
<1> HIDE DEF fit
<1>5. ~(Min(fit) \in 1 .. i - 1)
  BY <1>3
<1>6. Min(fit) = i
  BY <1>1, <1>2, <1>3, <1>5
<1> QED
  BY <1>4, <1>6

LEMMA AlternationMeans ==
  ASSUME IInv, ReadsInv, Answered({"alt"}, Matching)
  PROVE  LET n == Top.node
             kid == Reads(Kids(n)[Top.i], input, Top.pos)
         IN /\ phase # "idle" /\ stack # <<>> /\ Kind(n) = "alt" /\ n \in Node
            /\ Top.op \in Matching /\ Top.op # "miss" /\ Top \in FrameSet
            /\ input \in Inputs /\ Top.pos \in 0..Len(input)
            /\ Len(Kids(n)) \in Nat /\ Top.i \in 1..Len(Kids(n))
            /\ ret.ok = kid.ok /\ ret.end = kid.end
            /\ Top.op = "parse" => ret.print = kid.print
            /\ Top.op = "scan" => ret.print = <<>>
            /\ \A j \in 1 .. Top.i - 1 : ~Reads(Kids(n)[j], input, Top.pos).ok
<1> DEFINE n == Top.node
           kid == Reads(Callee(Top), input, Top.cur)
<1>1. /\ phase # "idle" /\ stack # <<>> /\ Kind(n) \in {"alt"}
      /\ Top.op \in Matching /\ Top.op # "miss"
      /\ KidIndex(Top) \in 1..Len(Kids(n))
      /\ ret.ok = kid.ok /\ ret.end = kid.end
      /\ KidOp(Top) = "parse" => ret.print = kid.print
      /\ KidOp(Top) = "scan" => ret.print = <<>>
  BY KidMeans
<1>2. KidOp(Top) = Top.op
  BY <1>1 DEF KidOp, NeedsValue, Matching, Failing
<1>3. /\ n \in Node /\ input \in Inputs /\ Top.pos \in 0..Len(input)
      /\ Top \in FrameSet /\ Located(input, Top)
      /\ FrameMeans(input, Top, Reads(n, input, Top.pos))
  BY <1>1, TopMeans
<1>4. Top.cur = Top.pos
  BY <1>1, <1>3 DEF Located
<1>5. KidIndex(Top) = Top.i /\ Callee(Top) = Kids(n)[Top.i]
  BY <1>1 DEF KidIndex, Callee
<1>6. \A j \in 1 .. Top.i - 1 : ~Reads(Kids(n)[j], input, Top.pos).ok
  BY <1>1, <1>3 DEF FrameMeans
<1>7. Len(Kids(n)) \in Nat
  BY <1>3, NodeFacts
<1> QED
  BY <1>1, <1>2, <1>3, <1>4, <1>5, <1>6, <1>7

LEMMA DispatchHitMeans ==
  ASSUME IInv, ReadsInv, DispatchHit
  PROVE  ReadsInv'
<1> DEFINE n == Top.node
<1>1. /\ phase # "idle" /\ stack # <<>> /\ Kind(n) = "alt"
      /\ Top.op \in Matching
  BY GoingFacts DEF DispatchHit
<1>2. /\ n \in Node /\ input \in Inputs /\ Top.pos \in 0..Len(input)
      /\ Top \in FrameSet /\ Len(Kids(n)) \in Nat
      /\ DOMAIN Kids(n) = 1..Len(Kids(n))
  BY <1>1, TopMeans, NodeFacts
<1>3. \E k \in DOMAIN Kids(n) :
        /\ \A l \in 1 .. k - 1 : ~MayStart(Kids(n)[l], Top.pos)
        /\ Continue([Top EXCEPT !.i = k])
  BY DEF DispatchHit
<1>4. PICK k \in DOMAIN Kids(n) :
        /\ \A l \in 1 .. k - 1 : ~MayStart(Kids(n)[l], Top.pos)
        /\ Continue([Top EXCEPT !.i = k])
  BY <1>3
<1> DEFINE f == [Top EXCEPT !.i = k]
<1>5. k \in Nat /\ \A l \in 1 .. k - 1 : l \in 1..Len(Kids(n))
  BY <1>2
<1>6. \A l \in 1 .. k - 1 : ~Reads(Kids(n)[l], input, Top.pos).ok
  <2> TAKE l \in 1 .. k - 1
  <2>1. Kids(n)[l] \in Node
    BY <1>2, <1>5, NodeFacts
  <2> QED
    BY <1>2, <1>4, <2>1, SkipsNothing
<1>7. Continue(f)
  BY <1>4
<1>8. f \in FrameSet /\ f.node = n /\ f.op = Top.op /\ f.pos = Top.pos /\ f.i = k
  BY <1>2, <1>5 DEF FrameSet
<1> HIDE DEF f
<1>9. f.op # "miss"
  BY <1>1, <1>8 DEF Matching
<1>10. FrameMeans(input, f, Reads(f.node, input, f.pos))
  BY <1>1, <1>6, <1>8, <1>9 DEF FrameMeans
<1> QED
  BY <1>1, <1>7, <1>8, <1>10, ContinueMeans

LEMMA DispatchMissMeans ==
  ASSUME IInv, ReadsInv, DispatchMiss
  PROVE  ReadsInv'
<1> DEFINE n == Top.node
           f == [Top EXCEPT !.op = "miss", !.i = 1]
<1>1. /\ phase # "idle" /\ stack # <<>> /\ Kind(n) = "alt"
  BY GoingFacts DEF DispatchMiss
<1>2. /\ n \in Node /\ input \in Inputs /\ Top.pos \in 0..Len(input)
      /\ Top \in FrameSet /\ DOMAIN Kids(n) = 1..Len(Kids(n))
  BY <1>1, TopMeans, NodeFacts
<1>3. \A l \in 1..Len(Kids(n)) : ~Reads(Kids(n)[l], input, Top.pos).ok
  <2> TAKE l \in 1..Len(Kids(n))
  <2>1. Kids(n)[l] \in Node /\ ~MayStart(Kids(n)[l], Top.pos)
    BY <1>2, NodeFacts DEF DispatchMiss
  <2> QED
    BY <1>2, <2>1, SkipsNothing
<1>4. Reads(n, input, Top.pos) = Unread
  BY <1>1, <1>2, <1>3, NothingFits
<1>5. ~Reads(n, input, Top.pos).ok
  BY <1>4 DEF Unread
<1>6. Continue(f)
  BY DEF DispatchMiss
<1>7. f \in FrameSet /\ f.node = n /\ f.op = "miss" /\ f.pos = Top.pos
  BY <1>2 DEF FrameSet, Failing
<1> HIDE DEF f
<1>8. f.op \notin Matching
  BY <1>7 DEF Matching
<1>9. FrameMeans(input, f, Reads(f.node, input, f.pos))
  BY <1>5, <1>7, <1>8 DEF FrameMeans
<1> QED
  BY <1>1, <1>6, <1>7, <1>9, ContinueMeans

LEMMA VariantMatchedMeans ==
  ASSUME IInv, ReadsInv, VariantMatched
  PROVE  ReadsInv'
<1> DEFINE n == Top.node
           kid == Reads(Kids(n)[Top.i], input, Top.pos)
           m == Reads(n, input, Top.pos)
<1>0. Answered({"alt"}, Matching) /\ ret.ok /\ Return(ret)
  BY DEF VariantMatched
<1>1. /\ phase # "idle" /\ stack # <<>> /\ Kind(n) = "alt" /\ n \in Node
      /\ Top.op \in Matching /\ Top.op # "miss"
      /\ input \in Inputs /\ Top.pos \in 0..Len(input)
      /\ Top.i \in 1..Len(Kids(n))
      /\ ret.ok = kid.ok /\ ret.end = kid.end
      /\ Top.op = "parse" => ret.print = kid.print
      /\ Top.op = "scan" => ret.print = <<>>
      /\ \A j \in 1 .. Top.i - 1 : ~Reads(Kids(n)[j], input, Top.pos).ok
  BY <1>0, AlternationMeans
<1>2. m = kid
  BY <1>0, <1>1, FirstFits
<1> HIDE DEF kid, m
<1>3. AnswerMeans(n, Top.op, Top.pos, ret, m)
  BY <1>1, <1>2, ForwardMeans
<1> QED
  BY <1>0, <1>1, <1>3, ReturnMeans DEF m

LEMMA NextVariantMeans ==
  ASSUME IInv, ReadsInv, NextVariant
  PROVE  ReadsInv'
<1> DEFINE n == Top.node
           i == Top.i + 1
           f == [Top EXCEPT !.i = i]
<1>0. Answered({"alt"}, Matching) /\ ~ret.ok /\ Continue(f)
  BY DEF NextVariant
<1>1. /\ phase # "idle" /\ stack # <<>> /\ Kind(n) = "alt"
      /\ Top.op # "miss" /\ Top \in FrameSet
      /\ Len(Kids(n)) \in Nat /\ Top.i \in 1..Len(Kids(n))
      /\ ret.ok = Reads(Kids(n)[Top.i], input, Top.pos).ok
      /\ \A j \in 1 .. Top.i - 1 : ~Reads(Kids(n)[j], input, Top.pos).ok
  BY <1>0, AlternationMeans
<1>2. i \in Nat /\ \A j \in 1 .. i - 1 : j = Top.i \/ j \in 1 .. Top.i - 1
  BY <1>1
<1>3. \A j \in 1 .. i - 1 : ~Reads(Kids(n)[j], input, Top.pos).ok
  BY <1>0, <1>1, <1>2
<1> HIDE DEF i
<1>4. f \in FrameSet /\ f.node = n /\ f.op = Top.op /\ f.pos = Top.pos /\ f.i = i
  BY <1>1, <1>2 DEF FrameSet
<1> HIDE DEF f
<1>5. FrameMeans(input, f, Reads(f.node, input, f.pos))
  BY <1>1, <1>3, <1>4 DEF FrameMeans
<1> QED
  BY <1>0, <1>1, <1>4, <1>5, ContinueMeans

LEMMA NoVariantMeans ==
  ASSUME IInv, ReadsInv, NoVariant
  PROVE  ReadsInv'
<1> DEFINE n == Top.node
<1>0. Answered({"alt"}, Matching) /\ ~ret.ok /\ Return(Nothing)
  BY DEF NoVariant
<1>1. /\ phase # "idle" /\ stack # <<>> /\ Kind(n) = "alt" /\ n \in Node
      /\ input \in Inputs /\ Top.pos \in 0..Len(input)
      /\ Len(Kids(n)) \in Nat /\ Top.i \in 1..Len(Kids(n))
      /\ ret.ok = Reads(Kids(n)[Top.i], input, Top.pos).ok
      /\ \A j \in 1 .. Top.i - 1 : ~Reads(Kids(n)[j], input, Top.pos).ok
  BY <1>0, AlternationMeans
<1>2. \A j \in 1..Len(Kids(n)) : j = Top.i \/ j \in 1 .. Top.i - 1
  BY <1>1 DEF NoVariant
<1>3. Reads(n, input, Top.pos) = Unread
  BY <1>0, <1>1, <1>2, NothingFits
<1> QED
  BY <1>0, <1>1, <1>3, NothingMeans, ReturnMeans

-----------------------------------------------------------------------------
(***************************************************************************)
(* Lookahead, wrappers and conversions.                                    *)
(***************************************************************************)

LEMMA WrappedMeans ==
  ASSUME IInv, ReadsInv, NEW kinds, Answered(kinds, Matching),
         kinds \subseteq {"box", "raw", "phantom", "not"} \cup Conversions
  PROVE  LET n == Top.node
             kid == Reads(Kids(n)[1], input, Top.pos)
         IN /\ phase # "idle" /\ stack # <<>> /\ Kind(n) \in kinds /\ n \in Node
            /\ Top.op \in Matching /\ Top.op # "miss"
            /\ input \in Inputs /\ Top.pos \in 0..Len(input)
            /\ kid \in Found /\ ret.ok = kid.ok /\ ret.end = kid.end
            /\ Top.op = "parse" /\ Kind(n) \in {"box", "from", "tryFrom"} =>
                 ret.print = kid.print
<1> DEFINE n == Top.node
           kid == Reads(Callee(Top), input, Top.cur)
<1>1. /\ phase # "idle" /\ stack # <<>> /\ Kind(n) \in kinds
      /\ Top.op \in Matching /\ Top.op # "miss" /\ kid \in Found
      /\ ret.ok = kid.ok /\ ret.end = kid.end
      /\ KidOp(Top) = "parse" => ret.print = kid.print
  BY KidMeans
<1>2. n \in Node /\ input \in Inputs /\ Top.pos \in 0..Len(input)
  BY <1>1, TopMeans
<1>3. Kind(n) \notin {"seq", "vec", "alt", "vec1"}
  BY <1>1 DEF Conversions
<1>4. Top.cur = Top.pos /\ Callee(Top) = Kids(n)[1]
  BY <1>1, <1>3, KidInPlace
<1>5. Top.op = "parse" /\ Kind(n) \in {"box", "from", "tryFrom"} =>
        KidOp(Top) = "parse"
  BY DEF KidOp, Failing
<1> QED
  BY <1>1, <1>2, <1>4, <1>5

LEMMA ProbeReturnMeans ==
  ASSUME IInv, ReadsInv, ProbeReturn
  PROVE  ReadsInv'
<1> DEFINE n == Top.node
           kid == Reads(Kids(n)[1], input, Top.pos)
           m == Reads(n, input, Top.pos)
<1>0. Answered({"not"}, Matching)
  BY DEF ProbeReturn
<1>1. /\ phase # "idle" /\ stack # <<>> /\ Kind(n) \in {"not"} /\ n \in Node
      /\ Top.op # "miss" /\ input \in Inputs /\ Top.pos \in 0..Len(input)
      /\ ret.ok = kid.ok
  BY <1>0, WrappedMeans
<1>2. m = IF kid.ok THEN Unread ELSE Read(Top.pos, <<>>)
  BY <1>1, RepetitionReads
<1> HIDE DEF kid, m
<1>3. CASE ret.ok
  <2>1. m = Unread /\ Return(Nothing)
    BY <1>1, <1>2, <1>3 DEF ProbeReturn
  <2> QED
    BY <1>1, <2>1, NothingMeans, ReturnMeans DEF m
<1>4. CASE ~ret.ok
  <2>1. m = Read(Top.pos, <<>>) /\ Return(Match(Top, Top.pos, <<>>, 0))
    BY <1>1, <1>2, <1>4 DEF ProbeReturn
  <2>2. m.print = <<>>
    BY <2>1 DEF Read
  <2>3. AnswerMeans(n, Top.op, Top.pos, Match(Top, Top.pos, <<>>, 0), m)
    BY <1>1, <2>1, <2>2, MatchMeans
  <2> QED
    BY <1>1, <2>1, <2>3, ReturnMeans DEF m
<1> QED
  BY <1>3, <1>4

LEMMA UnwrapMeans ==
  ASSUME IInv, ReadsInv, Unwrap
  PROVE  ReadsInv'
<1> DEFINE n == Top.node
           kid == Reads(Kids(n)[1], input, Top.pos)
           m == Reads(n, input, Top.pos)
           print == WrapperPrint(Top, ret)
<1>0. Answered({"box", "raw", "phantom"}, Matching)
  BY DEF Unwrap
<1>1. /\ phase # "idle" /\ stack # <<>>
      /\ Kind(n) \in {"box", "raw", "phantom"} /\ n \in Node
      /\ Top.op # "miss" /\ input \in Inputs /\ Top.pos \in 0..Len(input)
      /\ kid \in Found /\ ret.ok = kid.ok /\ ret.end = kid.end
      /\ Top.op = "parse" /\ Kind(n) = "box" => ret.print = kid.print
  BY <1>0, WrappedMeans
<1>2. /\ Kind(n) = "box" => m = kid
      /\ Kind(n) = "raw" =>
           m = IF kid.ok THEN Read(kid.end, Slice(input, Top.pos, kid.end)) ELSE Unread
      /\ Kind(n) = "phantom" => m = IF kid.ok THEN Read(kid.end, <<>>) ELSE Unread
  BY <1>1, WrapperReads
<1> HIDE DEF kid, m
<1>3. kid = IF kid.ok THEN Read(kid.end, kid.print) ELSE Unread
  BY <1>1, FoundRecord
<1>4. CASE ret.ok
  <2>1. \E t : m = Read(ret.end, t) /\ (Top.op = "parse" => t = print)
    BY <1>1, <1>2, <1>3, <1>4 DEF WrapperPrint
  <2>2. PICK t : m = Read(ret.end, t) /\ (Top.op = "parse" => t = print)
    BY <2>1
  <2>3. m.print = t
    BY <2>2 DEF Read
  <2>4. m = Read(ret.end, m.print) /\ (Top.op = "parse" => m.print = print)
    BY <2>2, <2>3
  <2>5. Return(Match(Top, ret.end, print, 0))
    BY <1>4 DEF Unwrap
  <2> HIDE DEF print
  <2>6. AnswerMeans(n, Top.op, Top.pos, Match(Top, ret.end, print, 0), m)
    BY <1>1, <2>4, MatchMeans
  <2> QED
    BY <1>1, <2>5, <2>6, ReturnMeans DEF m
<1>5. CASE ~ret.ok
  <2>1. m = Unread
    BY <1>1, <1>2, <1>3, <1>5
  <2>2. Return(Nothing)
    BY <1>5 DEF Unwrap
  <2> QED
    BY <1>1, <2>1, <2>2, NothingMeans, ReturnMeans DEF m
<1> QED
  BY <1>4, <1>5

LEMMA ConversionMeans ==
  ASSUME IInv, ReadsInv, Answered(Conversions, Matching)
  PROVE  LET n == Top.node
             m == Reads(n, input, Top.pos)
         IN /\ phase # "idle" /\ stack # <<>> /\ Kind(n) \in Conversions
            /\ Top.op # "miss"
            /\ ~ret.ok \/ Unconvertible(n, ConvertSource) \/ Invalid(n, ConvertSource)
                 => m = Unread
            /\ ret.ok /\ ~Unconvertible(n, ConvertSource) /\ ~Invalid(n, ConvertSource)
                 => \E t : /\ m = Read(ret.end, t)
                           /\ Top.op = "parse" => t = ConvertPrint(Top, ret)
<1> DEFINE n == Top.node
           kid == Reads(Kids(n)[1], input, Top.pos)
           m == Reads(n, input, Top.pos)
           print == Printed(n, IF Kind(n) = "fromStr"
                               THEN Slice(input, Top.pos, kid.end) ELSE kid.print)
<1>1. /\ phase # "idle" /\ stack # <<>> /\ Kind(n) \in Conversions /\ n \in Node
      /\ Top.op # "miss" /\ input \in Inputs /\ Top.pos \in 0..Len(input)
      /\ ret.ok = kid.ok /\ ret.end = kid.end
      /\ Top.op = "parse" /\ Kind(n) \in {"from", "tryFrom"} => ret.print = kid.print
  BY WrappedMeans
<1>2. m = Approved(n, input, Top.pos, kid, print)
  BY <1>1, WrapperReads
<1>3. Refuses(n, ConvertSource)
        <=> Unconvertible(n, ConvertSource) \/ Invalid(n, ConvertSource)
  BY <1>1 DEF Refuses, Unconvertible, Invalid, Conversions
<1>4. Top.op = "parse" => print = ConvertPrint(Top, ret)
  BY <1>1 DEF ConvertPrint, Conversions
<1> HIDE DEF kid, m, print
<1>5. m = IF ret.ok /\ ~Refuses(n, ConvertSource) THEN Read(ret.end, print) ELSE Unread
  BY <1>1, <1>2 DEF Approved, ConvertSource
<1> QED
  BY <1>1, <1>3, <1>4, <1>5 DEF m

LEMMA ConvertMeans ==
  ASSUME IInv, ReadsInv, Convert
  PROVE  ReadsInv'
<1> DEFINE n == Top.node
           m == Reads(n, input, Top.pos)
           print == ConvertPrint(Top, ret)
<1>1. /\ phase # "idle" /\ stack # <<>> /\ Kind(n) \in Conversions
      /\ Top.op # "miss"
      /\ \E t : m = Read(ret.end, t) /\ (Top.op = "parse" => t = print)
  BY ConversionMeans DEF Convert
<1>2. PICK t : m = Read(ret.end, t) /\ (Top.op = "parse" => t = print)
  BY <1>1
<1>3. Return(Match(Top, ret.end, print, 0))
  BY DEF Convert
<1> HIDE DEF m, print
<1>4. m.print = t
  BY <1>2 DEF Read
<1>5. Kind(n) # "vec"
  BY <1>1 DEF Conversions
<1>6. AnswerMeans(n, Top.op, Top.pos, Match(Top, ret.end, print, 0), m)
  BY <1>2, <1>4, <1>5, MatchMeans
<1> QED
  BY <1>1, <1>3, <1>6, ReturnMeans DEF m

LEMMA ConvertRejectedMeans ==
  ASSUME IInv, ReadsInv, ConvertRejected
  PROVE  ReadsInv'
<1>1. /\ phase # "idle" /\ stack # <<>> /\ Kind(Top.node) \in Conversions
      /\ Reads(Top.node, input, Top.pos) = Unread
  BY ConversionMeans DEF ConvertRejected
<1>2. Return(Nothing) /\ Kind(Top.node) # "vec"
  BY <1>1 DEF ConvertRejected, Conversions
<1> QED
  BY <1>1, <1>2, NothingMeans, ReturnMeans

LEMMA SourceFailedMeans ==
  ASSUME IInv, ReadsInv, SourceFailed
  PROVE  ReadsInv'
<1>1. /\ phase # "idle" /\ stack # <<>> /\ Kind(Top.node) \in Conversions
      /\ Reads(Top.node, input, Top.pos) = Unread
  BY ConversionMeans DEF SourceFailed
<1>2. Return(Nothing) /\ Kind(Top.node) # "vec"
  BY <1>1 DEF SourceFailed, Conversions
<1> QED
  BY <1>1, <1>2, NothingMeans, ReturnMeans

-----------------------------------------------------------------------------
(***************************************************************************)
(* fail_at, which reads nothing.                                           *)
(***************************************************************************)

LEMMA FailingOnMeans ==
  ASSUME IInv, ReadsInv, phase # "idle", stack # <<>>, Top.op \in Failing,
         NEW f \in FrameSet, Continue(f),
         f.node = Top.node, f.op = Top.op, f.pos = Top.pos
  PROVE  ReadsInv'
<1>1. FrameMeans(input, Top, Reads(Top.node, input, Top.pos))
  BY TopMeans
<1>2. f.op \notin Matching
  BY DEF Matching, Failing
<1>3. FrameMeans(input, f, Reads(f.node, input, f.pos))
  BY <1>1, <1>2 DEF FrameMeans
<1> QED
  BY <1>3, ContinueMeans

\* Only an enum misses.
LEMMA OnlyEnumsMiss ==
  ASSUME IInv, ReadsInv, stack # <<>>, Kind(Top.node) # "alt"
  PROVE  Top.op # "miss"
<1>1. Indexed(Top)
  BY TopMeans
<1> QED
  BY <1>1 DEF Indexed

LEMMA FailFieldMeans ==
  ASSUME IInv, ReadsInv, FailField
  PROVE  ReadsInv'
<1> DEFINE i == Top.i + 1
           f == [Top EXCEPT !.i = i]
<1>1. /\ phase # "idle" /\ stack # <<>>
      /\ Kind(Top.node) \in {"seq", "vec1"} /\ Top.op \in Failing
      /\ Top \in FrameSet /\ Top.i \in Nat
  BY KidFailed DEF FailField
<1>2. Top.op # "miss"
  BY <1>1, OnlyEnumsMiss
<1>3. CASE ret.ok
  <2>1. Return(ret)
    BY <1>3 DEF FailField
  <2> QED
    BY <1>1, <1>2, <2>1, FailingMeans
<1>4. CASE ~ret.ok
  <2>1. Continue(f)
    BY <1>4 DEF FailField
  <2>2. i \in Nat
    BY <1>1
  <2> HIDE DEF i
  <2>3. f \in FrameSet /\ f.node = Top.node /\ f.op = Top.op /\ f.pos = Top.pos
    BY <1>1, <2>2 DEF FrameSet
  <2> QED
    BY <1>1, <2>1, <2>3, FailingOnMeans
<1> QED
  BY <1>3, <1>4

LEMMA FailFieldsEndMeans ==
  ASSUME IInv, ReadsInv, FailFieldsEnd
  PROVE  ReadsInv'
<1>1. /\ phase # "idle" /\ stack # <<>>
      /\ Kind(Top.node) \in {"seq", "vec1"} /\ Top.op \in Failing
  BY GoingFacts DEF FailFieldsEnd
<1>2. Return(Required(FALSE)) /\ Top.op # "miss"
  BY <1>1, OnlyEnumsMiss DEF FailFieldsEnd
<1> QED
  BY <1>1, <1>2, FailingMeans

LEMMA FailVariantMeans ==
  ASSUME IInv, ReadsInv, FailVariant
  PROVE  ReadsInv'
<1> DEFINE i == Top.i + 1
           all == StillRequired(Top, ret)
           f == [Top EXCEPT !.i = i, !.all = all]
<1>1. /\ phase # "idle" /\ stack # <<>> /\ Top.op \in Failing
      /\ Top \in FrameSet /\ Top.i \in Nat /\ ret \in Result
  BY KidFailed DEF FailVariant
<1>2. i \in Nat /\ all \in BOOLEAN
  BY <1>1 DEF StillRequired, Result, FrameSet
<1>3. Continue(f)
  BY DEF FailVariant
<1> HIDE DEF i, all
<1>4. f \in FrameSet /\ f.node = Top.node /\ f.op = Top.op /\ f.pos = Top.pos
  BY <1>1, <1>2 DEF FrameSet
<1> HIDE DEF f
<1> QED
  BY <1>1, <1>3, <1>4, FailingOnMeans

LEMMA FailVariantsEndMeans ==
  ASSUME IInv, ReadsInv, FailVariantsEnd
  PROVE  ReadsInv'
<1> DEFINE r == IF Top.op = "miss" THEN Nothing ELSE Required(StillRequired(Top, ret))
<1>1. phase # "idle" /\ stack # <<>> /\ Top.op \in Failing
  BY KidFailed DEF FailVariantsEnd
<1>2. Return(r) /\ (Top.op = "miss" => r = Nothing)
  BY DEF FailVariantsEnd
<1> HIDE DEF r
<1> QED
  BY <1>1, <1>2, FailingMeans

LEMMA FailWrappedMeans ==
  ASSUME IInv, ReadsInv, FailWrapped
  PROVE  ReadsInv'
<1> DEFINE r == IF Kind(Top.node) \in {"opt", "vec"} THEN Required(FALSE) ELSE ret
<1>1. /\ phase # "idle" /\ stack # <<>> /\ Top.op \in Failing
      /\ Kind(Top.node) \in Wrappers \cup Conversions
  BY KidFailed DEF FailWrapped
<1>2. Top.op # "miss"
  BY <1>1, OnlyEnumsMiss DEF Wrappers, Conversions
<1>3. Return(r)
  BY DEF FailWrapped
<1> HIDE DEF r
<1> QED
  BY <1>1, <1>2, <1>3, FailingMeans

-----------------------------------------------------------------------------
(***************************************************************************)
(* The answers of the entry points.                                        *)
(***************************************************************************)

\* What Finish answers is what the table says of the root.
LEMMA FinishAnswers ==
  ASSUME IInv, ReadsInv, Finish
  PROVE  LET new == outcomes'[Len(outcomes) + 1]
         IN AnswersAs(new, Promise!MeaningOf(RootReads(root, input), input, Entry))
<1> DEFINE m == Reads(root, input, 0)
           new == [entry |-> Entry, ok |-> Accepted(Entry, ret), end |-> ret.end,
                   print |-> ret.print, error |-> IntoError(history)]
<1>1. phase = "return" /\ stack = <<>> /\ outcomes' = Append(outcomes, new)
  BY DEF Finish
<1>2. AnswerMeans(root, EntryOp(Entry), 0, ret, m)
  BY <1>1 DEF ReadsInv, AskedNode, AskedOp, AskedPos
<1>3. EntryOp(Entry) \in Matching
  BY DEF EntryOp, Matching
<1>4. /\ ret.ok = m.ok /\ ret.end = m.end
      /\ ret.print = IF EntryOp(Entry) = "parse" THEN m.print ELSE <<>>
  BY <1>2, <1>3 DEF AnswerMeans
<1>5. EntryOp(Entry) = "parse" <=> Entry \in {"parse", "parse_prefix"}
  BY DEF EntryOp
<1> HIDE DEF m
<1>6. Accepted(Entry, ret)
        = (m.ok /\ (Entry \in {"parse", "scan"} => m.end = Len(input)))
  BY <1>4 DEF Accepted
<1>7. AnswersAs(new, Promise!MeaningOf(m, input, Entry))
  BY <1>4, <1>5, <1>6 DEF AnswersAs, Promise!MeaningOf
<1> HIDE DEF new
<1>8. outcomes'[Len(outcomes) + 1] = new
  BY <1>1, AppendProperties DEF IInv, TypeOK
<1> QED
  BY <1>7, <1>8 DEF m, RootReads

LEMMA FinishMeans ==
  ASSUME IInv, ReadsInv, Finish
  PROVE  ReadsInv'
<1> DEFINE new == [entry |-> Entry, ok |-> Accepted(Entry, ret), end |-> ret.end,
                   print |-> ret.print, error |-> IntoError(history)]
           Wanted(e) == Promise!MeaningOf(RootReads(root, input), input, e)
<1>1. /\ phase' = "idle" /\ stack = <<>> /\ stack' = stack
      /\ outcomes' = Append(outcomes, new) /\ input' = input /\ root' = root
  BY DEF Finish
<1>2. new.entry = Entry
  OBVIOUS
<1>3. AnswersAs(outcomes'[Len(outcomes) + 1], Wanted(Entry))
  BY FinishAnswers
<1>4. \A o \in DOMAIN outcomes : AnswersAs(outcomes[o], Wanted(outcomes[o].entry))
  BY DEF ReadsInv, AnsweredAsMeant
<1> HIDE DEF new, Wanted
<1>5. PICK S : outcomes \in Seq(S)
  BY DEF IInv, TypeOK
<1>6. /\ DOMAIN outcomes' = 1 .. Len(outcomes) + 1
      /\ DOMAIN outcomes = 1..Len(outcomes) /\ Len(outcomes) \in Nat
      /\ outcomes'[Len(outcomes) + 1] = new
      /\ \A o \in 1..Len(outcomes) : outcomes'[o] = outcomes[o]
  BY <1>1, <1>5
<1>7. \A o \in DOMAIN outcomes' : AnswersAs(outcomes'[o], Wanted(outcomes'[o].entry))
  <2> TAKE o \in DOMAIN outcomes'
  <2>1. CASE o = Len(outcomes) + 1
    BY <1>2, <1>3, <1>6, <2>1
  <2>2. CASE o \in DOMAIN outcomes
    BY <1>4, <1>6, <2>2
  <2> QED
    BY <1>6, <2>1, <2>2
<1>8. AnsweredAsMeant'
  BY <1>1, <1>7 DEF AnsweredAsMeant, Wanted
<1>9. \A k \in 1..Len(stack') :
        FrameMeans(input, stack[k], Reads(stack[k].node, input, stack[k].pos))
  BY <1>1
<1> QED
  BY <1>1, <1>8, <1>9 DEF ReadsInv

-----------------------------------------------------------------------------
(***************************************************************************)
(* Every step, and the contract.                                           *)
(***************************************************************************)

LEMMA InitMeans ==
  ASSUME Init
  PROVE  ReadsInv
<1>1. stack = <<>> /\ phase = "idle" /\ outcomes = <<>>
  BY DEF Init
<1>2. AnsweredAsMeant
  BY <1>1 DEF AnsweredAsMeant
<1> QED
  BY <1>1, <1>2 DEF ReadsInv

LEMMA StutterMeans ==
  ASSUME ReadsInv, UNCHANGED vars
  PROVE  ReadsInv'
<1>1. AnsweredAsMeant'
  BY DEF vars, ReadsInv, AnsweredAsMeant, Promise!MeaningOf, AnswersAs
<1> QED
  BY <1>1 DEF vars, ReadsInv, Entry, AskedNode, AskedPos, AskedOp, Top

LEMMA NextMeans ==
  ASSUME IInv, ReadsInv, [Next]_vars
  PROVE  ReadsInv'
<1>1. CASE Begin
  BY <1>1, BeginMeans
<1>2. CASE Finish
  BY <1>2, FinishMeans
<1>3. CASE Call
  BY <1>3, CallMeans
<1>4. CASE Probe
  BY <1>4, ProbeMeans
<1>5. CASE Leaf
  BY <1>5, LiteralMatchMeans, LiteralMismatchMeans, CharMatchMeans,
     CharMismatchMeans, FailLeafMeans, UnitMatchMeans, FailNothingMeans DEF Leaf
<1>6. CASE Repetition
  BY <1>6, OptionReturnMeans, VecItemMeans, VecEndMeans, Vec1ReturnMeans
     DEF Repetition
<1>7. CASE Sequence
  BY <1>7, NextFieldMeans, FieldFailedMeans, FieldsParsedMeans,
     FieldsRejectedMeans DEF Sequence
<1>8. CASE Alternation
  BY <1>8, DispatchHitMeans, DispatchMissMeans, VariantMatchedMeans,
     NextVariantMeans, NoVariantMeans DEF Alternation
<1>9. CASE Wrapped
  BY <1>9, ProbeReturnMeans, UnwrapMeans, ConvertMeans, ConvertRejectedMeans,
     SourceFailedMeans DEF Wrapped
<1>10. CASE Fail
  BY <1>10, FailFieldMeans, FailFieldsEndMeans, FailVariantMeans,
     FailVariantsEndMeans, FailWrappedMeans DEF Fail
<1>11. CASE UNCHANGED vars
  BY <1>11, StutterMeans
<1> QED
  BY <1>1, <1>2, <1>3, <1>4, <1>5, <1>6, <1>7, <1>8, <1>9, <1>10, <1>11
     DEF Next, Done

\* Every activation reads on as the table says, every answer is the table's.
THEOREM ReadsInvariance == Spec => []ReadsInv
<1>1. IInv /\ ReadsInv /\ [Next]_vars => ReadsInv'
  BY NextMeans
<1> QED
  BY <1>1, InitMeans, Invariance, PTL DEF Spec

\* Only an entry point's return answers its caller.
LEMMA OnlyFinishAnswers ==
  ASSUME [Next]_vars, ~Finish
  PROVE  UNCHANGED <<input, root, outcomes>>
<1>1. CASE Begin \/ Call \/ Probe
  BY <1>1 DEF Begin, Call, Probe
<1>2. CASE Leaf
  BY <1>2 DEF Leaf, LiteralMatch, LiteralMismatch, CharMatch, CharMismatch,
     FailLeaf, UnitMatch, FailNothing, Return
<1>3. CASE Repetition
  BY <1>3 DEF Repetition, OptionReturn, VecItem, VecEnd, Vec1Return,
     Return, Continue
<1>4. CASE Sequence
  BY <1>4 DEF Sequence, NextField, FieldFailed, FieldsParsed, FieldsRejected,
     Return, Continue
<1>5. CASE Alternation
  BY <1>5 DEF Alternation, DispatchHit, DispatchMiss, VariantMatched,
     NextVariant, NoVariant, Return, Continue
<1>6. CASE Wrapped
  BY <1>6 DEF Wrapped, ProbeReturn, Unwrap, Convert, ConvertRejected,
     SourceFailed, Return
<1>7. CASE Fail
  BY <1>7 DEF Fail, FailField, FailFieldsEnd, FailVariant, FailVariantsEnd,
     FailWrapped, Return, Continue
<1>8. CASE UNCHANGED vars
  BY <1>8 DEF vars
<1> QED
  BY <1>1, <1>2, <1>3, <1>4, <1>5, <1>6, <1>7, <1>8 DEF Next, Done

\* What the caller sees of an answer.
Seen(o) == [ok |-> o.ok, end |-> o.end, print |-> o.print]
Answers == [i \in DOMAIN outcomes |-> Seen(outcomes[i])]

LEMMA FinishIsAnswer ==
  ASSUME IInv, ReadsInv, Finish
  PROVE  Promise!Answer
<1> DEFINE m == Reads(root, input, 0)
           new == outcomes'[Len(outcomes) + 1]
           Outcome == [entry : Entries, ok : BOOLEAN, end : Nat, print : Text,
                       error : HistorySet]
           S == [ok : BOOLEAN, end : Nat, print : Text]
           said == Promise!MeaningOf(m, input, Entry)
<1>1. /\ outcomes \in Seq(Outcome) /\ Len(outcomes) \in Nat
      /\ DOMAIN outcomes = 1..Len(outcomes)
      /\ input \in Inputs /\ root \in Roots
  BY DEF IInv, TypeOK
<1>2. Len(outcomes) < Len(Schedule)
  BY DEF IInv, PhaseOK, Finish
<1>3. AnswersAs(new, said)
  BY FinishAnswers DEF RootReads
<1>4. Seen(new) = said
  BY <1>3 DEF AnswersAs, Seen, Promise!MeaningOf
<1>5. /\ DOMAIN outcomes' = 1 .. Len(outcomes) + 1
      /\ \A i \in 1..Len(outcomes) : outcomes'[i] = outcomes[i]
  BY <1>1 DEF Finish
<1>6. said \in S
  <2>1. root \in Node /\ 0 \in 0..Len(input)
    BY <1>1, ParserAssumption, PlaceFacts DEF Text
  <2>2. m.ok \in BOOLEAN /\ m.end \in Nat /\ m.print \in Text
    BY <1>1, <2>1, ReadsFacts
  <2> HIDE DEF m
  <2>3. <<>> \in Text
    BY DEF Text
  <2> QED
    BY <2>2, <2>3 DEF Promise!MeaningOf
<1> HIDE DEF new, said, m, Outcome
<1>7. \A i \in 1..Len(outcomes) : Seen(outcomes[i]) \in S
  <2> TAKE i \in 1..Len(outcomes)
  <2>1. outcomes[i] \in Outcome
    BY <1>1
  <2> QED
    BY <2>1 DEF Seen, Outcome
<1> HIDE DEF S
<1>8. Answers \in Seq(S) /\ Len(Answers) = Len(outcomes)
  <2>1. [i \in 1..Len(outcomes) |-> Seen(outcomes[i])] \in Seq(S)
    BY <1>1, <1>7
  <2> QED
    BY <1>1, <2>1 DEF Answers
<1>9. Answers' = Append(Answers, said)
  <2>1. Answers' = [i \in 1 .. Len(outcomes) + 1 |-> Seen(outcomes'[i])]
    BY <1>5 DEF Answers
  <2>2. \A i \in 1 .. Len(outcomes) + 1 :
          Seen(outcomes'[i]) = IF i = Len(outcomes) + 1 THEN said ELSE Answers[i]
    <3> TAKE i \in 1 .. Len(outcomes) + 1
    <3>1. CASE i = Len(outcomes) + 1
      BY <1>4, <3>1 DEF new
    <3>2. CASE i \in 1..Len(outcomes)
      BY <1>1, <1>5, <3>2 DEF Answers
    <3> QED
      BY <1>1, <3>1, <3>2
  <2>3. \A i \in 1 .. Len(outcomes) + 1 : Seen(outcomes'[i]) \in S
    <3> TAKE i \in 1 .. Len(outcomes) + 1
    <3>1. CASE i = Len(outcomes) + 1
      BY <1>4, <1>6, <3>1 DEF new
    <3>2. CASE i \in 1..Len(outcomes)
      BY <1>5, <1>7, <3>2
    <3> QED
      BY <1>1, <3>1, <3>2
  <2>4. Answers' \in Seq(S) /\ Len(Answers') = Len(outcomes) + 1
    BY <1>1, <2>1, <2>3
  <2>5. /\ Append(Answers, said) \in Seq(S)
        /\ Len(Append(Answers, said)) = Len(outcomes) + 1
        /\ \A i \in 1..Len(outcomes) : Append(Answers, said)[i] = Answers[i]
        /\ Append(Answers, said)[Len(outcomes) + 1] = said
    BY <1>6, <1>8, AppendProperties
  <2>6. \A i \in 1 .. Len(outcomes) + 1 : Answers'[i] = Append(Answers, said)[i]
    BY <1>1, <2>1, <2>2, <2>5
  <2> QED
    BY <2>4, <2>5, <2>6, SeqEqual
<1>10. RootReads(root, input) = m
  BY DEF m, RootReads
<1>11. said = Promise!MeaningOf(m, input, Schedule[Len(Answers) + 1])
  BY <1>8 DEF said, Entry
<1>12. Len(Answers) < Len(Schedule) /\ UNCHANGED <<input, root>>
  BY <1>2, <1>8 DEF Finish
<1> HIDE DEF m, said
<1>13. Answers' = Append(Answers, Promise!MeaningOf(m, input, Schedule[Len(Answers) + 1]))
  BY <1>9, <1>11
<1> QED
  BY <1>10, <1>12, <1>13 DEF Promise!Answer, Answers, Seen

\* The parser implements its contract: an entry point answers once, with what
\* the table says of the root, and nothing it does before can be seen.
THEOREM Refinement == Spec => KeepsPromise
<1>1. Init => Promise!Init
  BY DEF Init, Promise!Init
<1>2. IInv /\ ReadsInv /\ [Next]_vars => [Promise!Answer]_(Promise!vars)
  <2> SUFFICES ASSUME IInv, ReadsInv, [Next]_vars
               PROVE  [Promise!Answer]_(Promise!vars)
    OBVIOUS
  <2>1. CASE Finish
    BY <2>1, FinishIsAnswer
  <2>2. CASE ~Finish
    BY <2>2, OnlyFinishAnswers DEF Promise!vars
  <2> QED
    BY <2>1, <2>2
<1> QED
  BY <1>1, <1>2, Invariance, ReadsInvariance, PTL
     DEF Spec, KeepsPromise, Promise!Safety

\* The entry points of one root on one input do not disagree.
THEOREM SameVerdicts == Spec => []VerdictsAgree
<1>1. IInv /\ ReadsInv => VerdictsAgree
  <2> SUFFICES ASSUME IInv, ReadsInv,
                      NEW i \in DOMAIN outcomes, NEW j \in DOMAIN outcomes
               PROVE  /\ outcomes[i].end = outcomes[j].end
                      /\ (outcomes[i].entry \in Whole <=> outcomes[j].entry \in Whole)
                           => outcomes[i].ok = outcomes[j].ok
    BY DEF VerdictsAgree
  <2> QED
    BY DEF ReadsInv, AnsweredAsMeant, AnswersAs, Promise!MeaningOf, Whole
<1> QED
  BY <1>1, Invariance, ReadsInvariance, PTL
=============================================================================
