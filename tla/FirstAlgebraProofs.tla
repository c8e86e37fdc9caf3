------------------------- MODULE FirstAlgebraProofs -------------------------
(***************************************************************************)
(* The types of first.rs compute FIRST sets: for every pool of types, every *)
(* order and every number of parts.                                        *)
(***************************************************************************)
EXTENDS FirstAlgebra, SequenceTheorems, TLAPS

-----------------------------------------------------------------------------
(***************************************************************************)
(* Each associated type, by what it denotes.                               *)
(***************************************************************************)

\* A type is a byte set or made of one.
LEMMA TypeCases ==
  ASSUME NEW t \in FirstType
  PROVE  /\ t.head = "OptionalFirst" =>
              /\ t.of \in ByteSet
              /\ Meaning(t).bytes = t.of.bytes
              /\ Meaning(t).nil
         /\ t.head # "OptionalFirst" =>
              /\ t \in ByteSet
              /\ Meaning(t).bytes = t.bytes
              /\ ~Meaning(t).nil
BY DEF FirstType, ByteSet, Meaning, NeverType, AnyCharType

LEMMA ByteSetFacts ==
  ASSUME NEW b \in ByteSet
  PROVE  /\ b \in FirstType
         /\ b.head # "OptionalFirst"
         /\ b.bytes \subseteq Byte
         /\ Optional(b) \in FirstType
BY DEF FirstType, ByteSet, Optional, NeverType, AnyCharType

LEMMA BytesTypeFacts ==
  ASSUME NEW bs \in SUBSET Byte
  PROVE  BytesType(bs) \in ByteSet /\ BytesType(bs).bytes = bs
BY DEF ByteSet, BytesType

LEMMA JoinBytesFacts ==
  ASSUME NEW b \in ByteSet, NEW x \in ByteSet
  PROVE  /\ JoinBytes(b, x) \in ByteSet
         /\ JoinBytes(b, x).bytes = b.bytes \cup x.bytes
BY ByteSetFacts, BytesTypeFacts DEF ByteSet, JoinBytes, NeverType, AnyCharType

\* A type denotes a FIRST set.
LEMMA MeaningFacts ==
  ASSUME NEW t \in FirstType
  PROVE  /\ Meaning(t) \in FirstSet
         /\ Meaning(t).bytes \subseteq Byte
         /\ Meaning(t).nil \in BOOLEAN
<1>1. Meaning(t).bytes \subseteq Byte
  BY TypeCases, ByteSetFacts
<1>2. CASE t.head = "OptionalFirst"
  BY <1>1, <1>2 DEF Meaning, FirstSet
<1>3. CASE t.head # "OptionalFirst"
  BY <1>1, <1>3 DEF Meaning, FirstSet
<1> QED
  BY <1>1, <1>2, <1>3 DEF FirstSet

LEMMA NullableFacts ==
  ASSUME NEW t \in FirstType
  PROVE  /\ NullableType(t) \in FirstType
         /\ Meaning(NullableType(t)).bytes = Meaning(t).bytes
         /\ Meaning(NullableType(t)).nil
<1>1. CASE t.head = "OptionalFirst"
  BY <1>1, TypeCases DEF NullableType
<1>2. CASE t.head # "OptionalFirst"
  BY <1>2, TypeCases, ByteSetFacts DEF NullableType, Meaning, Optional
<1> QED
  BY <1>1, <1>2

LEMMA UnionByteSetFacts ==
  ASSUME NEW t \in FirstType, NEW x \in ByteSet
  PROVE  /\ UnionByteSet(t, x) \in FirstType
         /\ Meaning(UnionByteSet(t, x)).bytes = Meaning(t).bytes \cup x.bytes
         /\ Meaning(UnionByteSet(t, x)).nil <=> Meaning(t).nil
<1>1. CASE t.head = "OptionalFirst"
  <2>1. /\ JoinBytes(t.of, x) \in ByteSet
        /\ JoinBytes(t.of, x).bytes = t.of.bytes \cup x.bytes
    BY <1>1, TypeCases, JoinBytesFacts
  <2>2. /\ JoinBytes(t.of, x) \in FirstType
        /\ Meaning(JoinBytes(t.of, x)).bytes = t.of.bytes \cup x.bytes
    BY <2>1, ByteSetFacts, TypeCases
  <2> QED
    BY <1>1, <2>2, NullableFacts, TypeCases DEF UnionByteSet
<1>2. CASE t.head # "OptionalFirst"
  BY <1>2, TypeCases, JoinBytesFacts, ByteSetFacts DEF UnionByteSet
<1> QED
  BY <1>1, <1>2

\* Union denotes the union, whichever of the two is nullable.
LEMMA UnionFacts ==
  ASSUME NEW t \in FirstType, NEW x \in FirstType
  PROVE  /\ Union(t, x) \in FirstType
         /\ Meaning(Union(t, x)).bytes = Meaning(t).bytes \cup Meaning(x).bytes
         /\ Meaning(Union(t, x)).nil <=> Meaning(t).nil \/ Meaning(x).nil
<1>1. CASE t.head = "OptionalFirst"
  <2>1. /\ UnionByteSet(x, t.of) \in FirstType
        /\ Meaning(UnionByteSet(x, t.of)).bytes = Meaning(x).bytes \cup t.of.bytes
    BY <1>1, TypeCases, UnionByteSetFacts
  <2> QED
    BY <1>1, <2>1, NullableFacts, TypeCases DEF Union
<1>2. CASE t.head = "Never"
  BY <1>2, TypeCases, MeaningFacts
  DEF Union, FirstType, ByteSet, NeverType, AnyCharType, Meaning
<1>3. CASE t.head \notin {"OptionalFirst", "Never"}
  <2>1. /\ UnionByteSet(x, t) \in FirstType
        /\ Meaning(UnionByteSet(x, t)).bytes = Meaning(x).bytes \cup t.bytes
        /\ Meaning(UnionByteSet(x, t)).nil <=> Meaning(x).nil
    BY <1>3, TypeCases, UnionByteSetFacts
  <2> QED
    BY <1>3, <2>1, TypeCases, MeaningFacts DEF Union
<1> QED
  BY <1>1, <1>2, <1>3

\* What follows a type counts if the type is nullable.
LEMMA ConcatFacts ==
  ASSUME NEW t \in FirstType, NEW x \in FirstType
  PROVE  /\ Concat(t, x) \in FirstType
         /\ Meaning(Concat(t, x)).bytes =
              Meaning(t).bytes \cup (IF Meaning(t).nil THEN Meaning(x).bytes ELSE {})
         /\ Meaning(Concat(t, x)).nil <=> Meaning(t).nil /\ Meaning(x).nil
<1>1. CASE t.head = "OptionalFirst"
  <2>1. /\ t.of \in FirstType
        /\ Meaning(t.of).bytes = t.of.bytes /\ ~Meaning(t.of).nil
        /\ Meaning(t).bytes = t.of.bytes /\ Meaning(t).nil
    BY <1>1, TypeCases, ByteSetFacts
  <2> QED
    BY <1>1, <2>1, UnionFacts, MeaningFacts DEF Concat
<1>2. CASE t.head # "OptionalFirst"
  BY <1>2, TypeCases DEF Concat
<1> QED
  BY <1>1, <1>2

LEMMA AddBytesFacts ==
  ASSUME NEW t \in FirstType, NEW bs \in SUBSET Byte
  PROVE  /\ AddBytes(t, bs) \in FirstType
         /\ Meaning(AddBytes(t, bs)).bytes = Meaning(t).bytes \cup bs
         /\ Meaning(AddBytes(t, bs)).nil <=> Meaning(t).nil
<1>1. CASE t.head = "OptionalFirst"
  <2>1. /\ BytesType(t.of.bytes \cup bs) \in ByteSet
        /\ BytesType(t.of.bytes \cup bs).bytes = t.of.bytes \cup bs
    BY <1>1, TypeCases, ByteSetFacts, BytesTypeFacts
  <2>2. /\ BytesType(t.of.bytes \cup bs) \in FirstType
        /\ Meaning(BytesType(t.of.bytes \cup bs)).bytes = t.of.bytes \cup bs
    BY <2>1, ByteSetFacts, TypeCases
  <2> QED
    BY <1>1, <2>2, NullableFacts, TypeCases DEF AddBytes
<1>2. CASE t.head # "OptionalFirst"
  BY <1>2, TypeCases, ByteSetFacts, BytesTypeFacts DEF AddBytes
<1> QED
  BY <1>1, <1>2

-----------------------------------------------------------------------------
(***************************************************************************)
(* FIRST sets of one part more.                                            *)
(***************************************************************************)

Index(s) == [j \in DOMAIN s |-> j]

LEMMA AppendFacts ==
  ASSUME NEW s \in Seq(FirstSet), NEW f \in FirstSet
  PROVE  /\ Append(s, f) \in Seq(FirstSet)
         /\ DOMAIN s = 1 .. Len(s)
         /\ DOMAIN Append(s, f) = 1 .. Len(s) + 1
         /\ Len(s) \in Nat
         /\ \A j \in 1 .. Len(s) : Append(s, f)[j] = s[j] /\ s[j] \in FirstSet
         /\ Append(s, f)[Len(s) + 1] = f
BY AppendProperties, LenProperties, ElementOfSeq

LEMMA UnionAppend ==
  ASSUME NEW s \in Seq(FirstSet), NEW f \in FirstSet
  PROVE  /\ UnionFirst(Index(Append(s, f)), Append(s, f)).bytes =
              UnionFirst(Index(s), s).bytes \cup f.bytes
         /\ UnionFirst(Index(Append(s, f)), Append(s, f)).nil <=>
              UnionFirst(Index(s), s).nil \/ f.nil
<1> DEFINE t == Append(s, f)
           Nil(u) == \E j \in DOMAIN Index(u) : u[Index(u)[j]].nil
           Bytes(u) == UNION {u[Index(u)[j]].bytes : j \in DOMAIN Index(u)}
<1>1. /\ DOMAIN Index(s) = 1 .. Len(s)
      /\ DOMAIN Index(t) = 1 .. Len(s) + 1
      /\ \A j \in 1 .. Len(s) : Index(s)[j] = j
      /\ \A j \in 1 .. Len(s) + 1 : Index(t)[j] = j
  BY AppendFacts DEF Index
<1>2. /\ \A j \in 1 .. Len(s) : t[j] = s[j] /\ s[j] \in FirstSet
      /\ t[Len(s) + 1] = f
      /\ Len(s) \in Nat
  BY AppendFacts
<1> HIDE DEF t
<1>3. DOMAIN Index(t) = DOMAIN Index(s) \cup {Len(s) + 1}
  BY <1>1, <1>2
<1>4. \A j \in DOMAIN Index(s) : t[Index(t)[j]] = s[Index(s)[j]]
  BY <1>1, <1>2
<1>5. t[Index(t)[Len(s) + 1]] = f
  BY <1>1, <1>2
<1>6. Nil(t) <=> Nil(s) \/ f.nil
  BY <1>3, <1>4, <1>5
<1>7. Bytes(t) = Bytes(s) \cup f.bytes
  BY <1>3, <1>4, <1>5
<1>8. /\ UnionFirst(Index(s), s) = [bytes |-> Bytes(s), nil |-> Nil(s)]
      /\ UnionFirst(Index(t), t) = [bytes |-> Bytes(t), nil |-> Nil(t)]
  BY DEF UnionFirst
<1> HIDE DEF Nil, Bytes
<1> QED
  BY <1>6, <1>7, <1>8 DEF t

LEMMA ConcatAppend ==
  ASSUME NEW s \in Seq(FirstSet), NEW f \in FirstSet
  PROVE  /\ ConcatFirst(Index(Append(s, f)), Append(s, f)).bytes =
              ConcatFirst(Index(s), s).bytes
                \cup (IF ConcatFirst(Index(s), s).nil THEN f.bytes ELSE {})
         /\ ConcatFirst(Index(Append(s, f)), Append(s, f)).nil <=>
              ConcatFirst(Index(s), s).nil /\ f.nil
<1> DEFINE t == Append(s, f)
           Reached(u) == {j \in DOMAIN Index(u) :
                            \A l \in 1 .. j - 1 : u[Index(u)[l]].nil}
           Nil(u) == \A j \in DOMAIN Index(u) : u[Index(u)[j]].nil
           Bytes(u) == UNION {u[Index(u)[j]].bytes : j \in Reached(u)}
<1>1. /\ DOMAIN Index(s) = 1 .. Len(s)
      /\ DOMAIN Index(t) = 1 .. Len(s) + 1
      /\ \A j \in 1 .. Len(s) : Index(s)[j] = j
      /\ \A j \in 1 .. Len(s) + 1 : Index(t)[j] = j
  BY AppendFacts DEF Index
<1>2. /\ \A j \in 1 .. Len(s) : t[j] = s[j] /\ s[j] \in FirstSet
      /\ t[Len(s) + 1] = f
      /\ Len(s) \in Nat
  BY AppendFacts
<1> HIDE DEF t
<1>3. Nil(t) <=> Nil(s) /\ f.nil
  BY <1>1, <1>2
<1>4. Reached(t) = Reached(s) \cup (IF Nil(s) THEN {Len(s) + 1} ELSE {})
  BY <1>1, <1>2
<1>5. \A j \in Reached(s) : t[Index(t)[j]].bytes = s[Index(s)[j]].bytes
  BY <1>1, <1>2
<1>6. t[Index(t)[Len(s) + 1]].bytes = f.bytes
  BY <1>1, <1>2
<1> HIDE DEF Nil, Reached
<1>7. Bytes(t) = IF Nil(s) THEN Bytes(s) \cup f.bytes ELSE Bytes(s)
  BY <1>4, <1>5, <1>6
<1>8. /\ ConcatFirst(Index(s), s) = [bytes |-> Bytes(s), nil |-> Nil(s)]
      /\ ConcatFirst(Index(t), t) = [bytes |-> Bytes(t), nil |-> Nil(t)]
  BY DEF ConcatFirst, Nil, Reached
<1>9. f.nil \in BOOLEAN
  BY DEF FirstSet
<1> HIDE DEF Bytes
<1> QED
  BY <1>3, <1>7, <1>8, <1>9 DEF t

-----------------------------------------------------------------------------
(***************************************************************************)
(* The chains.                                                             *)
(***************************************************************************)

\* The right-hand side of DenotesFirst.
Joined(s) == IF joins = "fields" THEN ConcatFirst(Index(s), s)
                                 ELSE UnionFirst(Index(s), s)

\* DenotesFirst, set and nullability apart.
Denotes ==
  /\ Meaning(acc).bytes = Joined(parts).bytes
  /\ Meaning(acc).nil <=> Joined(parts).nil

Inv == TypesHaveImpls /\ Denotes

\* Both operations yield a FIRST set.
LEMMA JoinedFacts ==
  ASSUME NEW s \in Seq(FirstSet)
  PROVE  /\ ConcatFirst(Index(s), s) \in FirstSet
         /\ UnionFirst(Index(s), s) \in FirstSet
<1>1. \A j \in DOMAIN Index(s) : s[Index(s)[j]] \in FirstSet
  BY ElementOfSeq, LenProperties DEF Index
<1>2. \A j \in DOMAIN Index(s) : s[Index(s)[j]].bytes \subseteq Byte
  BY <1>1 DEF FirstSet
<1>3. ConcatFirst(Index(s), s).bytes \subseteq Byte
  BY <1>2 DEF ConcatFirst
<1>4. UnionFirst(Index(s), s).bytes \subseteq Byte
  BY <1>2 DEF UnionFirst
<1> QED
  BY <1>3, <1>4 DEF ConcatFirst, UnionFirst, FirstSet

\* Two FIRST sets are equal if their bytes are and both or neither has nil.
LEMMA FirstSetEqual ==
  ASSUME NEW f \in FirstSet, NEW g \in FirstSet,
         f.bytes = g.bytes, f.nil <=> g.nil
  PROVE  f = g
BY DEF FirstSet

LEMMA InitHolds ==
  ASSUME Init
  PROVE  Inv
<1>1. CASE joins = "fields" /\ acc = Optional(NeverType) /\ parts = <<>>
  <2>1. NeverType \in ByteSet /\ NeverType.bytes = {}
    BY DEF NeverType, ByteSet
  <2>2. acc \in FirstType /\ Meaning(acc).bytes = {} /\ Meaning(acc).nil
    BY <1>1, <2>1, ByteSetFacts, TypeCases DEF Optional
  <2>3. Joined(parts).bytes = {} /\ Joined(parts).nil
    BY <1>1 DEF Joined, ConcatFirst, Index
  <2> QED
    BY <1>1, <2>2, <2>3 DEF Inv, TypesHaveImpls, Denotes
<1>2. CASE joins = "variants" /\ acc = NeverType /\ parts = <<>>
  <2>1. NeverType \in ByteSet /\ NeverType.bytes = {}
    BY DEF NeverType, ByteSet
  <2>2. acc \in FirstType /\ Meaning(acc).bytes = {} /\ ~Meaning(acc).nil
    BY <1>2, <2>1, ByteSetFacts, TypeCases
  <2>3. Joined(parts).bytes = {} /\ ~Joined(parts).nil
    BY <1>2 DEF Joined, UnionFirst, Index
  <2> QED
    BY <1>2, <2>2, <2>3 DEF Inv, TypesHaveImpls, Denotes
<1>3. CASE joins = "variants" /\ acc \in Pool /\ parts = <<Meaning(acc)>>
  <2>1. acc \in FirstType /\ Meaning(acc) \in FirstSet
    BY <1>3, FirstAlgebraAssumption, MeaningFacts
  <2>2. /\ parts \in Seq(FirstSet)
        /\ DOMAIN parts = {1}
        /\ parts[1] = Meaning(acc)
    BY <1>3, <2>1
  <2>3. /\ UnionFirst(Index(parts), parts).bytes = Meaning(acc).bytes
        /\ UnionFirst(Index(parts), parts).nil <=> Meaning(acc).nil
    BY <2>2 DEF UnionFirst, Index
  <2> QED
    BY <1>3, <2>1, <2>2, <2>3 DEF Inv, TypesHaveImpls, Denotes, Joined
<1> QED
  BY <1>1, <1>2, <1>3 DEF Init

\* A part whose type denotes what Concat or Union promises keeps the
\* invariant.
LEMMA FieldJoined ==
  ASSUME Inv, joins = "fields", NEW t \in FirstType, NEW f \in FirstSet,
         Join(t, f),
         Meaning(t).bytes =
           Meaning(acc).bytes \cup (IF Meaning(acc).nil THEN f.bytes ELSE {}),
         Meaning(t).nil <=> Meaning(acc).nil /\ f.nil
  PROVE  Inv'
<1>1. /\ acc' = t /\ joins' = joins /\ parts' = Append(parts, f)
      /\ parts' \in Seq(FirstSet)
  BY AppendFacts DEF Inv, TypesHaveImpls, Join
<1>2. /\ Meaning(acc).bytes = ConcatFirst(Index(parts), parts).bytes
      /\ Meaning(acc).nil <=> ConcatFirst(Index(parts), parts).nil
  BY DEF Inv, Denotes, Joined
<1>3. /\ Meaning(t).bytes = ConcatFirst(Index(Append(parts, f)), Append(parts, f)).bytes
      /\ Meaning(t).nil <=> ConcatFirst(Index(Append(parts, f)), Append(parts, f)).nil
  BY <1>2, ConcatAppend DEF Inv, TypesHaveImpls
<1>4. Joined(parts)' = ConcatFirst(Index(Append(parts, f)), Append(parts, f))
  BY <1>1 DEF Joined, Index
<1> QED
  BY <1>1, <1>3, <1>4 DEF Inv, TypesHaveImpls, Denotes

LEMMA VariantJoined ==
  ASSUME Inv, joins = "variants", NEW t \in FirstType, NEW f \in FirstSet,
         Join(t, f),
         Meaning(t).bytes = Meaning(acc).bytes \cup f.bytes,
         Meaning(t).nil <=> Meaning(acc).nil \/ f.nil
  PROVE  Inv'
<1>1. /\ acc' = t /\ joins' = joins /\ parts' = Append(parts, f)
      /\ parts' \in Seq(FirstSet)
  BY AppendFacts DEF Inv, TypesHaveImpls, Join
<1>2. /\ Meaning(acc).bytes = UnionFirst(Index(parts), parts).bytes
      /\ Meaning(acc).nil <=> UnionFirst(Index(parts), parts).nil
  BY DEF Inv, Denotes, Joined
<1>3. /\ Meaning(t).bytes = UnionFirst(Index(Append(parts, f)), Append(parts, f)).bytes
      /\ Meaning(t).nil <=> UnionFirst(Index(Append(parts, f)), Append(parts, f)).nil
  BY <1>2, UnionAppend DEF Inv, TypesHaveImpls
<1>4. Joined(parts)' = UnionFirst(Index(Append(parts, f)), Append(parts, f))
  BY <1>1 DEF Joined, Index
<1> QED
  BY <1>1, <1>3, <1>4 DEF Inv, TypesHaveImpls, Denotes

LEMMA NextHolds ==
  ASSUME Inv, [Next]_vars
  PROVE  Inv'
<1>0. acc \in FirstType
  BY DEF Inv, TypesHaveImpls
<1>1. CASE NextField
  <2>1. PICK x \in Pool : joins = "fields" /\ Join(Concat(acc, x), Meaning(x))
    BY <1>1 DEF NextField
  <2>2. x \in FirstType
    BY FirstAlgebraAssumption
  <2> QED
    BY <1>0, <2>1, <2>2, ConcatFacts, MeaningFacts, FieldJoined
<1>2. CASE NextVariant
  <2>1. PICK x \in Pool : joins = "variants" /\ Join(Union(acc, x), Meaning(x))
    BY <1>2 DEF NextVariant
  <2>2. x \in FirstType
    BY FirstAlgebraAssumption
  <2> QED
    BY <1>0, <2>1, <2>2, UnionFacts, MeaningFacts, VariantJoined
<1>3. CASE AddAlternative
  <2>1. CASE Join(NullableType(acc), EmptyFirst)
    <3>1. EmptyFirst \in FirstSet /\ EmptyFirst.bytes = {} /\ EmptyFirst.nil
      BY DEF EmptyFirst, FirstSet
    <3> QED
      BY <1>0, <1>3, <2>1, <3>1, NullableFacts, VariantJoined DEF AddAlternative
  <2>2. ASSUME NEW c \in Char, Join(WithChar(acc, c), CharFirst(c[1]))
        PROVE  Inv'
    <3>1. c[1] \in Byte
      BY FirstAlgebraAssumption, EmptySeq, ElementOfSeq, LenProperties DEF Text
    <3>2. /\ CharFirst(c[1]) \in FirstSet
          /\ CharFirst(c[1]).bytes = {c[1]} /\ ~CharFirst(c[1]).nil
      BY <3>1 DEF CharFirst, FirstSet
    <3> QED
      BY <1>0, <1>3, <2>2, <3>1, <3>2, AddBytesFacts, VariantJoined
      DEF AddAlternative, WithChar
  <2>3. ASSUME NEW c \in Char, Join(WithCharCI(acc, c), CharFirstCI(c[1]))
        PROVE  Inv'
    <3>1. Lower(c[1]) \in Byte /\ Upper(c[1]) \in Byte
      <4>1. c[1] \in Byte
        BY FirstAlgebraAssumption, EmptySeq, ElementOfSeq, LenProperties DEF Text
      <4> QED
        BY <4>1 DEF Byte, Lower, Upper
    <3>2. /\ CharFirstCI(c[1]) \in FirstSet
          /\ CharFirstCI(c[1]).bytes = {Lower(c[1]), Upper(c[1])}
          /\ ~CharFirstCI(c[1]).nil
      BY <3>1 DEF CharFirstCI, FirstSet
    <3> QED
      BY <1>0, <1>3, <2>3, <3>1, <3>2, AddBytesFacts, VariantJoined
      DEF AddAlternative, WithCharCI
  <2> QED
    BY <1>3, <2>1, <2>2, <2>3 DEF AddAlternative
<1>4. CASE UNCHANGED vars
  BY <1>4 DEF vars, Inv, TypesHaveImpls, Denotes, Joined, Index
<1> QED
  BY <1>1, <1>2, <1>3, <1>4 DEF Next

LEMMA Invariance == Spec => []Inv
<1>1. Init => Inv
  BY InitHolds
<1>2. Inv /\ [Next]_vars => Inv'
  BY NextHolds
<1> QED
  BY <1>1, <1>2, PTL DEF Spec

\* Every chain of Concat, Union, Nullable, WithChar and WithCharCI normalises:
\* OptionalFirst is only ever applied to a ByteSet.
THEOREM ChainsNormalise == Spec => []TypesHaveImpls
<1>1. Inv => TypesHaveImpls
  BY DEF Inv
<1> QED
  BY <1>1, Invariance, PTL

\* However many parts are joined and in whatever order, the type denotes the
\* FIRST set of the concatenation of the fields, or of the alternation of the
\* variants.
THEOREM ChainsDenoteFirst == Spec => []DenotesFirst
<1>1. Inv => DenotesFirst
  <2> SUFFICES ASSUME Inv PROVE Meaning(acc) = Joined(parts)
    BY DEF DenotesFirst, Joined, Index, Places
  <2>1. Meaning(acc) \in FirstSet /\ Joined(parts) \in FirstSet
    BY MeaningFacts, JoinedFacts DEF Inv, TypesHaveImpls, Joined
  <2> QED
    BY <2>1, FirstSetEqual DEF Inv, Denotes
<1> QED
  BY <1>1, Invariance, PTL
=============================================================================
