---------------------------- MODULE FirstAlgebra ----------------------------
(***************************************************************************)
(* How FIRST sets are computed: `First` is a trait, a FIRST set a type, and *)
(* the compiler normalises chains of associated types that dispatch first  *)
(* on one operand, then on the other.  The state machine is the loop of a  *)
(* derive, a tuple or a manual impl that joins one type after the other;   *)
(* the property is that the type it ends with denotes what FirstSets says. *)
(***************************************************************************)
EXTENDS FirstSets

CONSTANTS
  Pool,     \* FIRST types of the fields, variants or chars that are joined
  Char,     \* the characters given to WithChar and WithCharCI, in UTF-8
  MaxParts  \* a bound on how many are joined

-----------------------------------------------------------------------------
(***************************************************************************)
(* The types.  AddChar, AddCharCI and UnionSet implement everything alike  *)
(* and differ only in the bytes they contain.                              *)
(***************************************************************************)

NeverType     == [head |-> "Never", bytes |-> {}]
AnyCharType   == [head |-> "AnyChar", bytes |-> Byte]
BytesType(bs) == [head |-> "Bytes", bytes |-> bs]

\* The types that implement ByteSet: none is nullable.
ByteSet == {NeverType, AnyCharType} \cup [head : {"Bytes"}, bytes : SUBSET Byte]

Optional(b) == [head |-> "OptionalFirst", of |-> b]

\* OptionalFirst takes a ByteSet, so it cannot be nested.
FirstType == ByteSet \cup [head : {"OptionalFirst"}, of : ByteSet]

\* CONTAINS_BYTE and CONTAINS_NIL.
Meaning(t) ==
  IF t.head = "OptionalFirst"
  THEN [bytes |-> t.of.bytes, nil |-> TRUE]
  ELSE [bytes |-> t.bytes, nil |-> FALSE]

ASSUME FirstAlgebraAssumption ==
  /\ Pool \subseteq FirstType
  /\ Char \subseteq Text \ {<<>>}
  /\ MaxParts \in Nat

-----------------------------------------------------------------------------
(***************************************************************************)
(* The associated types.  x is always the operand whose impl is not the    *)
(* one looked at.                                                          *)
(***************************************************************************)

\* Bug: made nullable again.
BugNullableType(t) == Optional(t)

NullableType(t) == IF t.head = "OptionalFirst" THEN t ELSE Optional(t)

\* <b as First>::UnionByteSet<x> of two byte sets.
JoinBytes(b, x) ==
  CASE b.head = "Never"   -> x
    [] b.head = "AnyChar" -> b
    [] b.head = "Bytes"   -> BytesType(b.bytes \cup x.bytes)

\* Bug: joined to a byte set, a nullable type is so no longer.
BugUnionByteSet(t, x) ==
  IF t.head = "OptionalFirst" THEN JoinBytes(t.of, x) ELSE JoinBytes(t, x)

UnionByteSet(t, x) ==
  IF t.head = "OptionalFirst"
  THEN NullableType(JoinBytes(t.of, x))
  ELSE JoinBytes(t, x)

\* Bug: nullable only if the right operand is.
BugUnion(t, x) ==
  CASE t.head = "OptionalFirst" -> UnionByteSet(x, t.of)
    [] t.head = "Never"         -> x
    [] OTHER                    -> UnionByteSet(x, t)

\* It turns the operands round, so that the impl of x decides.
Union(t, x) ==
  CASE t.head = "OptionalFirst" -> NullableType(UnionByteSet(x, t.of))
    [] t.head = "Never"         -> x
    [] OTHER                    -> UnionByteSet(x, t)

\* Bug: a nullable field before makes the whole nullable.
BugConcat(t, x) == IF t.head = "OptionalFirst" THEN Union(t, x) ELSE t

\* Nothing shows behind a type that is not nullable; behind one that is, its
\* bytes join those of x, and x decides whether the whole is nullable.
Concat(t, x) == IF t.head = "OptionalFirst" THEN Union(t.of, x) ELSE t

\* AddChar and AddCharCI: the first byte of the character.
AddBytes(t, bs) ==
  IF t.head = "OptionalFirst"
  THEN NullableType(BytesType(t.of.bytes \cup bs))
  ELSE BytesType(t.bytes \cup bs)

WithChar(t, c)   == AddBytes(t, {c[1]})
WithCharCI(t, c) == AddBytes(t, {Lower(c[1]), Upper(c[1])})

-----------------------------------------------------------------------------
VARIABLES
  joins,   \* what is joined: "fields" one after another, or "variants"
  acc,     \* the type so far
  parts    \* what was joined, as what it denotes

vars == <<joins, acc, parts>>

\* Structs and tuples start from EmptyFirst, enums from Never; Either and a
\* manual impl from some other type.
Init ==
  \/ joins = "fields" /\ acc = Optional(NeverType) /\ parts = <<>>
  \/ joins = "variants" /\ acc = NeverType /\ parts = <<>>
  \/ joins = "variants" /\ acc \in Pool /\ parts = <<Meaning(acc)>>

Join(t, part) ==
  /\ Len(parts) < MaxParts
  /\ acc' = t
  /\ parts' = Append(parts, part)
  /\ UNCHANGED joins

NextField == \E x \in Pool :
  joins = "fields" /\ Join(Concat(acc, x), Meaning(x))

NextVariant == \E x \in Pool :
  joins = "variants" /\ Join(Union(acc, x), Meaning(x))

\* What a manual impl adds is one alternative more.
AddAlternative ==
  /\ joins = "variants"
  /\ \/ Join(NullableType(acc), EmptyFirst)
     \/ \E c \in Char : \/ Join(WithChar(acc, c), CharFirst(c[1]))
                       \/ Join(WithCharCI(acc, c), CharFirstCI(c[1]))

Next == NextField \/ NextVariant \/ AddAlternative

Spec == Init /\ [][Next]_vars

-----------------------------------------------------------------------------
\* The compiler finds an impl for every type the chains mention: nothing is
\* wrapped into OptionalFirst that is nullable already.
TypesHaveImpls ==
  /\ joins \in {"fields", "variants"}
  /\ acc \in FirstType
  /\ parts \in Seq(FirstSet)

Places == [j \in DOMAIN parts |-> j]

\* The type denotes the FIRST set of the concatenation or the alternation of
\* all its parts, in whatever order nullable, empty and unknown ones come.
DenotesFirst ==
  Meaning(acc) = IF joins = "fields"
                 THEN ConcatFirst(Places, parts)
                 ELSE UnionFirst(Places, parts)
=============================================================================
