--------------------------- MODULE FamilyGrammars ---------------------------
(***************************************************************************)
(* Every enum of four different variants out of five, in every order, each *)
(* inside a struct: whatever the FIRST sets of the variants share, the     *)
(* dispatch table must not show.                                           *)
(***************************************************************************)
EXTENDS GrammarTable

A == 97
B == 98
C == 99

\* Grammars are named by sequences of strings, to name an enum by its variants.
Base == ( <<"a">>     :> LitDef(<<A>>)
       @@ <<"b">>     :> LitDef(<<B>>)
       @@ <<"ab">>    :> LitDef(<<A, B>>)
       @@ <<"c or b">> :> ClassDef({<<B>>, <<C>>})
       @@ <<"a?">>    :> WrapDef("opt", <<"a">>)
       @@ <<"b?">>    :> WrapDef("opt", <<"b">>)
       @@ <<"!b">>    :> WrapDef("not", <<"b">>)
       @@ <<"1">>     :> TupleDef(<< <<"ab">> >>)
       @@ <<"2">>     :> TupleDef(<< <<"a">>, <<"!b">> >>)
       @@ <<"3">>     :> TupleDef(<< <<"c or b">> >>)
       @@ <<"4">>     :> TupleDef(<< <<"b?">> >>)
       @@ <<"5">>     :> TupleDef(<< <<"a?">>, <<"b">> >>) )

Variant == {"1", "2", "3", "4", "5"}
Choice == {v \in [1..4 -> Variant] : IsInjective(v)}

EnumOf(v)   == <<"enum">> \o v
StructOf(v) == <<"struct">> \o v

\* struct Struct(Enum, StringEq!("b"))
Table ==
  Base
  @@ Explicit([n \in {EnumOf(v) : v \in Choice} |->
                 EnumDef("Enum", [i \in 1..4 |-> <<n[i + 1]>>])])
  @@ Explicit([n \in {StructOf(v) : v \in Choice} |->
                 StructDef("Struct", << <<"enum">> \o Tail(n), <<"b">> >>)])

Texts == TextsUpTo({<<A>>, <<B>>, <<C>>}, 3)
=============================================================================
