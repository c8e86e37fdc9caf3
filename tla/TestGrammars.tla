---------------------------- MODULE TestGrammars ----------------------------
(***************************************************************************)
(* The grammars of the test suite and of the documentation, shortened      *)
(* where a literal is longer than it needs to be, and texts for them.      *)
(***************************************************************************)
EXTENDS GrammarTable

A == 97
B == 98
F == 102
K == 107
O == 111
X == 120
Y == 121
Plus == 43
Minus == 45
Star == 42
Slash == 47
Gt == 62
Colon == 58
D0 == 48
D7 == 55
D9 == 57

Digit == {<<D0>>, <<D7>>, <<D9>>}

\* u8::from_str rejects what is above 255 and prints without leading zeros.
TooBig == {<<a[1], b[1], c[1]>> : a \in {<<D7>>, <<D9>>}, b \in Digit, c \in Digit}
Trimmed == {<< <<D0, d[1]>>, d>> : d \in Digit}
             \cup {<< <<D0, D0, d[1]>>, d>> : d \in Digit}
             \cup {<< <<D0, D7, d[1]>>, <<D7, d[1]>> >> : d \in Digit}
             \cup {<< <<D0, D9, d[1]>>, <<D9, d[1]>> >> : d \in Digit}
LeadingZero == {<<D0>>} \cup {<<D0>> \o t : t \in TextsUpTo(Digit, 3)}

Table ==
  [ foo      |-> LitDef(<<F, O, O>>),
    Lit      |-> StructDef("Lit", <<"foo">>),
    fooCI    |-> LitCIDef(<<F - 32, O>>),
    LitCI    |-> StructDef("LitCI", <<"fooCI">>),
    arrow    |-> LitDef(<<Minus, Gt>>),
    Arrow    |-> StructDef("Arrow", <<"arrow">>),
    Wrapper  |-> StructDef("Wrapper", <<"Lit">>),
    digit    |-> ClassDef(Digit),
    digitV   |-> WrapDef("vec", "digit"),
    digitS   |-> TupleDef(<<"digit", "digitV">>),
    digits   |-> WrapDef("raw", "digitS"),
    Digits   |-> StructDef("Digits", <<"digits">>),
    SmallNumber |-> ConvertDef("fromStr", "SmallNumber", "digits", TooBig, Trimmed),
    NonZero  |-> CheckedDef(StructDef("NonZero", <<"digits">>), "NonZero", LeadingZero),
    plus     |-> LitDef(<<Plus>>),
    minus    |-> LitDef(<<Minus>>),
    star     |-> LitDef(<<Star>>),
    slash    |-> LitDef(<<Slash>>),
    y        |-> LitDef(<<Y>>),
    tail     |-> LitDef(<<A, B>>),
    b        |-> LitDef(<<B>>),
    k        |-> LitDef(<<K>>),
    colon    |-> LitDef(<<Colon>>),
    Add      |-> TupleDef(<<"plus">>),
    Sub      |-> TupleDef(<<"minus">>),
    Mul      |-> TupleDef(<<"star">>),
    Div      |-> TupleDef(<<"slash">>),
    Op       |-> EnumDef("Op", <<"Add", "Sub", "Mul", "Div">>),
    yOpt     |-> WrapDef("opt", "y"),
    Maybe    |-> TupleDef(<<"yOpt">>),
    NullableOp |-> EnumDef("NullableOp", <<"Add", "Sub", "Mul", "Maybe">>),
    NullableOpThenTail |-> StructDef("NullableOpThenTail", <<"NullableOp", "tail">>),
    OuterA   |-> TupleDef(<<"NullableOpThenTail">>),
    OuterB   |-> TupleDef(<<"b">>),
    OuterC   |-> TupleDef(<<"k">>),
    OuterD   |-> TupleDef(<<"colon">>),
    Outermost |-> EnumDef("Outermost", <<"OuterA", "OuterB", "OuterC", "OuterD">>),
    \* "/" not followed by "/"; "k" followed by ":"
    noSlash  |-> WrapDef("not", "slash"),
    Divide   |-> StructDef("Divide", <<"slash", "noSlash">>),
    noColon  |-> WrapDef("not", "colon"),
    colonAhead |-> WrapDef("not", "noColon"),
    Key      |-> StructDef("Key", <<"k", "colonAhead">>) ]

\* Every text of up to three of the characters the literals are made of, and
\* of up to four digits.
Texts == TextsUpTo({<<F>>, <<O>>, <<A>>, <<B>>, <<Y>>}, 3)
              \cup TextsUpTo({<<Minus>>, <<Gt>>, <<Plus>>, <<Slash>>}, 2)
              \cup TextsUpTo({<<K>>, <<Colon>>, <<X>>}, 2)
              \cup TextsUpTo({<<O>>, <<F - 32>>, <<O - 32>>}, 2)
              \cup TextsUpTo(Digit, 3)
=============================================================================
