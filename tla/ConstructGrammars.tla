-------------------------- MODULE ConstructGrammars --------------------------
(***************************************************************************)
(* Grammars that put the library's constructs together: recursion through  *)
(* Box, lists with separators, repetition of what may be empty, lookahead  *)
(* at lookahead, conversions, validation, characters that share a lead     *)
(* byte, and an enum whose dispatch table misses on each of them.          *)
(***************************************************************************)
EXTENDS GrammarTable

A == 97
B == 98
Comma == 44
Open == 91
Close == 93
EAcute == <<195, 169>>
EGrave == <<195, 168>>
EAcuteCapital == <<195, 137>>

Table ==
  [ a      |-> LitDef(<<A>>),
    b      |-> LitDef(<<B>>),
    ab     |-> LitDef(<<A, B>>),
    comma  |-> LitDef(<<Comma>>),
    open   |-> LitDef(<<Open>>),
    close  |-> LitDef(<<Close>>),
    acute  |-> LitDef(EAcute \o <<B>>),
    acuteCI |-> LitCIDef(EAcute \o <<B - 32>>),
    grave  |-> ClassDef({EGrave}),

    \* enum Value { Array(Open, Option<VecSep<Value, Comma>>, Close), Atom(A) }
    valueBox |-> WrapDef("box", "Value"),
    sepItem  |-> TupleDef(<<"comma", "Value">>),
    rest     |-> WrapDef("vec", "sepItem"),
    source   |-> TupleDef(<<"valueBox", "rest">>),
    VecSep   |-> ConvertDef("from", "VecSep", "source", {}, {}),
    values   |-> WrapDef("opt", "VecSep"),
    Array    |-> TupleDef(<<"open", "values", "close">>),
    Atom     |-> TupleDef(<<"a">>),
    Value    |-> EnumDef("Value", <<"Array", "Atom">>),

    \* Vec<Option<A>> and Vec1<Option<A>> before a B
    aOpt     |-> WrapDef("opt", "a"),
    aOptOpt  |-> WrapDef("opt", "aOpt"),
    as       |-> WrapDef("vec", "aOptOpt"),
    as1      |-> Vec1Def("aOptOpt", "as"),
    Many     |-> StructDef("Many", <<"as", "b">>),
    Some     |-> StructDef("Some", <<"as1", "b">>),

    \* PhantomData and () print nothing, and Vec<()> has no items
    unseen   |-> WrapDef("phantom", "Value"),
    unit     |-> UnitDef,
    units    |-> WrapDef("vec", "unit"),
    Unseen   |-> StructDef("Unseen", <<"units", "unseen", "b">>),

    \* Either<é B, Either<è, É B ignoring ASCII case>>
    orAny    |-> EitherDef(<<"grave", "acuteCI">>),
    Accents  |-> EitherDef(<<"acute", "orAny">>),

    \* TryFrom that rejects some words, and From, validated, that prints "aaa"
    \* as "a"
    letter   |-> EitherDef(<<"a", "b">>),
    letterV  |-> WrapDef("vec", "letter"),
    letters  |-> Vec1Def("letter", "letterV"),
    Word     |-> ConvertDef("tryFrom", "Word", "letters",
                   {<<A, A>>, <<B>>}, {}),
    Checked  |-> CheckedDef(ConvertDef("from", "Checked", "letters",
                   {}, {<< <<A, A, A>>, <<A>> >>}), "Checked", {<<B>>, <<B, A>>}),
    wordB    |-> TupleDef(<<"Word", "comma">>),
    checkedB |-> CheckedDef(TupleDef(<<"Checked">>), "Words", {<<A, B>>}),
    Words    |-> EnumDef("Words", <<"wordB", "checkedB">>),

    \* FollowedBy<A>, then something that starts elsewhere
    notA     |-> WrapDef("not", "a"),
    followA  |-> WrapDef("not", "notA"),
    lookB    |-> WrapDef("not", "Word"),
    Ahead    |-> StructDef("Ahead", <<"followA", "lookB", "letters">>),

    \* enum Big: no two variants fail in the same way
    rawSome  |-> WrapDef("raw", "letters"),
    number   |-> ConvertDef("fromStr", "number", "rawSome", {<<B>>}, {}),
    V1       |-> TupleDef(<<"notA", "number">>),
    lead     |-> TupleDef(<<"unit", "followA">>),
    V2       |-> TupleDef(<<"lead", "valueBox", "b">>),
    V3       |-> TupleDef(<<"aOptOpt", "Word">>),
    V4       |-> CheckedDef(TupleDef(<<"acuteCI", "as">>), "Big",
                           {EAcute \o <<B>>}),
    Big      |-> EnumDef("Big", <<"V1", "V2", "V3", "V4">>),
    InBig    |-> StructDef("InBig", <<"as", "Big">>) ]

\* Of a's, brackets and commas up to four, and of the other characters up to
\* three.
Texts == TextsUpTo({<<A>>, <<Open>>, <<Comma>>, <<Close>>}, 4)
           \cup TextsUpTo({<<A>>, <<B>>, <<Comma>>}, 4)
           \cup TextsUpTo({<<B>>, EAcute, EGrave, EAcuteCapital}, 2)
           \cup { <<Open, A, Comma, A, Close>>,
                  <<Open, Open, A, Close, Comma, A, Close>>,
                  <<Open, A, Comma, Open, Comma, Close, Close>>,
                  <<Open, Open, Open, Close, Close, Comma, A>> }
=============================================================================
