---------------------------- MODULE JsonGrammars ----------------------------
(***************************************************************************)
(* The two JSON grammars among the examples: json.rs, and json_optimized.rs *)
(* which the README calls "the same JSON grammar, hand-tuned for parsing   *)
(* throughput".  A node is named as its type, a literal as its text, and a *)
(* variant of one field stands as that field; classes are limited to ASCII. *)
(***************************************************************************)
EXTENDS GrammarTable

Code ==
  [t \in {"-", "+", ".", "0", "1", "2", "3", "4", "5", "6", "7", "8", "9", "e", "E",
          "quote", "\\", "/", "b", "f", "n", "r", "t", "u", "{", "}", "[", "]",
          ",", ":", "sp", "nl", "cr", "tab", "true", "false", "null"} |->
     CASE t = "-" -> <<45>> [] t = "+" -> <<43>> [] t = "." -> <<46>>
       [] t = "0" -> <<48>> [] t = "1" -> <<49>> [] t = "2" -> <<50>>
       [] t = "3" -> <<51>> [] t = "4" -> <<52>> [] t = "5" -> <<53>>
       [] t = "6" -> <<54>> [] t = "7" -> <<55>> [] t = "8" -> <<56>>
       [] t = "9" -> <<57>> [] t = "e" -> <<101>> [] t = "E" -> <<69>>
       [] t = "quote" -> <<34>> [] t = "\\" -> <<92>> [] t = "/" -> <<47>>
       [] t = "b" -> <<98>> [] t = "f" -> <<102>> [] t = "n" -> <<110>>
       [] t = "r" -> <<114>> [] t = "t" -> <<116>> [] t = "u" -> <<117>>
       [] t = "{" -> <<123>> [] t = "}" -> <<125>> [] t = "[" -> <<91>>
       [] t = "]" -> <<93>> [] t = "," -> <<44>> [] t = ":" -> <<58>>
       [] t = "sp" -> <<32>> [] t = "nl" -> <<10>> [] t = "cr" -> <<13>>
       [] t = "tab" -> <<9>>
       [] t = "true" -> <<116, 114, 117, 101>>
       [] t = "false" -> <<102, 97, 108, 115, 101>>
       [] t = "null" -> <<110, 117, 108, 108>>]

Tokens == [t \in DOMAIN Code |-> LitDef(Code[t])]

CharsOf(codes) == ClassDef({<<c>> : c \in codes})

-----------------------------------------------------------------------------
(***************************************************************************)
(* What the two have in common.                                            *)
(***************************************************************************)

\* VecSep<Suffix<item, Ws>, Suffix<",", Ws>>, with the nodes it consists of.
Values ==
  [ Json     |-> StructDef("Json", <<"Ws", "Element", "Ws">>),
    Object   |-> StructDef("Object", <<"{", "Ws", "membersOpt", "}">>),
    membersOpt |-> WrapDef("opt", "Members"),
    Members  |-> StructDef("Members", <<"memberSep">>),
    memberSep |-> ConvertDef("from", "VecSep", "memberSource", {}, {}),
    memberSource |-> TupleDef(<<"memberWs", "moreMembers">>),
    memberWs |-> TupleDef(<<"Member", "Ws">>),
    moreMembers |-> WrapDef("vec", "nextMember"),
    nextMember |-> TupleDef(<<",", "Ws", "Member", "Ws">>),
    Member   |-> StructDef("Member", <<"String", "Ws", ":", "Ws", "Element">>),
    Array    |-> StructDef("Array", <<"[", "Ws", "elementsOpt", "]">>),
    elementsOpt |-> WrapDef("opt", "Elements"),
    Elements |-> StructDef("Elements", <<"elementSep">>),
    elementSep |-> ConvertDef("from", "VecSep", "elementSource", {}, {}),
    elementSource |-> TupleDef(<<"elementWs", "moreElements">>),
    elementWs |-> TupleDef(<<"Element", "Ws">>),
    moreElements |-> WrapDef("vec", "nextElement"),
    nextElement |-> TupleDef(<<",", "Ws", "Element", "Ws">>) ]

Strings ==
  [ Characters |-> StructDef("Characters", <<"characterV">>),
    characterV |-> WrapDef("vec", "Character"),
    Character  |-> EnumDef("Character", <<"Normal", "escape">>),
    Normal     |-> CharsOf(32..126 \ {34, 92}),
    escape     |-> TupleDef(<<"\\", "Escape">>),
    Escape     |-> EnumDef("Escape",
                     <<"quote", "\\", "/", "b", "f", "n", "r", "t", "U">>),
    U          |-> TupleDef(<<"u", "Hex", "Hex", "Hex">>),
    Hex        |-> EnumDef("Hex", <<"Digit", "UAToF", "LAToF">>),
    UAToF      |-> CharsOf(65..70),
    LAToF      |-> CharsOf(97..102) ]

Numbers ==
  [ minusOpt |-> WrapDef("opt", "-"),
    Digits   |-> StructDef("Digits", <<"digitV">>),
    digitV   |-> WrapDef("vec", "Digit"),
    Digit    |-> EnumDef("Digit", <<"0", "OneNine">>),
    fractionOpt |-> WrapDef("opt", "Fraction"),
    Fraction |-> StructDef("Fraction", <<".", "Digits">>),
    exponentOpt |-> WrapDef("opt", "Exponent"),
    Exponent |-> StructDef("Exponent", <<"anyE", "signOpt", "Digits">>),
    anyE     |-> EitherDef(<<"E", "e">>),
    signOpt  |-> WrapDef("opt", "Sign"),
    Sign     |-> EnumDef("Sign", <<"+", "-">>),
    wV       |-> WrapDef("vec", "W"),
    W        |-> EitherDef(<<"sp", "nl", "cr", "tab">>) ]

Shared == Tokens @@ Values @@ Strings @@ Numbers

\* enum Element, which differs in how it keeps a number.
ElementDef(number) ==
  EnumDef("Element", <<"Object", "Array", "String", number, "true", "false", "null">>)

-----------------------------------------------------------------------------
(***************************************************************************)
(* What is different.                                                      *)
(***************************************************************************)

\* examples/json.rs
JsonTable == Shared @@
  [ Element |-> ElementDef("Number"),
    String  |-> StructDef("String", <<"quote", "Characters", "quote">>),
    Number  |-> StructDef("Number", <<"Integer", "fractionOpt", "exponentOpt">>),
    Integer |-> StructDef("Integer", <<"minusOpt", "oneOrMore">>),
    oneOrMore |-> EitherDef(<<"positive", "Digit">>),
    positive  |-> TupleDef(<<"OneNine", "Digits">>),
    OneNine |-> StructDef("OneNine", <<"OneNineChars">>),
    OneNineChars |-> CharsOf(49..57),
    Ws      |-> StructDef("Ws", <<"wV">>) ]

\* Bug: one digit only.
BugPosDef == TupleDef(<<"OneNine">>)

\* Nat::Pos
PosDef == TupleDef(<<"OneNine", "digitsOpt">>)

\* examples/json_optimized.rs: numbers, strings and space are not kept, and
\* digits are enums of literals, which dispatch.
JsonOptimizedTable == Shared @@
  [ Element |-> ElementDef("numberRange"),
    numberRange |-> WrapDef("box", "numberUnkept"),
    numberUnkept |-> WrapDef("phantom", "Number"),
    String  |-> StructDef("String", <<"quote", "charsRange", "quote">>),
    charsRange  |-> WrapDef("box", "charsUnkept"),
    charsUnkept |-> WrapDef("phantom", "Characters"),
    Number  |-> StructDef("Number", <<"minusOpt", "Nat", "fractionOpt", "exponentOpt">>),
    Nat     |-> EnumDef("Nat", <<"0", "Pos">>),
    Pos     |-> PosDef,
    digitsOpt |-> WrapDef("opt", "Digits"),
    OneNine |-> EnumDef("OneNine", <<"1", "2", "3", "4", "5", "6", "7", "8", "9">>),
    Ws      |-> StructDef("Ws", <<"wUnkept">>),
    wUnkept |-> WrapDef("phantom", "wV") ]
=============================================================================
