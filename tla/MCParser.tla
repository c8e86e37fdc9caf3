------------------------------ MODULE MCParser ------------------------------
(***************************************************************************)
(* The parser on the grammars of the test suite.                           *)
(***************************************************************************)
EXTENDS TestGrammars, ParserVsPeg

\* TLC keeps the value of a constant definition, but evaluates the one a
\* CONSTANT is assigned each time it is read: hence Table and Firsts.
MCDef   == Table
MCNode  == DOMAIN Table
Firsts  == Solve(MCNode, FirstOf, 8)
MCFirst == Firsts
Keeping == ClosedUnder(Table, KeepsText, 10)
MCLossless == Keeping

MCRoots == {"Lit", "LitCI", "Arrow", "Wrapper", "Digits", "SmallNumber",
            "NonZero", "Op", "NullableOpThenTail", "Outermost", "Divide", "Key"}

MCInputs == Texts

MCSchedule == <<"parse", "scan", "parse_prefix", "scan_prefix">>

\* The grammar of tests/error_behavior.rs whose enum dispatches to a nullable
\* variant, and one without any enum.
DispatchRoot == {"NullableOpThenTail"}
LiteralRoot  == {"LitCI"}
PrefixOnly   == <<"parse_prefix">>
ParseOnly    == <<"parse">>
=============================================================================
