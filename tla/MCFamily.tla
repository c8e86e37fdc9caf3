------------------------------ MODULE MCFamily ------------------------------
(***************************************************************************)
(* The parser on the family of dispatching enums.                          *)
(***************************************************************************)
EXTENDS FamilyGrammars, ParserVsPeg

MCDef   == Table
MCNode  == DOMAIN Table
Firsts  == Solve(MCNode, FirstOf, 6)
MCFirst == Firsts
MCLossless == {}

MCRoots  == {StructOf(v) : v \in Choice}
MCInputs == Texts

MCSchedule == <<"parse", "scan">>
=============================================================================
