---------------------------- MODULE GrammarTable ----------------------------
(***************************************************************************)
(* Building the constants of Grammar for model checking: one operator per  *)
(* way of writing a grammar type, and the FIRST sets the compiler computes *)
(* from them.                                                              *)
(***************************************************************************)
EXTENDS Integers, Sequences, FiniteSets, SequencesExt

LOCAL Blank ==
  [kind |-> "unit", kids |-> <<>>, text |-> <<>>, chars |-> {}, name |-> "",
   inline |-> TRUE, checked |-> FALSE, invalid |-> {}, unconvertible |-> {},
   canon |-> {}]

LitDef(text)       == [Blank EXCEPT !.kind = "lit", !.text = text]
LitCIDef(text)     == [Blank EXCEPT !.kind = "litCI", !.text = text]
ClassDef(chars)    == [Blank EXCEPT !.kind = "class", !.chars = chars]
UnitDef            == Blank
WrapDef(kind, kid) == [Blank EXCEPT !.kind = kind, !.kids = <<kid>>]
Vec1Def(kid, vec)  == [Blank EXCEPT !.kind = "vec1", !.kids = <<kid, vec>>]
TupleDef(kids)     == [Blank EXCEPT !.kind = "seq", !.kids = kids]
EitherDef(kids)    == [Blank EXCEPT !.kind = "alt", !.kids = kids]

\* #[derive(Grammar)] on a struct or an enum that is not inline.
StructDef(name, kids) ==
  [TupleDef(kids) EXCEPT !.name = name, !.inline = FALSE]
EnumDef(name, kids) ==
  [EitherDef(kids) EXCEPT !.name = name, !.inline = FALSE]

\* #[grammar(validated)]
CheckedDef(def, name, invalid) ==
  [def EXCEPT !.name = name, !.checked = TRUE, !.invalid = invalid]

ConvertDef(kind, name, source, unconvertible, canon) ==
  [WrapDef(kind, source) EXCEPT !.name = name,
     !.unconvertible = unconvertible, !.canon = canon]

-----------------------------------------------------------------------------
\* f itself, which TLC then evaluates once, in full.
Explicit(f) == f @@ <<>>

\* The least solution of First[n] = FirstOf(n, First), reached from the empty
\* sets in as many steps as grammars nest.
Solve(nodes, Step(_, _), depth) ==
  LET firsts[k \in 0..depth] ==
        IF k = 0 THEN Explicit([n \in nodes |-> [bytes |-> {}, nil |-> FALSE]])
        ELSE LET below == firsts[k - 1]
             IN Explicit([n \in nodes |-> Step(n, below)])
  IN firsts[depth]

\* The nodes of a table of that depth in and below which all are Kept.
ClosedUnder(table, Kept(_), depth) ==
  LET keep[k \in 0..depth] ==
        IF k = 0 THEN {n \in DOMAIN table : Kept(table[n])}
        ELSE LET above == keep[k - 1]
             IN {n \in above : ToSet(table[n].kids) \subseteq above}
  IN keep[depth]

KeepsText(def) == def.kind # "phantom" /\ def.canon = {}

\* The texts of up to n characters.
TextsUpTo(chars, n) == {FlattenSeq(s) : s \in BoundedSeq(chars, n)}
=============================================================================
