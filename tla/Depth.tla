-------------------------------- MODULE Depth --------------------------------
(***************************************************************************)
(* How deep the parser's native stack gets.  "No left recursion"           *)
(* (grammar.rs:8) is what the library asks of a grammar: the compiler      *)
(* rejects a grammar whose First would depend on itself, but not one that  *)
(* comes back to itself through a lookahead, whose First is empty.         *)
(***************************************************************************)
EXTENDS ParserInvariant, FiniteSets

CONSTANT
  LeftRank  \* a rank of the grammars by how deep calls go before any text

\* n may call its kid j at the position it started at: a field, if all before
\* it are nullable; any variant; and the kid of a wrapper or conversion.
LeftKid(n, j) ==
  Kind(n) = "seq" => \A l \in 1 .. j - 1 : First[Kids(n)[l]].nil

\* No left recursion, not through a lookahead either.
ASSUME NoLeftRecursion ==
  /\ LeftRank \in [Node -> Nat]
  /\ \A n \in Node : \A j \in 1..Len(Kids(n)) :
       LeftKid(n, j) => LeftRank[Kids(n)[j]] < LeftRank[n]

\* A program has finitely many types.
ASSUME NodesFinite == IsFiniteSet(Node)

\* The native stack is no deeper than the grammars times the positions.
StackBounded == Len(stack) <= Cardinality(Node) * (Len(input) + 1)
=============================================================================
