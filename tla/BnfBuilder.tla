----------------------------- MODULE BnfBuilder -----------------------------
(***************************************************************************)
(* The Exprs of grammars: to_bnf of a grammar calls to_bnf of its parts,   *)
(* left to right, and joins what they return.  made is the stack of the    *)
(* expressions returned and not yet joined.  Choices, lookaheads and       *)
(* conditions over nothing but hidden parts are left out unless AllHidden: *)
(* a lone ! in front of one reads as part of what is shown next.           *)
(***************************************************************************)
EXTENDS Bnf

CONSTANTS
  Leaves,        \* literals, classes and rule names
  Requirements,  \* texts of side-conditions
  MaxSize,       \* a bound on the nodes of all expressions made
  AllHidden      \* a grammar all of whose parts are hidden is also built into
                 \* a choice, a lookahead or a condition

ASSUME BnfBuilderAssumption ==
  /\ "" \notin Leaves
  /\ MaxSize \in Nat
  /\ AllHidden \in BOOLEAN

VARIABLE made

RECURSIVE Size(_)
Size(e) == 1 + FoldLeft(LAMBDA n, x : n + Size(x), 0, e.args)

Room == MaxSize - FoldLeft(LAMBDA n, e : n + Size(e), 0, made)

Latest(k) == SubSeq(made, Len(made) - k + 1, Len(made))

\* The last k expressions are replaced by one made of them.
Replace(k, e) == made' = Append(SubSeq(made, 1, Len(made) - k), e)

Init == made = <<>>

\* A literal, a class or a rule of its own; a hidden grammar.
BuildLeaf ==
  /\ Room >= 1
  /\ \E t \in Leaves : Replace(0, Leaf(t))

BuildHidden ==
  /\ Room >= 1
  /\ Replace(0, Empty)

\* Structs and tuples, enums and Either.
BuildSequence ==
  \E k \in 1 .. Len(made) :
    /\ Room >= 1
    /\ Replace(k, sequence(Latest(k)))

BuildAlternation ==
  \E k \in 1 .. Len(made) :
    /\ Room >= 1
    /\ AllHidden \/ \E j \in 1 .. k : ~is_empty(Latest(k)[j])
    /\ Replace(k, alternation(Latest(k)))

\* Vec, Option, NotFollowedBy, and a validated or fallible rule.
Wrap ==
  /\ made # <<>>
  /\ Room >= 1
  /\ \/ Replace(1, repetition(Last(made)))
     \/ Replace(1, optional(Last(made)))
     \/ /\ AllHidden \/ ~is_empty(Last(made))
        /\ \/ Replace(1, NotFollowedBy(Last(made)))
           \/ \E t \in Requirements : Replace(1, side_condition(Last(made), t))

Next == BuildLeaf \/ BuildHidden \/ BuildSequence \/ BuildAlternation \/ Wrap

Spec == Init /\ [][Next]_made

-----------------------------------------------------------------------------
Parts(e) == LET RECURSIVE All(_)
                All(x) == {x} \cup UNION {All(x.args[j]) : j \in DOMAIN x.args}
            IN All(e)

\* "All instances are maintained in optimized form" (bnf.rs:14): no list in a
\* list of its kind, no list of one, nothing empty in a sequence, and nothing
\* empty repeated or optional.
Canonical ==
  made # <<>> =>
    \A e \in Parts(Last(made)) :
      /\ e.kind \in {"seq", "alt"} =>
           /\ Len(e.args) # 1
           /\ \A j \in DOMAIN e.args : e.args[j].kind # e.kind
      /\ e.kind \in {"seq", "rep", "opt"} =>
           \A j \in DOMAIN e.args : ~is_empty(e.args[j])

\* Parentheses are where they are needed: what is shown reads as what was
\* built, with each side-condition on what it was attached to.
ReadsBack ==
  made # <<>> =>
    LET e == Last(made) IN ReadBack(format(e), side_conditions(e)) = Visible(e)

\* "in first-occurrence order -- the same order format numbers their markers"
\* (bnf.rs:121): read from left to right the markers count up from 1, each
\* footnote is referred to and printed once, and no number is missing.
FootnotesMatch ==
  made # <<>> =>
    LET e == Last(made)
        markers == SelectSeq(format(e), LAMBDA t : t.sym = "^")
        numbers == Distinct([j \in DOMAIN markers |-> markers[j].n])
    IN /\ numbers = [j \in DOMAIN side_conditions(e) |-> j]
       /\ IsInjective(side_conditions(e))

\* "an entirely-hidden inner expression vanishes rather than showing as { }"
\* or as [ ] (bnf.rs:93, bnf.rs:104).
EntirelyHiddenVanishes ==
  made # <<>> =>
    LET toks == format(Last(made))
    IN \A j \in 1 .. Len(toks) - 1 :
         ~(toks[j].sym \in {"{", "["} /\ toks[j + 1].sym = Closing[toks[j].sym])
=============================================================================
