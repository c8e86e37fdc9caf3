---------------------------- MODULE Presentation ----------------------------
(***************************************************************************)
(* A grammar is shown by to_bnf and parsed by parse_at, two functions that *)
(* are generated side by side and that nothing but their generator relates. *)
(* Here somebody recognises texts with nothing but the rules as shown, read *)
(* as a PEG, which is what tygr calls its grammars, and is compared with   *)
(* the parser.                                                             *)
(***************************************************************************)
EXTENDS ParserVsPeg

EBNF == INSTANCE Bnf

CONSTANTS
  Hidden,  \* #[grammar(hidden)] and Hidden<T>
  Rules,   \* GrammarRules, shown by name: neither hidden nor inline
  Listed   \* the rules somebody recognises texts with

\* Only a rule of its own shows that it can fail to convert.
ASSUME PresentationAssumption ==
  /\ Hidden \subseteq Node
  /\ Rules \subseteq Node \ Hidden
  /\ Listed \subseteq Rules
  /\ \A n \in Node \ Rules : Kind(n) \in Conversions =>
       Def[n].unconvertible = {} /\ ~Def[n].checked

-----------------------------------------------------------------------------
(***************************************************************************)
(* to_bnf and to_bnf_def.  Literals and classes are shown as themselves,   *)
(* and the requirement of a validated type stands as the type.             *)
(***************************************************************************)

BeConvertible == "be convertible"

\* Bug: that a type is validated is not shown.
BugCondition(holds, e, text) == e

Condition(holds, e, text) == IF holds THEN EBNF!side_condition(e, text) ELSE e

RECURSIVE to_bnf(_), to_bnf_def(_)

\* How others refer to n.
to_bnf(n) ==
  CASE n \in Hidden -> EBNF!Empty
    [] n \in Rules  -> EBNF!Leaf(n)
    [] OTHER        -> to_bnf_def(n)

\* What n consists of.
to_bnf_def(n) ==
  LET kids == [j \in DOMAIN Kids(n) |-> to_bnf(Kids(n)[j])]
      shape ==
        CASE Kind(n) \in Literals \cup {"class"} -> EBNF!Leaf(n)
          [] Kind(n) = "unit" -> EBNF!Empty
          [] Kind(n) = "opt"  -> EBNF!optional(kids[1])
          [] Kind(n) = "vec"  -> EBNF!repetition(kids[1])
          [] Kind(n) = "not"  -> EBNF!NotFollowedBy(kids[1])
          [] Kind(n) \in {"seq", "vec1"} -> EBNF!sequence(kids)
          [] Kind(n) = "alt"  -> EBNF!alternation(kids)
          [] Kind(n) \in {"fromStr", "tryFrom"} ->
               EBNF!side_condition(kids[1], BeConvertible)
          [] OTHER -> kids[1]
  IN Condition(Def[n].checked, shape, n)

\* What a reader of bnf_rule() sees: the line, and the footnotes below it.
bnf_rule(n) ==
  LET e == to_bnf_def(n)
  IN [line |-> EBNF!format(e), notes |-> EBNF!side_conditions(e)]

ShownRules == [n \in Rules |->
  EBNF!ReadBack(bnf_rule(n).line, bnf_rule(n).notes)] @@ <<>>

-----------------------------------------------------------------------------
(***************************************************************************)
(* Recognising with what is shown.                                         *)
(***************************************************************************)

NoMatch == -1

\* A side-condition of that rule, of the text it stands behind.
Holds(rule, condition, text) ==
  IF condition = BeConvertible THEN Converts(rule, text)
                               ELSE Validates(condition, text)

\* Where e, which rule's line contains, ends if it is matched at p.
RECURSIVE Recognise(_, _, _, _)
Recognise(rule, e, s, p) ==
  LET Here(x) == Recognise(rule, x, s, p)
      inner == Here(e.args[1])
  IN CASE e.kind = "leaf" ->
            IF e.of \in Rules THEN Recognise(e.of, ShownRules[e.of], s, p)
            ELSE LET r == Reading(e.of, s, p, <<>>)
                 IN IF r.ok THEN r.end ELSE NoMatch
       [] e.kind = "seq" ->
            FoldLeft(LAMBDA q, x : IF q = NoMatch THEN q
                                   ELSE Recognise(rule, x, s, q), p, e.args)
       [] e.kind = "alt" ->
            LET hits == {j \in DOMAIN e.args : Here(e.args[j]) # NoMatch}
            IN IF hits = {} THEN NoMatch ELSE Here(e.args[Min(hits)])
       [] e.kind = "rep" ->
            IF inner \in {NoMatch, p} THEN p ELSE Recognise(rule, e, s, inner)
       [] e.kind = "opt"  -> IF inner = NoMatch THEN p ELSE inner
       [] e.kind = "not"  -> IF inner = NoMatch THEN p ELSE NoMatch
       [] e.kind = "cond" ->
            IF inner # NoMatch /\ Holds(rule, e.of, Slice(s, p, inner))
            THEN inner ELSE NoMatch

RecognisedUpTo ==
  [n \in Listed, s \in Inputs |-> Recognise(n, ShownRules[n], s, 0)] @@ <<>>

SameAnswer(answer, end) ==
  /\ answer.ok <=> Accepted(answer.entry, [ok |-> end # NoMatch, end |-> end])
  /\ answer.ok => answer.end = end

\* The shown grammar is the parsed one: somebody who has only the rules as
\* they are printed, footnotes included, accepts the same texts up to the same
\* place.
ReadsAsParsed ==
  root \in Listed => \A o \in DOMAIN outcomes :
    SameAnswer(outcomes[o], RecognisedUpTo[root, input])
=============================================================================
