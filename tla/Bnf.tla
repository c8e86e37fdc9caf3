--------------------------------- MODULE Bnf ---------------------------------
(***************************************************************************)
(* How a grammar is shown: bnf.rs.  An Expr is built bottom-up, to_bnf of  *)
(* each grammar calling a constructor on what to_bnf of its parts returned; *)
(* then it is formatted, with numbered markers for its side-conditions.    *)
(* A reader of the notation is defined beside the formatter, so that what  *)
(* is shown can be compared with what was built.                           *)
(***************************************************************************)
EXTENDS Integers, SequencesExt

(***************************************************************************)
(* Expr.  StringEq, StringEqCI, RuleRef and CharOf are leaves, each shown  *)
(* as one token; of: a leaf's token, or the text of a side-condition.      *)
(***************************************************************************)

Node_(kind, of, args) == [kind |-> kind, of |-> of, args |-> args]

Leaf(t) == Node_("leaf", t, <<>>)

\* What a hidden grammar contributes.
Empty == Node_("seq", "", <<>>)

is_empty(e) == e = Empty

\* Bug: a list of one stays a list.
BugJoined(kind, es) ==
  Node_(kind, "", FlattenSeq([j \in DOMAIN es |->
                     IF es[j].kind = kind THEN es[j].args ELSE <<es[j]>>]))

\* Lists of the same kind are spliced, and a list of one is its element.
Joined(kind, es) ==
  LET flat == FlattenSeq([j \in DOMAIN es |->
                IF es[j].kind = kind THEN es[j].args ELSE <<es[j]>>])
  IN IF Len(flat) = 1 THEN flat[1] ELSE Node_(kind, "", flat)

sequence(es)    == Joined("seq", es)
alternation(es) == Joined("alt", es)

remove_empties(e) ==
  IF e.kind # "seq" THEN e
  ELSE LET kept == SelectSeq(e.args, LAMBDA x : ~is_empty(x))
       IN IF Len(kept) = 1 THEN kept[1] ELSE Node_("seq", "", kept)

\* Nothing visible is neither repeated nor optional.
Enclosed(kind, e) ==
  LET inner == remove_empties(e)
  IN IF is_empty(inner) THEN inner ELSE Node_(kind, "", <<inner>>)

repetition(e) == Enclosed("rep", e)
optional(e)   == Enclosed("opt", e)

NotFollowedBy(e) == Node_("not", "", <<e>>)

side_condition(e, text) == Node_("cond", text, <<e>>)

-----------------------------------------------------------------------------
(***************************************************************************)
(* Footnotes and formatting, to tokens.                                    *)
(***************************************************************************)

\* Bug: the outer condition is counted before those inside.
RECURSIVE BugConditions(_)
BugConditions(e) ==
  LET inner == FlattenSeq([j \in DOMAIN e.args |-> BugConditions(e.args[j])])
  IN IF e.kind = "cond" THEN <<e.of>> \o inner ELSE inner

\* collect_side_conditions, before duplicates are dropped.
RECURSIVE Conditions(_)
Conditions(e) ==
  LET inner == FlattenSeq([j \in DOMAIN e.args |-> Conditions(e.args[j])])
  IN IF e.kind = "cond" THEN Append(inner, e.of) ELSE inner

\* In the order of first occurrence.
Distinct(s) ==
  FoldLeft(LAMBDA seen, t : IF Contains(seen, t) THEN seen ELSE Append(seen, t),
           <<>>, s)

side_conditions(e) == Distinct(Conditions(e))

AlternationPrec == 1
SequencePrec    == 2
AtomPrec        == 3

\* Bug: a side-condition binds like an atom.
BugPrec(e) ==
  CASE is_empty(e)     -> AtomPrec
    [] e.kind = "alt"  -> AlternationPrec
    [] e.kind = "seq"  -> SequencePrec
    [] OTHER           -> AtomPrec

prec(e) ==
  CASE is_empty(e)                -> AtomPrec
    [] e.kind \in {"alt", "cond"} -> AlternationPrec
    [] e.kind = "seq"             -> SequencePrec
    [] OTHER                      -> AtomPrec

\* A token: a leaf's text, or a symbol; ^n carries its number.
Shown(t)  == [leaf |-> t, sym |-> "", n |-> 0]
Symbol(s) == [leaf |-> "", sym |-> s, n |-> 0]
Marker(n) == [leaf |-> "", sym |-> "^", n |-> n]

\* The place of a text in the notes; the unwrap() of position() panics at 0.
Number(text, notes) == IF Contains(notes, text) THEN SelectInSeq(notes, LAMBDA t : t = text) ELSE 0

RECURSIVE format_internal(_, _, _)
format_internal(e, min_prec, notes) ==
  LET \* format_list
      ListOf(sep, min) ==
        FoldLeft(LAMBDA out, x :
                   IF is_empty(x) THEN out
                   ELSE (IF out = <<>> THEN out ELSE out \o sep)
                          \o format_internal(x, min, notes),
                 <<>>, e.args)
      Inner(min) == format_internal(e.args[1], min, notes)
      body ==
        CASE e.kind = "leaf" -> <<Shown(e.of)>>
          [] e.kind = "seq"  -> ListOf(<<>>, SequencePrec)
          [] e.kind = "alt"  -> ListOf(<<Symbol("|")>>, AlternationPrec)
          [] e.kind = "rep"  -> <<Symbol("{")>> \o Inner(AlternationPrec) \o <<Symbol("}")>>
          [] e.kind = "opt"  -> <<Symbol("[")>> \o Inner(AlternationPrec) \o <<Symbol("]")>>
          [] e.kind = "not"  -> <<Symbol("!")>> \o Inner(AtomPrec)
          [] e.kind = "cond" -> Inner(AtomPrec) \o <<Marker(Number(e.of, notes))>>
  IN IF prec(e) < min_prec
     THEN <<Symbol("(")>> \o body \o <<Symbol(")")>>
     ELSE body

format(e) == format_internal(e, AlternationPrec, side_conditions(e))

-----------------------------------------------------------------------------
(***************************************************************************)
(* The reader of what is shown: | binds loosest, then juxtaposition, then  *)
(* ^n, then !.  Each operator reads from token i on, and answers with the  *)
(* expression and the index behind it.                                     *)
(***************************************************************************)

At(toks, i) == IF i <= Len(toks) THEN toks[i] ELSE Symbol("end")

Read_(e, i) == [e |-> e, i |-> i]
Missing == Node_("missing", "", <<>>)

Listing(kind, es) == IF Len(es) = 1 THEN es[1] ELSE Node_(kind, "", es)

Closing == [s \in {"(", "{", "["} |->
              CASE s = "(" -> ")" [] s = "{" -> "}" [] s = "[" -> "]"]
Within(s, e) ==
  CASE s = "(" -> e
    [] s = "{" -> Node_("rep", "", <<e>>)
    [] s = "[" -> Node_("opt", "", <<e>>)

RECURSIVE ReadItem(_, _, _), ReadMarkers(_, _, _), ReadSequence(_, _, _, _),
          ReadChoice(_, _, _, _)

ReadItem(toks, notes, i) ==
  LET t == At(toks, i)
  IN CASE t.leaf # "" -> Read_(Leaf(t.leaf), i + 1)
       [] t.sym = "!" -> LET r == ReadItem(toks, notes, i + 1)
                         IN Read_(NotFollowedBy(r.e), r.i)
       [] t.sym \in DOMAIN Closing ->
            LET r == ReadChoice(toks, notes, i + 1, <<>>)
            IN IF At(toks, r.i).sym = Closing[t.sym]
               THEN Read_(Within(t.sym, r.e), r.i + 1)
               ELSE Read_(Missing, r.i)
       [] OTHER -> Read_(Missing, i)

ReadMarkers(toks, notes, r) ==
  LET t == At(toks, r.i)
  IN IF t.sym = "^" /\ t.n \in DOMAIN notes
     THEN ReadMarkers(toks, notes, Read_(side_condition(r.e, notes[t.n]), r.i + 1))
     ELSE r

ReadSequence(toks, notes, i, es) ==
  IF At(toks, i).sym \in {"|", ")", "}", "]", "^", "end"}
  THEN Read_(Listing("seq", es), i)
  ELSE LET r == ReadMarkers(toks, notes, ReadItem(toks, notes, i))
       IN ReadSequence(toks, notes, r.i, Append(es, r.e))

ReadChoice(toks, notes, i, es) ==
  LET r  == ReadSequence(toks, notes, i, <<>>)
      now == Append(es, r.e)
  IN IF At(toks, r.i).sym = "|"
     THEN ReadChoice(toks, notes, r.i + 1, now)
     ELSE Read_(Listing("alt", now), r.i)

\* What a reader of the whole makes of it.
ReadBack(toks, notes) ==
  LET r == ReadChoice(toks, notes, 1, <<>>)
  IN IF r.i = Len(toks) + 1 THEN r.e ELSE Missing

\* The expression without the hidden variants of its alternations.
RECURSIVE Visible(_)
Visible(e) ==
  LET shown == SelectSeq(e.args, LAMBDA x : ~is_empty(x))
  IN IF e.kind = "alt"
     THEN Listing("alt", [j \in DOMAIN shown |-> Visible(shown[j])])
     ELSE [e EXCEPT !.args = [j \in DOMAIN e.args |-> Visible(e.args[j])]]
=============================================================================
