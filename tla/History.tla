------------------------------ MODULE History -------------------------------
(***************************************************************************)
(* What a failed parse reports: the `History` that collects expectations   *)
(* at the deepest position one was recorded at, the `Context` of enclosing *)
(* named rules, and the `Error` made of them.                              *)
(***************************************************************************)
EXTENDS Grammar, SequencesExt

CONSTANT
  AllNodes  \* is the feature trace_all_nodes on?  trace_one_node always is

\* Frame: a named rule and the position it was entered at.
RuleFrame == [node : STRING, pos : Nat]
Context == Seq(RuleFrame)

(***************************************************************************)
(* Expectation: the impl that failed, and the text that goes with it.  The *)
(* literal, the class name, the requirement and the conversion's message   *)
(* are determined by the node.                                             *)
(***************************************************************************)
Expectation ==
  [kind : {"StringEq", "StringEqCI", "CharClass", "Valid", "GrammarFrom"},
   of : Node, text : Text]

\* What a literal or a class expects, `text` being what is left to match.
Expected(n, text) ==
  [kind |-> CASE Kind(n) = "lit"   -> "StringEq"
              [] Kind(n) = "litCI" -> "StringEqCI"
              [] OTHER             -> "CharClass",
   of |-> n, text |-> text]

Trace == [context : Context, expectation : Expectation]
HistorySet == [pos : Nat, traces : Seq(Trace)]

EmptyHistory == [pos |-> 0, traces |-> <<>>]

\* Context::node, as Context::to_vec shows it: the innermost rule first, and
\* alone unless every node is traced.
EnterRule(context, name, pos) ==
  <<[node |-> name, pos |-> pos]>> \o (IF AllNodes THEN context ELSE <<>>)

\* Bug: a deeper failure joins the traces of the shallower ones.
BugKeepShallow(h, context, pos, expectation) ==
  IF pos < h.pos THEN h
  ELSE [pos |-> pos,
        traces |-> Append(h.traces,
                     [context |-> context, expectation |-> expectation])]

\* History::expect: a deeper failure replaces the traces, one at the same
\* position joins them, a shallower one is ignored.
Record(h, context, pos, expectation) ==
  LET trace == [context |-> context, expectation |-> expectation]
  IN CASE pos = h.pos -> [h EXCEPT !.traces = Append(@, trace)]
       [] pos > h.pos -> [pos |-> pos, traces |-> <<trace>>]
       [] pos < h.pos -> h

\* Bug: contexts are reported innermost rule first.
BugInnermostFirst(h) == h

\* History::into_error: contexts are reported outermost rule first.
IntoError(h) ==
  [pos |-> h.pos,
   traces |-> [t \in DOMAIN h.traces |->
                 [h.traces[t] EXCEPT !.context = Reverse(@)]]]

\* Bug: any rule at all stands for what it expected.
BugAnyRule(error, trace) == trace.context # <<>>

\* A rule that was entered where the parse failed.
EnteredHere(error, trace) ==
  trace.context # <<>> /\ Last(trace.context).pos = error.pos

\* Display for Error: such a rule stands for all that was expected in it, and
\* each thing is listed once.
Shown(error) ==
  { IF EnteredHere(error, trace) THEN <<"rule", Last(trace.context).node>>
    ELSE <<"expectation", trace.expectation>> : trace \in ToSet(error.traces) }
=============================================================================
