------------------------------- MODULE Parser -------------------------------
(***************************************************************************)
(* The parser tygr derives, as the call stack of a running `parse`,        *)
(* `scan`, `parse_prefix` or `scan_prefix`.  A frame is one activation of  *)
(* parse_at, scan_at or fail_at of some impl; an action is what an         *)
(* activation does between two calls of other grammars: it makes the next  *)
(* call, or takes a callee's answer and continues or returns.              *)
(***************************************************************************)
EXTENDS History

CONSTANTS
  Inputs,    \* the texts given to the parser
  Roots,     \* the grammars called from outside
  Schedule,  \* the entry points called in turn on one root and input
  Lossless   \* grammars that keep all they consume, and are made of such

Entries == {"parse", "scan", "parse_prefix", "scan_prefix"}

ASSUME ParserAssumption ==
  /\ \A s \in Inputs : s \in Text /\ IsUtf8(s)
  /\ Roots \subseteq Node
  /\ Schedule \in Seq(Entries)
  /\ AllNodes \in BOOLEAN
  /\ Lossless \subseteq Node
  /\ \A n \in Lossless : /\ Kind(n) # "phantom"
                          /\ Def[n].canon = {}
                          /\ \A j \in DOMAIN Kids(n) : Kids(n)[j] \in Lossless

VARIABLES
  input,     \* the text being parsed
  root,      \* the grammar called from outside
  phase,     \* idle, "call": the top frame goes on, "return": it got ret
  stack,     \* the activations, outermost first
  ret,       \* the last answer of a callee
  history,   \* State::history
  outcomes   \* what the calls of the schedule answered so far

vars == <<input, root, phase, stack, ret, history, outcomes>>

-----------------------------------------------------------------------------
(***************************************************************************)
(* Answers and activations.                                                *)
(***************************************************************************)

\* Option<(Self, usize)> of parse_at, the value standing as what it prints
\* and, for a Vec, whether it has items: none, or 1 for any number of them;
\* Option<usize> of scan_at; the bool of fail_at as `ok`.
Result == [ok : BOOLEAN, end : Nat, print : Text, items : {0, 1}]

Nothing == [ok |-> FALSE, end |-> 0, print |-> <<>>, items |-> 0]
Required(b) == [Nothing EXCEPT !.ok = b]

\* A match up to `end`.  Only parse_at builds a value.
Match(f, end, print, items) ==
  [ok    |-> TRUE,
   end   |-> end,
   print |-> IF f.op = "parse" THEN print ELSE <<>>,
   items |-> IF f.op = "parse" THEN items ELSE 0]

Matching == {"parse", "scan"}
Failing  == {"fail", "miss"}   \* fail_at; parse_case_miss and scan_case_miss

\* pos: where it started; cur: where it is now; i: the kid it is at; all:
\* every variant reported itself required; saved: the history set aside by
\* a lookahead.
FrameSet == [node : Node, op : Matching \cup Failing, pos : Nat, cur : Nat,
             i : Nat, out : Text, items : {0, 1}, all : BOOLEAN,
             ctx : Context, saved : HistorySet]

\* Only structs and enums push a rule frame, and only if not inline.
Context_(n, pos, ctx) ==
  IF Kind(n) \in {"seq", "alt"} /\ ~Def[n].inline
  THEN EnterRule(ctx, Def[n].name, pos)
  ELSE ctx

DISPATCH_THRESHOLD == 4

\* Enums with many variants start from a table lookup.
Dispatches(n, op) ==
  /\ Kind(n) = "alt"
  /\ op \in Matching
  /\ Len(Kids(n)) >= DISPATCH_THRESHOLD

Activation(n, op, pos, ctx) ==
  [node |-> n, op |-> op, pos |-> pos, cur |-> pos,
   i |-> IF Dispatches(n, op) THEN 0 ELSE 1,
   out |-> <<>>, items |-> 0, all |-> TRUE,
   ctx |-> Context_(n, pos, ctx), saved |-> EmptyHistory]

Top == Last(stack)

\* The top frame is of one of these kinds and operations, and its turn is
\* to go on, or to take an answer.
Going(kinds, ops) ==
  /\ phase = "call"
  /\ Kind(Top.node) \in kinds
  /\ Top.op \in ops
Answered(kinds, ops) ==
  /\ phase = "return"
  /\ stack # <<>>
  /\ Kind(Top.node) \in kinds
  /\ Top.op \in ops

Return(r) ==
  /\ phase' = "return"
  /\ ret' = r
  /\ stack' = Front(stack)
  /\ UNCHANGED <<input, root, outcomes>>

Continue(f) ==
  /\ phase' = "call"
  /\ stack' = [stack EXCEPT ![Len(stack)] = f]
  /\ UNCHANGED <<input, root, ret, history, outcomes>>

\* state.expect in the context of the top frame.
Expect(pos, expectation) == history' = Record(history, Top.ctx, pos, expectation)

-----------------------------------------------------------------------------
(***************************************************************************)
(* Which operation of a kid an operation calls.                            *)
(***************************************************************************)

\* Validation and fallible conversions need the value even to scan.
NeedsValue(n) ==
  \/ Kind(n) = "tryFrom"
  \/ Kind(n) \in {"from", "seq"} /\ Def[n].checked

\* Raw, PhantomData, NotFollowedBy and FromStr only scan.
KidOp(f) ==
  IF f.op \in Failing THEN "fail"
  ELSE IF Kind(f.node) \in {"raw", "phantom", "not", "fromStr"} THEN "scan"
  ELSE IF NeedsValue(f.node) THEN "parse"
  ELSE f.op

\* Vec1 parses as the Vec, but fails as T, then the Vec.
KidIndex(f) == IF Kind(f.node) = "vec1" /\ f.op \in Matching THEN 2 ELSE f.i

Callee(f) == Kids(f.node)[KidIndex(f)]

\* NotFollowedBy::fail_at calls nothing.
HasCall(f) ==
  /\ KidIndex(f) \in DOMAIN Kids(f.node)
  /\ ~(Kind(f.node) = "not" /\ f.op \in Failing)

-----------------------------------------------------------------------------
(***************************************************************************)
(* An entry point: a fresh History and an empty Context.                   *)
(***************************************************************************)

Entry == Schedule[Len(outcomes) + 1]

EntryOp(e) == IF e \in {"parse", "parse_prefix"} THEN "parse" ELSE "scan"

\* Bug: a call goes on with the history of the one before it.
BugReuseHistory ==
  /\ phase = "idle"
  /\ Len(outcomes) < Len(Schedule)
  /\ phase' = "call"
  /\ stack' = <<Activation(root, EntryOp(Entry), 0, <<>>)>>
  /\ UNCHANGED <<input, root, ret, history, outcomes>>

Begin ==
  /\ phase = "idle"
  /\ Len(outcomes) < Len(Schedule)
  /\ phase' = "call"
  /\ stack' = <<Activation(root, EntryOp(Entry), 0, <<>>)>>
  /\ history' = EmptyHistory
  /\ UNCHANGED <<input, root, ret, outcomes>>

\* Bug: trailing input is ignored.
BugIgnoreTrailing(e, r) == r.ok

\* parse and scan want the whole input, the prefix variants any match.
Accepted(e, r) ==
  r.ok /\ (e \in {"parse", "scan"} => r.end = Len(input))

Finish ==
  /\ phase = "return"
  /\ stack = <<>>
  /\ outcomes' = Append(outcomes,
       [entry |-> Entry,
        ok    |-> Accepted(Entry, ret),
        end   |-> ret.end,
        print |-> ret.print,
        error |-> IntoError(history)])
  /\ phase' = "idle"
  /\ UNCHANGED <<input, root, stack, ret, history>>

-----------------------------------------------------------------------------
(***************************************************************************)
(* Calls.                                                                  *)
(***************************************************************************)

Started(f) == Activation(Callee(f), KidOp(f), f.cur, f.ctx)

Call ==
  /\ phase = "call"
  /\ HasCall(Top)
  /\ Kind(Top.node) # "not"
  /\ phase' = "call"
  /\ stack' = Append(stack, Started(Top))
  /\ UNCHANGED <<input, root, ret, history, outcomes>>

\* State::probe: a lookahead runs on a throwaway history.
Probe ==
  /\ phase = "call"
  /\ HasCall(Top)
  /\ Kind(Top.node) = "not"
  /\ phase' = "call"
  /\ stack' = Append([stack EXCEPT ![Len(stack)].saved = history], Started(Top))
  /\ history' = EmptyHistory
  /\ UNCHANGED <<input, root, ret, outcomes>>

-----------------------------------------------------------------------------
(***************************************************************************)
(* Leaves: char.rs.                                                        *)
(***************************************************************************)

\* Byte j of the text at pos, compared as the literal compares characters.
Agrees(n, pos, j) ==
  /\ pos + j <= Len(input)
  /\ IF Kind(n) = "litCI"
     THEN Lower(input[pos + j]) = Lower(Def[n].text[j])
     ELSE input[pos + j] = Def[n].text[j]

AgreesUpTo(n, pos, k) == \A j \in 1..k : Agrees(n, pos, j)

\* Bug: StringEqCI does not keep the case it was written in.
BugPrintLiteral(n, pos, end) == Def[n].text

\* StringEq stores nothing and prints the literal; StringEqCI stores the text.
LiteralPrint(n, pos, end) ==
  IF Kind(n) = "lit" THEN Def[n].text ELSE Slice(input, pos, end)

\* `input[pos..]` in the literal's and the class's code would panic inside a
\* character: no step is possible there.
LiteralMatch ==
  /\ Going(Literals, Matching)
  /\ IsBoundary(input, Top.pos)
  /\ LET n == Top.node
         end == Top.pos + Len(Def[n].text)
     IN /\ AgreesUpTo(n, Top.pos, Len(Def[n].text))
        /\ Return(Match(Top, end, LiteralPrint(n, Top.pos, end), 0))
  /\ UNCHANGED history

\* The chain stops at the first character c of the literal that differs, and
\* reports the rest of the literal there.
LiteralMismatch ==
  /\ Going(Literals, Matching)
  /\ IsBoundary(input, Top.pos)
  /\ LET n == Top.node
         text == Def[n].text
     IN \E k, l \in 0..Len(text) :
          /\ IsChar(text, k, l)
          /\ AgreesUpTo(n, Top.pos, k)
          /\ ~AgreesUpTo(n, Top.pos, l)
          /\ Expect(Top.pos + k, Expected(n, Slice(text, k, Len(text))))
  /\ Return(Nothing)

\* The character at Top.pos, up to end.
CharHere(end) == IsChar(input, Top.pos, end)

\* Bug: the position moves on by one, not by the length of the character.
BugCharLength ==
  /\ Going({"class"}, Matching)
  /\ \E end \in Top.pos + 1 .. Len(input) :
       /\ CharHere(end)
       /\ Slice(input, Top.pos, end) \in Def[Top.node].chars
       /\ Return(Match(Top, Top.pos + 1, Slice(input, Top.pos, end), 0))
  /\ UNCHANGED history

CharMatch ==
  /\ Going({"class"}, Matching)
  /\ \E end \in Top.pos + 1 .. Len(input) :
       /\ CharHere(end)
       /\ Slice(input, Top.pos, end) \in Def[Top.node].chars
       /\ Return(Match(Top, end, Slice(input, Top.pos, end), 0))
  /\ UNCHANGED history

CharMismatch ==
  /\ Going({"class"}, Matching)
  /\ IsBoundary(input, Top.pos)
  /\ \A end \in Top.pos + 1 .. Len(input) :
       CharHere(end) => Slice(input, Top.pos, end) \notin Def[Top.node].chars
  /\ Expect(Top.pos, Expected(Top.node, <<>>))
  /\ Return(Nothing)

\* fail_at of a literal or class reports all of it and is required.
FailLeaf ==
  /\ Going(Literals \cup {"class"}, Failing)
  /\ Expect(Top.pos, Expected(Top.node, Def[Top.node].text))
  /\ Return(Required(TRUE))

UnitMatch ==
  /\ Going({"unit"}, Matching)
  /\ Return(Match(Top, Top.pos, <<>>, 0))
  /\ UNCHANGED history

\* fail_at of () and of a lookahead.
FailNothing ==
  /\ Going({"unit", "not"}, Failing)
  /\ Return(Required(FALSE))
  /\ UNCHANGED history

-----------------------------------------------------------------------------
(***************************************************************************)
(* Repetition: Option, Vec, Vec1.                                          *)
(***************************************************************************)

\* Bug: None ends where the failed answer says, not where it started.
BugOptionEnd ==
  /\ Answered({"opt"}, Matching)
  /\ Return(IF ret.ok THEN ret ELSE Match(Top, ret.end, <<>>, 0))
  /\ UNCHANGED history

OptionReturn ==
  /\ Answered({"opt"}, Matching)
  /\ Return(IF ret.ok THEN ret ELSE Match(Top, Top.pos, <<>>, 0))
  /\ UNCHANGED history

\* Bug: items that consume nothing are parsed on and on.
BugNoZeroWidthBreak(f, r) == r.ok

\* An item that consumed nothing ends the loop and is not kept.
OneMore(f, r) == r.ok /\ r.end # f.cur

VecItem ==
  /\ Answered({"vec"}, Matching)
  /\ OneMore(Top, ret)
  /\ Continue([Top EXCEPT !.cur = ret.end,
                          !.out = @ \o ret.print,
                          !.items = 1])

\* Bug: the last item is taken back, also if there is none.
BugPopItem ==
  /\ Answered({"vec"}, Matching)
  /\ ~OneMore(Top, ret)
  /\ Return(Match(Top, Top.cur, Top.out, Top.items - 1))
  /\ UNCHANGED history

VecEnd ==
  /\ Answered({"vec"}, Matching)
  /\ ~OneMore(Top, ret)
  /\ Return(Match(Top, Top.cur, Top.out, Top.items))
  /\ UNCHANGED history

\* parse_at looks at the items, scan_at at the end.
NoItem(f, r) == IF f.op = "parse" THEN r.items = 0 ELSE r.end = f.pos

\* The unwrap() of the Vec's answer would panic on None.
Vec1Return ==
  /\ Answered({"vec1"}, Matching)
  /\ ret.ok
  /\ Return(IF NoItem(Top, ret) THEN Nothing
            ELSE Match(Top, ret.end, ret.print, 0))
  /\ UNCHANGED history

-----------------------------------------------------------------------------
(***************************************************************************)
(* Sequence: tuples, structs, variants.                                    *)
(***************************************************************************)

\* Bug: the next field starts where the one before it did.
BugFieldInPlace ==
  /\ Answered({"seq"}, Matching)
  /\ ret.ok
  /\ Continue([Top EXCEPT !.out = @ \o ret.print, !.i = @ + 1])

NextField ==
  /\ Answered({"seq"}, Matching)
  /\ ret.ok
  /\ Continue([Top EXCEPT !.cur = ret.end,
                          !.out = @ \o ret.print,
                          !.i = @ + 1])

FieldFailed ==
  /\ Answered({"seq"}, Matching)
  /\ ~ret.ok
  /\ Return(Nothing)
  /\ UNCHANGED history

\* Bug: a scan takes what its validator would refuse.
BugScanUnvalidated(n, t) ==
  /\ Def[n].checked
  /\ Top.op = "parse"
  /\ ~Validates(n, t)

\* The validator of #[tygr(check = ..)] refuses the text.
Invalid(n, t) ==
  /\ Def[n].checked
  /\ ~Validates(n, t)

\* A verdict of the user's code against the text from pos to end.
Verdict(kind, end) ==
  [kind |-> kind, of |-> Top.node, text |-> Slice(input, Top.pos, end)]

FieldsParsed ==
  /\ Going({"seq"}, Matching)
  /\ ~HasCall(Top)
  /\ ~Invalid(Top.node, Slice(input, Top.pos, Top.cur))
  /\ Return(Match(Top, Top.cur, Top.out, 0))
  /\ UNCHANGED history

FieldsRejected ==
  /\ Going({"seq"}, Matching)
  /\ ~HasCall(Top)
  /\ Invalid(Top.node, Slice(input, Top.pos, Top.cur))
  /\ Expect(Top.cur, Verdict("Valid", Top.cur))
  /\ Return(Nothing)

-----------------------------------------------------------------------------
(***************************************************************************)
(* Alternation: enums and Either.                                          *)
(***************************************************************************)

\* Bug: a nullable variant is only taken for a byte of its FIRST set.
BugMissNil(n, pos) == pos < Len(input) /\ input[pos + 1] \in First[n].bytes

\* What the table knows of the input at pos: its next byte, or its end.
MayStart(n, pos) ==
  \/ First[n].nil
  \/ pos < Len(input) /\ input[pos + 1] \in First[n].bytes

\* The table's entry: the first variant that may start here.
DispatchHit ==
  /\ Going({"alt"}, Matching)
  /\ Top.i = 0
  /\ \E k \in DOMAIN Kids(Top.node) :
       /\ MayStart(Kids(Top.node)[k], Top.pos)
       /\ \A l \in 1 .. k - 1 : ~MayStart(Kids(Top.node)[l], Top.pos)
       /\ Continue([Top EXCEPT !.i = k])

\* No variant may: every one reports what it expects, none is tried.
DispatchMiss ==
  /\ Going({"alt"}, Matching)
  /\ Top.i = 0
  /\ \A k \in DOMAIN Kids(Top.node) : ~MayStart(Kids(Top.node)[k], Top.pos)
  /\ Continue([Top EXCEPT !.op = "miss", !.i = 1])

VariantMatched ==
  /\ Answered({"alt"}, Matching)
  /\ ret.ok
  /\ Return(ret)
  /\ UNCHANGED history

NextVariant ==
  /\ Answered({"alt"}, Matching)
  /\ ~ret.ok
  /\ Top.i < Len(Kids(Top.node))
  /\ Continue([Top EXCEPT !.i = @ + 1])

NoVariant ==
  /\ Answered({"alt"}, Matching)
  /\ ~ret.ok
  /\ Top.i = Len(Kids(Top.node))
  /\ Return(Nothing)
  /\ UNCHANGED history

-----------------------------------------------------------------------------
(***************************************************************************)
(* Lookahead, wrappers and conversions.                                    *)
(***************************************************************************)

\* Bug: what failed inside a lookahead is reported as expected.
BugProbeLeaks ==
  /\ Answered({"not"}, Matching)
  /\ Return(IF ret.ok THEN Nothing ELSE Match(Top, Top.pos, <<>>, 0))
  /\ UNCHANGED history

ProbeReturn ==
  /\ Answered({"not"}, Matching)
  /\ Return(IF ret.ok THEN Nothing ELSE Match(Top, Top.pos, <<>>, 0))
  /\ history' = Top.saved

\* Raw stores the text, PhantomData nothing, Box and Range the value.
WrapperPrint(f, r) ==
  CASE Kind(f.node) = "raw"     -> Slice(input, f.pos, r.end)
    [] Kind(f.node) = "phantom" -> <<>>
    [] OTHER                    -> r.print

Unwrap ==
  /\ Answered({"box", "raw", "phantom"}, Matching)
  /\ Return(IF ret.ok THEN Match(Top, ret.end, WrapperPrint(Top, ret), 0)
            ELSE Nothing)
  /\ UNCHANGED history

Unconvertible(n, t) ==
  /\ Kind(n) # "from"
  /\ ~Converts(n, t)

ConvertSource == Slice(input, Top.pos, ret.end)

\* FromStr converts the text, From and TryFrom the parsed source.
ConvertPrint(f, r) ==
  Printed(f.node, IF Kind(f.node) = "fromStr"
                  THEN Slice(input, f.pos, r.end) ELSE r.print)

Convert ==
  /\ Answered(Conversions, Matching)
  /\ ret.ok
  /\ ~Unconvertible(Top.node, ConvertSource)
  /\ ~Invalid(Top.node, ConvertSource)
  /\ Return(Match(Top, ret.end, ConvertPrint(Top, ret), 0))
  /\ UNCHANGED history

ConvertRejected ==
  /\ Answered(Conversions, Matching)
  /\ ret.ok
  /\ \/ /\ Unconvertible(Top.node, ConvertSource)
        /\ Expect(ret.end, Verdict("GrammarFrom", ret.end))
     \/ /\ ~Unconvertible(Top.node, ConvertSource)
        /\ Invalid(Top.node, ConvertSource)
        /\ Expect(ret.end, Verdict("Valid", ret.end))
  /\ Return(Nothing)

SourceFailed ==
  /\ Answered(Conversions, Matching)
  /\ ~ret.ok
  /\ Return(Nothing)
  /\ UNCHANGED history

-----------------------------------------------------------------------------
(***************************************************************************)
(* fail_at: report what was expected, answer whether anything was required.*)
(***************************************************************************)

\* A || B || ..: a required field ends the chain.
FailField ==
  /\ Answered({"seq", "vec1"}, Failing)
  /\ IF ret.ok
     THEN Return(ret) /\ UNCHANGED history
     ELSE Continue([Top EXCEPT !.i = @ + 1])

FailFieldsEnd ==
  /\ Going({"seq", "vec1"}, Failing)
  /\ ~HasCall(Top)
  /\ Return(Required(FALSE))
  /\ UNCHANGED history

\* Bug: an enum is required if any variant is.
BugRequiredIfAny(f, r) == f.all \/ r.ok

\* (A) & (B) & ..: every variant reports.
StillRequired(f, r) == f.all /\ r.ok

FailVariant ==
  /\ Answered({"alt"}, Failing)
  /\ Top.i < Len(Kids(Top.node))
  /\ Continue([Top EXCEPT !.i = @ + 1, !.all = StillRequired(Top, ret)])

\* The miss functions drop the verdict: the enum did not match.
FailVariantsEnd ==
  /\ Answered({"alt"}, Failing)
  /\ Top.i = Len(Kids(Top.node))
  /\ Return(IF Top.op = "miss" THEN Nothing
            ELSE Required(StillRequired(Top, ret)))
  /\ UNCHANGED history

\* Option and Vec are never required; the others ask their only kid.
FailWrapped ==
  /\ Answered(Wrappers \cup Conversions, Failing)
  /\ Return(IF Kind(Top.node) \in {"opt", "vec"} THEN Required(FALSE) ELSE ret)
  /\ UNCHANGED history

-----------------------------------------------------------------------------
(***************************************************************************)
(* Specification.                                                          *)
(***************************************************************************)

Init ==
  /\ input \in Inputs
  /\ root \in Roots
  /\ phase = "idle"
  /\ stack = <<>>
  /\ ret = Nothing
  /\ history = EmptyHistory
  /\ outcomes = <<>>

Leaf == LiteralMatch \/ LiteralMismatch \/ CharMatch \/ CharMismatch
          \/ FailLeaf \/ UnitMatch \/ FailNothing
Repetition == OptionReturn \/ VecItem \/ VecEnd \/ Vec1Return
Sequence == NextField \/ FieldFailed \/ FieldsParsed \/ FieldsRejected
Alternation == DispatchHit \/ DispatchMiss \/ VariantMatched \/ NextVariant
                 \/ NoVariant
Wrapped == ProbeReturn \/ Unwrap \/ Convert \/ ConvertRejected \/ SourceFailed
Fail == FailField \/ FailFieldsEnd \/ FailVariant \/ FailVariantsEnd
          \/ FailWrapped

\* Every call of the schedule was answered.
Answering == phase # "idle" \/ Len(outcomes) < Len(Schedule)
Done == ~Answering /\ UNCHANGED vars

Next == Begin \/ Finish \/ Call \/ Probe \/ Leaf \/ Repetition \/ Sequence
          \/ Alternation \/ Wrapped \/ Fail \/ Done

\* A parse is one thread's ordinary call: it runs on to its end.
Spec == Init /\ [][Next]_vars /\ WF_vars(Next)

-----------------------------------------------------------------------------
(***************************************************************************)
(* Properties.                                                             *)
(***************************************************************************)

\* Every variable has its type.
TypeOK ==
  /\ input \in Inputs
  /\ root \in Roots
  /\ phase \in {"idle", "call", "return"}
  /\ stack \in Seq(FrameSet)
  /\ ret \in Result
  /\ history \in HistorySet
  /\ outcomes \in Seq([entry : Entries, ok : BOOLEAN, end : Nat, print : Text,
                       error : HistorySet])

\* What the last answer is about: the call the top frame made, or the root.
AskedNode == IF stack = <<>> THEN root ELSE Callee(Top)
AskedPos  == IF stack = <<>> THEN 0 ELSE Top.cur
AskedOp   == IF stack = <<>> THEN EntryOp(Entry) ELSE KidOp(Top)

\* A grammar never matches where its FIRST set says it cannot, so the table
\* lookup of a big enum skips no variant that would have matched.
FirstSound ==
  phase = "return" /\ AskedOp \in Matching /\ ret.ok =>
    MayStart(AskedNode, AskedPos)

\* A match that consumed nothing is one of a nullable grammar.
NilSound ==
  phase = "return" /\ AskedOp \in Matching /\ ret.ok /\ ret.end = AskedPos =>
    First[AskedNode].nil

\* fail_at "returns whether this grammar is required at pos (Self::First
\* doesn't contain nil)" (grammar.rs:185).
RequiredIffNotNullable ==
  phase = "return" /\ AskedOp = "fail" => (ret.ok <=> ~First[AskedNode].nil)

\* Activations nest: each starts where its caller is, moves forward only and
\* stays inside the input, and a match ends no earlier than it started.
PositionsNest ==
  /\ \A k \in 1..Len(stack) :
       /\ stack[k].pos <= stack[k].cur
       /\ stack[k].cur <= Len(input)
       /\ k > 1 => stack[k].pos = stack[k - 1].cur
  /\ phase = "return" /\ AskedOp \in Matching /\ ret.ok =>
       AskedPos <= ret.end /\ ret.end <= Len(input)

\* A grammar is entered again while it runs only further on in the input, in
\* whatever operation and through whatever chain of calls: so the native stack
\* is at most as deep as the grammars times the length of the input.
ReentersFurtherOn ==
  \A j, k \in 1..Len(stack) :
    j < k /\ stack[j].node = stack[k].node => stack[j].pos < stack[k].pos

\* Nothing panics: every position the input is sliced at is a character
\* boundary, that of the error too.
NeverPanics ==
  /\ \A k \in 1..Len(stack) :
       IsBoundary(input, stack[k].pos) /\ IsBoundary(input, stack[k].cur)
  /\ phase = "return" /\ AskedOp \in Matching /\ ret.ok =>
       IsBoundary(input, ret.end)
  /\ IsBoundary(input, history.pos)

\* "Any one of them matching would have let the parse continue"
\* (state.rs:213): what a trace says was expected is not what the input has
\* there, also when fail_at wrote it without looking at the input.
Unmet(s, pos, e) ==
  CASE e.kind = "StringEq" ->
         \E j \in 1..Len(e.text) : pos + j > Len(s) \/ s[pos + j] # e.text[j]
    [] e.kind = "StringEqCI" ->
         \E j \in 1..Len(e.text) :
           pos + j > Len(s) \/ Lower(s[pos + j]) # Lower(e.text[j])
    [] e.kind = "CharClass" ->
         \A end \in pos + 1 .. Len(s) :
           IsChar(s, pos, end) => Slice(s, pos, end) \notin Def[e.of].chars
    [] e.kind = "Valid"       -> e.text \in Def[e.of].invalid
    [] e.kind = "GrammarFrom" -> e.text \in Def[e.of].unconvertible

AllUnmet(s, h) ==
  \A t \in 1..Len(h.traces) : Unmet(s, h.pos, h.traces[t].expectation)

TracesUnmet == AllUnmet(input, history)

\* Printing a parsed value gives back the text it was parsed from, if the
\* grammar has no PhantomData and no conversion that prints something else.
PrintsBack ==
  phase = "return" /\ AskedOp = "parse" /\ ret.ok /\ AskedNode \in Lossless =>
    ret.print = Slice(input, AskedPos, ret.end)

\* scan answers as parse does, and scan_prefix as parse_prefix, failing with
\* the same error.
SameButValue(o, p) == o.ok = p.ok /\ o.end = p.end /\ o.error = p.error
ScanAgreesWithParse ==
  \A i, j \in DOMAIN outcomes :
    (outcomes[i].entry = "parse" /\ outcomes[j].entry = "scan")
      \/ (outcomes[i].entry = "parse_prefix" /\ outcomes[j].entry = "scan_prefix")
    => SameButValue(outcomes[i], outcomes[j])

\* The error depends on the root and the input alone: on no entry point, and
\* not on whether the call asked for the whole input or a value.
ErrorsAgree ==
  \A i, j \in DOMAIN outcomes : outcomes[i].error = outcomes[j].error

\* The rules of a trace enclose one another and the failure: outermost first,
\* none entered after the position of the error.
ContextNested ==
  \A o \in DOMAIN outcomes : LET e == outcomes[o].error IN
    \A t \in DOMAIN e.traces : LET c == e.traces[t].context IN
      /\ ~AllNodes => Len(c) <= 1
      /\ \A i \in DOMAIN c : c[i].pos <= e.pos
      /\ \A i \in 2..Len(c) : c[i - 1].pos <= c[i].pos

\* Every call of the schedule is answered: no grammar without left recursion
\* makes the parser loop, also not a repetition of something empty.
EveryCallReturns == <>(Len(outcomes) = Len(Schedule))
=============================================================================
