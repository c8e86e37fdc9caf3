----------------------------- MODULE SafetyProofs -----------------------------
(***************************************************************************)
(* Proof that no input makes the parser panic: every position it slices    *)
(* the input at, and that of the error, is between two characters; and that *)
(* the rules of a trace enclose one another and the failure.  Then, of      *)
(* grammars without left recursion, that the native stack is bounded by the *)
(* input.                                                                  *)
(***************************************************************************)
EXTENDS ParserProofs, Depth, FiniteSetTheorems

-----------------------------------------------------------------------------
(***************************************************************************)
(* Boundaries.                                                             *)
(***************************************************************************)

\* As far as a literal agrees with the input, characters end together.
LEMMA AgreesToBoundary ==
  ASSUME NEW n \in Node, Kind(n) \in Literals, input \in Text, IsUtf8(input),
         NEW p \in Nat, IsBoundary(input, p),
         NEW k \in Nat, IsBoundary(Def[n].text, k), AgreesUpTo(n, p, k)
  PROVE  IsBoundary(input, p + k)
<1> DEFINE text == Def[n].text
<1>1. text \in Text /\ IsUtf8(text) /\ Len(text) \in Nat /\ Len(input) \in Nat
  BY NodeFacts, LenProperties DEF WellFormed, Text
<1>2. CASE k = 0
  BY <1>2
<1>3. CASE k # 0
  <2>1. PICK j \in 0 .. k - 1 : IsBoundary(text, j) /\ k = j + Utf8Len(text[j + 1])
    BY <1>1, <1>3, CharacterBefore
  <2>2. j + 1 \in 1..k /\ j + 1 \in 1..Len(text) /\ j \in Nat /\ j < Len(text)
    BY <1>1 DEF IsBoundary
  <2>3. Agrees(n, p, j + 1)
    BY <2>2 DEF AgreesUpTo
  <2> DEFINE here == input[p + (j + 1)]
  <2>4. p + (j + 1) \in 1..Len(input)
    BY <1>1, <2>2, <2>3 DEF Agrees
  <2>5. here \in Byte /\ text[j + 1] \in Byte /\ Lower(here) = Lower(text[j + 1])
    <3>1. here \in Byte /\ text[j + 1] \in Byte
      BY <1>1, <2>2, <2>4, TextByte
    <3> QED
      BY <2>3, <3>1 DEF Agrees
  <2> HIDE DEF here
  <2>6. ~IsContinuation(here) /\ Utf8Len(here) = Utf8Len(text[j + 1])
    <3>1. ~IsContinuation(text[j + 1])
      BY <2>1, <2>2 DEF IsBoundary
    <3> QED
      BY <2>5, <3>1, SameShape
  <2>7. (p + j) + 1 = p + (j + 1) /\ p + j \in 0 .. Len(input) - 1
        /\ p + j \in 0..Len(input)
    BY <1>1, <2>2, <2>4
  <2>8. IsBoundary(input, p + j)
    BY <2>6, <2>7 DEF IsBoundary, here
  <2>9. IsChar(input, p + j, (p + j) + Utf8Len(here))
    BY <2>7, <2>8 DEF IsUtf8, here
  <2>10. (p + j) + Utf8Len(here) = p + k
    BY <2>1, <2>2, <2>6 DEF Utf8Len
  <2> QED
    BY <2>9, <2>10 DEF IsChar
<1> QED
  BY <1>2, <1>3

-----------------------------------------------------------------------------
(***************************************************************************)
(* Contexts and histories.                                                 *)
(***************************************************************************)

\* The empty context and the empty history are in order.
LEMMA EmptySafe ==
  ASSUME NEW s \in Text, IsUtf8(s), NEW p
  PROVE  Encloses(<<>>, p) /\ HistorySafe(s, EmptyHistory)
<1>1. Len(<<>>) = 0 /\ 1..0 = {} /\ 2..0 = {}
  BY EmptySeq
<1> QED
  BY <1>1 DEF Encloses, HistorySafe, EmptyHistory, IsUtf8

\* What encloses a position encloses what is further on.
LEMMA EnclosesLater ==
  ASSUME NEW c \in Context, NEW p \in Nat, NEW q \in Nat, p <= q, Encloses(c, p)
  PROVE  Encloses(c, q)
<1>1. \A j \in 1..Len(c) : c[j] \in RuleFrame
  BY ElementOfSeq DEF Context
<1>2. \A j \in 1..Len(c) : c[j].pos \in Nat
  BY <1>1 DEF RuleFrame
<1> QED
  BY <1>2 DEF Encloses

\* The context an activation starts with encloses where it starts.
LEMMA StartedIn ==
  ASSUME NEW n \in Node, NEW p \in Nat, NEW c \in Context, Encloses(c, p)
  PROVE  Encloses(Context_(n, p, c), p)
<1> DEFINE rule  == [node |-> Def[n].name, pos |-> p]
           outer == IF AllNodes THEN c ELSE <<>>
           all   == <<rule>> \o outer
<1>1. rule \in RuleFrame /\ rule.pos = p
  BY NodeFacts DEF DefSet, RuleFrame
<1>2. /\ outer \in Seq(RuleFrame) /\ Len(outer) \in Nat
      /\ ~AllNodes => Len(outer) = 0
      /\ \A j \in 1..Len(outer) : outer[j].pos <= p
      /\ \A j \in 2..Len(outer) : outer[j].pos <= outer[j - 1].pos
  <2>1. CASE AllNodes
    BY <2>1, LenProperties DEF Encloses, Context
  <2>2. CASE ~AllNodes
    <3>1. outer = <<>>
      BY <2>2
    <3>2. <<>> \in Seq(RuleFrame) /\ Len(<<>>) = 0 /\ 1..0 = {} /\ 2..0 = {}
      BY EmptySeq
    <3> HIDE DEF outer
    <3> QED
      BY <2>2, <3>1, <3>2
  <2> QED
    BY <2>1, <2>2
<1> HIDE DEF rule, outer
<1>3. /\ Len(all) = 1 + Len(outer)
      /\ all[1] = rule
      /\ \A j \in 2 .. 1 + Len(outer) : all[j] = outer[j - 1]
  <2>1. <<rule>> \in Seq(RuleFrame) /\ Len(<<rule>>) = 1 /\ <<rule>>[1] = rule
    BY <1>1
  <2>2. /\ Len(all) = Len(<<rule>>) + Len(outer)
        /\ \A j \in 1 .. Len(<<rule>>) + Len(outer) :
             all[j] = IF j <= Len(<<rule>>) THEN <<rule>>[j] ELSE outer[j - Len(<<rule>>)]
    BY <1>2, <2>1, ConcatProperties
  <2> HIDE DEF all
  <2> QED
    BY <1>2, <2>1, <2>2
<1> HIDE DEF all
<1>4. \A j \in 1..Len(all) : all[j].pos <= p
  <2> TAKE j \in 1..Len(all)
  <2>1. j = 1 \/ (j \in 2 .. 1 + Len(outer) /\ j - 1 \in 1..Len(outer))
    BY <1>2, <1>3
  <2>2. CASE j = 1
    BY <1>1, <1>3, <2>2
  <2>3. CASE j \in 2 .. 1 + Len(outer) /\ j - 1 \in 1..Len(outer)
    BY <1>2, <1>3, <2>3
  <2> QED
    BY <2>1, <2>2, <2>3
<1>5. \A j \in 2..Len(all) : all[j].pos <= all[j - 1].pos
  <2> TAKE j \in 2..Len(all)
  <2>1. all[j] = outer[j - 1] /\ j - 1 \in 1..Len(outer)
    BY <1>2, <1>3
  <2>2. CASE j = 2
    <3>1. all[j - 1] = rule
      BY <1>3, <2>2
    <3> QED
      BY <1>1, <1>2, <2>1, <3>1
  <2>3. CASE j # 2
    <3>1. /\ j - 1 \in 2 .. 1 + Len(outer) /\ j - 1 \in 2..Len(outer)
          /\ all[j - 1] = outer[(j - 1) - 1]
      BY <1>2, <1>3, <2>1, <2>3
    <3> QED
      BY <1>2, <2>1, <3>1
  <2> QED
    BY <2>2, <2>3
<1>6. ~AllNodes => Len(all) <= 1
  BY <1>2, <1>3
<1>7. Encloses(all, p)
  BY <1>4, <1>5, <1>6 DEF Encloses
<1> QED
  BY <1>7 DEF Context_, EnterRule, all, rule, outer

\* A failure at or behind where its rules enclose joins the history in order.
LEMMA RecordSafe ==
  ASSUME NEW s, NEW h \in HistorySet, HistorySafe(s, h),
         NEW context, NEW pos \in Nat, NEW e,
         IsBoundary(s, pos), Encloses(context, pos)
  PROVE  HistorySafe(s, Record(h, context, pos, e))
<1> DEFINE trace == [context |-> context, expectation |-> e]
<1>1. h.pos \in Nat /\ h.traces \in Seq(Trace)
  BY DEF HistorySet
<1>2. trace.context = context
  OBVIOUS
<1> HIDE DEF trace
<1>3. CASE pos = h.pos
  <2>1. Record(h, context, pos, e) = [h EXCEPT !.traces = Append(h.traces, trace)]
    BY <1>3 DEF Record, trace
  <2> DEFINE joined == Append(h.traces, trace)
  <2>2. /\ Len(h.traces) \in Nat /\ Len(joined) = Len(h.traces) + 1
        /\ \A t \in 1..Len(h.traces) : joined[t] = h.traces[t]
        /\ joined[Len(h.traces) + 1] = trace
    BY <1>1, LenProperties
  <2> HIDE DEF joined
  <2>3. \A t \in 1..Len(joined) : Encloses(joined[t].context, h.pos)
    <3> TAKE t \in 1..Len(joined)
    <3>1. t \in 1..Len(h.traces) \/ t = Len(h.traces) + 1
      BY <2>2
    <3> QED
      BY <1>2, <1>3, <2>2, <3>1 DEF HistorySafe
  <2>4. /\ [h EXCEPT !.traces = joined].traces = joined
        /\ [h EXCEPT !.traces = joined].pos = h.pos
    BY DEF HistorySet
  <2> QED
    BY <2>1, <2>3, <2>4 DEF HistorySafe, joined
<1>4. CASE pos > h.pos
  <2>1. Record(h, context, pos, e) = [pos |-> pos, traces |-> <<trace>>]
    BY <1>1, <1>4 DEF Record, trace
  <2>2. Len(<<trace>>) = 1 /\ <<trace>>[1] = trace
    OBVIOUS
  <2>3. \A t \in 1..Len(<<trace>>) : <<trace>>[t] = trace
    BY <2>2
  <2> QED
    BY <1>2, <2>1, <2>3 DEF HistorySafe
<1>5. CASE pos < h.pos
  BY <1>1, <1>5 DEF Record
<1> QED
  BY <1>1, <1>3, <1>4, <1>5

-----------------------------------------------------------------------------
(***************************************************************************)
(* What the three ways to change the stack leave to show.                  *)
(***************************************************************************)

\* What is known of the top activation.
LEMMA TopSafe ==
  ASSUME IInv, SafetyInv, stack # <<>>
  PROVE  /\ FrameSafe(input, Top)
         /\ input \in Text /\ IsUtf8(input)
         /\ Top \in FrameSet
         /\ Top.pos \in Nat /\ Top.cur \in Nat /\ Top.pos <= Top.cur
         /\ Top.ctx \in Context /\ Top.saved \in HistorySet
         /\ IsBoundary(input, Top.pos) /\ IsBoundary(input, Top.cur)
         /\ Encloses(Top.ctx, Top.pos) /\ HistorySafe(input, Top.saved)
         /\ Top.op = "miss" => Kind(Top.node) = "alt"
<1>1. Top \in FrameSet /\ FrameOK(input, Top) /\ input \in Text
  BY TopFacts
<1>2. Top.pos \in Nat /\ Top.cur \in Nat /\ Top.ctx \in Context /\ Top.saved \in HistorySet
  BY <1>1 DEF FrameSet
<1>3. /\ Top.pos <= Top.cur
      /\ Top.op = "miss" => Kind(Top.node) = "alt"
  BY <1>1 DEF FrameOK, Located, Indexed
<1>4. stack \in Seq(FrameSet) /\ input \in Inputs
  BY DEF IInv, TypeOK
<1>5. Len(stack) \in 1..Len(stack) /\ Top = stack[Len(stack)]
  <2>1. Len(stack) \in Nat \ {0} /\ Last(stack) = stack[Len(stack)]
    BY <1>4, FrontProperties
  <2> QED
    BY <2>1 DEF Top
<1>6. FrameSafe(input, Top)
  BY <1>5 DEF SafetyInv
<1>7. IsUtf8(input)
  BY <1>4, ParserAssumption
<1> QED
  BY <1>1, <1>2, <1>3, <1>6, <1>7 DEF FrameSafe

\* An answer of an activation is one of the operation it runs for its caller.
LEMMA SafeAnswerPassesOn ==
  ASSUME NEW s, NEW f, NEW n, NEW op, NEW p, NEW r,
         Runs(f, n, op, p), AnswerSafe(s, f.op, r),
         f.op = "miss" => Kind(f.node) = "alt" /\ ~r.ok
  PROVE  AnswerSafe(s, op, r)
<1>1. CASE f.op = op
  BY <1>1 DEF Runs
<1>2. CASE f.op # op
  BY <1>2 DEF Runs, AnswerSafe
<1> QED
  BY <1>1, <1>2

\* An activation ends.
LEMMA ReturnSafe ==
  ASSUME IInv, SafetyInv, phase # "idle", stack # <<>>, NEW r, Return(r),
         HistorySafe(input, history'),
         AnswerSafe(input, Top.op, r), Top.op = "miss" => ~r.ok
  PROVE  SafetyInv'
<1>1. stack \in Seq(FrameSet)
  BY DEF IInv, TypeOK
<1>2. /\ Len(stack) \in Nat \ {0}
      /\ stack' \in Seq(FrameSet)
      /\ Len(stack') = Len(stack) - 1
      /\ \A j \in 1 .. Len(stack) - 1 : stack'[j] = stack[j]
      /\ Top = stack[Len(stack)]
  BY <1>1, FrontProperties DEF Return, Top
<1>3. \A k \in 1..Len(stack') : FrameSafe(input, stack'[k])
  BY <1>2 DEF SafetyInv
<1>4. AnswerSafe(input, AskedOp', r)
  <2>1. Top.op = "miss" => Kind(Top.node) = "alt" /\ ~r.ok
    BY TopSafe
  <2>2. CASE stack' = <<>>
    <3>1. Len(stack') = 0
      BY <2>2, EmptySeq
    <3>2. Top = stack[1]
      <4>1. Len(stack) = 1
        BY <1>2, <3>1
      <4> QED
        BY <1>2, <4>1
    <3>3. Runs(Top, root, EntryOp(Entry), 0)
      BY <3>2 DEF IInv, StackOK
    <3>4. AnswerSafe(input, EntryOp(Entry), r)
      BY <2>1, <3>3, SafeAnswerPassesOn
    <3>5. AskedNode' = root /\ AskedOp' = EntryOp(Entry)
      BY <2>2 DEF AskedNode, AskedOp, Entry, Return
    <3> QED
      BY <3>4, <3>5
  <2>3. CASE stack' # <<>>
    <3>1. Len(stack') \in Nat \ {0} /\ Top' = stack'[Len(stack')]
      BY <1>2, <2>3, FrontProperties DEF Top
    <3>2. Len(stack) - 1 \in 1 .. Len(stack) - 1 /\ Top' = stack[Len(stack) - 1]
          /\ (Len(stack) - 1) + 1 = Len(stack)
      BY <1>2, <3>1
    <3>3. Waits(stack[Len(stack) - 1], stack[(Len(stack) - 1) + 1])
      BY <3>2 DEF IInv, StackOK
    <3>4. Runs(Top, Callee(Top'), KidOp(Top'), Top'.cur)
      BY <1>2, <3>2, <3>3 DEF Waits
    <3>5. AnswerSafe(input, KidOp(Top'), r)
      BY <2>1, <3>4, SafeAnswerPassesOn
    <3>6. AskedNode' = Callee(Top') /\ AskedOp' = KidOp(Top')
      BY <2>3 DEF AskedNode, AskedOp
    <3> QED
      BY <3>5, <3>6
  <2> QED
    BY <2>2, <2>3
<1> QED
  BY <1>3, <1>4 DEF SafetyInv, ContextNested, Return

\* An activation goes on, as f.
LEMMA ContinueSafe ==
  ASSUME IInv, SafetyInv, IInv', phase # "idle", stack # <<>>,
         NEW f, Continue(f), f.pos = Top.pos, f.ctx = Top.ctx,
         f.saved = Top.saved, IsBoundary(input, f.cur)
  PROVE  SafetyInv'
<1>1. stack \in Seq(FrameSet) /\ stack' \in Seq(FrameSet)
  BY DEF IInv, TypeOK
<1>2. stack' = [stack EXCEPT ![Len(stack)] = f]
  BY DEF Continue
<1>3. f \in FrameSet
  <2>1. Len(stack) \in Nat \ {0} /\ DOMAIN stack = 1..Len(stack)
        /\ Len(stack') \in Nat /\ DOMAIN stack' = 1..Len(stack')
    BY <1>1, FrontProperties, LenProperties
  <2>2. Len(stack) \in DOMAIN stack
    BY <2>1
  <2>3. Len(stack) \in DOMAIN stack' /\ stack'[Len(stack)] = f
    BY <1>2, <2>2
  <2> QED
    BY <1>1, <2>1, <2>3, ElementOfSeq
<1>4. /\ Len(stack) \in Nat \ {0}
      /\ Len(stack') = Len(stack)
      /\ \A j \in 1 .. Len(stack) - 1 : stack'[j] = stack[j]
      /\ stack'[Len(stack)] = f
  <2> DEFINE s == [stack EXCEPT ![Len(stack)] = f]
  <2>1. /\ Len(stack) \in Nat \ {0}
        /\ Len(s) = Len(stack)
        /\ \A j \in 1 .. Len(stack) - 1 : s[j] = stack[j]
        /\ s[Len(stack)] = f
    BY <1>1, <1>3, FrontProperties, ReplaceLast
  <2>2. stack' = s
    BY <1>2
  <2> HIDE DEF s
  <2> QED
    BY <2>1, <2>2
<1>6. FrameSafe(input, f)
  BY TopSafe DEF FrameSafe
<1>7. ASSUME NEW k \in 1..Len(stack') PROVE FrameSafe(input, stack'[k])
  <2>1. k = Len(stack) \/ k \in 1 .. Len(stack) - 1
    BY <1>4
  <2>2. CASE k = Len(stack)
    BY <1>4, <1>6, <2>2
  <2>3. CASE k \in 1 .. Len(stack) - 1
    <3>1. stack'[k] = stack[k] /\ k \in 1..Len(stack)
      BY <1>4, <2>3
    <3> QED
      BY <3>1 DEF SafetyInv
  <2> QED
    BY <2>1, <2>2, <2>3
<1> QED
  BY <1>7 DEF SafetyInv, ContextNested, Continue

\* An activation calls another, with its own history set aside or not.
LEMMA PushSafe ==
  ASSUME IInv, SafetyInv, phase = "call", HasCall(Top), phase' = "call",
         NEW f \in FrameSet, FrameSafe(input, f),
         stack' = Append([stack EXCEPT ![Len(stack)] = f], Started(Top)),
         HistorySafe(input, history'),
         UNCHANGED <<input, root, ret, outcomes>>
  PROVE  SafetyInv'
<1> DEFINE s == [stack EXCEPT ![Len(stack)] = f]
           g == Started(Top)
<1>1. stack \in Seq(FrameSet) /\ stack # <<>>
  BY DEF IInv, TypeOK, PhaseOK
<1>2. /\ Len(stack) \in Nat \ {0}
      /\ s \in Seq(FrameSet)
      /\ Len(s) = Len(stack)
      /\ \A j \in 1 .. Len(stack) - 1 : s[j] = stack[j]
      /\ s[Len(stack)] = f
  BY <1>1, FrontProperties, ReplaceLast
<1>3. g \in FrameSet /\ FrameSafe(input, g)
  <2>1. g \in FrameSet
    BY <1>1, CalleeOK
  <2>2. /\ g.pos = Top.cur /\ g.cur = Top.cur /\ g.saved = EmptyHistory
        /\ g.ctx = Context_(Callee(Top), Top.cur, Top.ctx)
    BY DEF Started, Activation
  <2>3. Encloses(Top.ctx, Top.cur)
    BY <1>1, TopSafe, EnclosesLater
  <2>4. Callee(Top) \in Node
    BY <1>1, TopSafe, CalleeFacts
  <2>5. Encloses(Context_(Callee(Top), Top.cur, Top.ctx), Top.cur)
    BY <1>1, <2>3, <2>4, TopSafe, StartedIn
  <2>6. HistorySafe(input, EmptyHistory)
    BY <1>1, TopSafe, EmptySafe
  <2>7. IsBoundary(input, Top.cur)
    BY <1>1, TopSafe
  <2> HIDE DEF g
  <2> QED
    BY <2>1, <2>2, <2>5, <2>6, <2>7 DEF FrameSafe
<1> HIDE DEF s, g
<1>4. stack' = Append(s, g)
  BY DEF s, g
<1>5. /\ Len(stack') = Len(stack) + 1
      /\ \A j \in 1 .. Len(s) : stack'[j] = s[j]
      /\ stack'[Len(s) + 1] = g
  BY <1>2, <1>3, <1>4, AppendProperties
<1>6. ASSUME NEW k \in 1..Len(stack') PROVE FrameSafe(input, stack'[k])
  <2>1. k \in 1 .. Len(stack) - 1 \/ k = Len(stack) \/ k = Len(stack) + 1
    BY <1>2, <1>5
  <2>2. CASE k \in 1 .. Len(stack) - 1
    <3>1. stack'[k] = stack[k] /\ k \in 1..Len(stack)
      BY <1>2, <1>5, <2>2
    <3> QED
      BY <3>1 DEF SafetyInv
  <2>3. CASE k = Len(stack)
    BY <1>2, <1>5, <2>3
  <2>4. CASE k = Len(stack) + 1
    BY <1>2, <1>3, <1>5, <2>4
  <2> QED
    BY <2>1, <2>2, <2>3, <2>4
<1> QED
  BY <1>6 DEF SafetyInv, ContextNested

\* A failure of the top activation, at or behind where it started.
LEMMA ReportSafe ==
  ASSUME IInv, SafetyInv, stack # <<>>, NEW pos \in Nat, NEW e, Expect(pos, e),
         IsBoundary(input, pos), Top.pos <= pos
  PROVE  HistorySafe(input, history')
<1>1. history \in HistorySet /\ HistorySafe(input, history)
  BY DEF IInv, TypeOK, SafetyInv
<1>2. Encloses(Top.ctx, pos)
  BY TopSafe, EnclosesLater
<1> QED
  BY <1>1, <1>2, RecordSafe DEF Expect

\* Answers.
LEMMA MatchSafe ==
  ASSUME NEW s, NEW f, NEW end, NEW print, NEW items, IsBoundary(s, end)
  PROVE  AnswerSafe(s, f.op, Match(f, end, print, items))
BY DEF AnswerSafe, Match

LEMMA NothingSafe ==
  ASSUME NEW s, NEW op
  PROVE  AnswerSafe(s, op, Nothing) /\ ~Nothing.ok
BY DEF AnswerSafe, Nothing

\* The answer the top activation got: a match ends between characters.
LEMMA AnswerSafeFacts ==
  ASSUME IInv, SafetyInv, NEW kinds, NEW ops, Answered(kinds, ops),
         ops = Matching
  PROVE  /\ ret.ok => IsBoundary(input, ret.end)
         /\ ret.end \in Nat
         /\ ret.ok => Top.cur <= ret.end
<1>1. /\ phase # "idle" /\ stack # <<>> /\ HasCall(Top) /\ Top.op \in Matching
      /\ AnswerOK(input, Callee(Top), KidOp(Top), Top.cur, ret)
  BY AnsweredFacts
<1>2. Top \in FrameSet /\ ret \in Result
  BY <1>1, TopFacts
<1>3. KidOp(Top) \in Matching
  BY <1>1, <1>2, CalleeFacts
<1>4. AnswerSafe(input, KidOp(Top), ret)
  BY <1>1 DEF SafetyInv, AskedNode, AskedOp, Answered
<1> QED
  BY <1>1, <1>2, <1>3, <1>4 DEF AnswerSafe, AnswerOK, MayMatch, Result

-----------------------------------------------------------------------------
(***************************************************************************)
(* Calls.                                                                  *)
(***************************************************************************)

LEMMA BeginSafe ==
  ASSUME IInv, SafetyInv, Begin
  PROVE  SafetyInv'
<1> DEFINE g == Activation(root, EntryOp(Entry), 0, <<>>)
<1>1. root \in Node /\ input \in Text /\ IsUtf8(input)
  BY ParserAssumption DEF IInv, TypeOK
<1>2. /\ Encloses(<<>>, 0) /\ HistorySafe(input, EmptyHistory)
      /\ <<>> \in Context
  BY <1>1, EmptySafe, EmptySeq DEF Context
<1>3. Encloses(Context_(root, 0, <<>>), 0)
  BY <1>1, <1>2, StartedIn
<1>4. FrameSafe(input, g)
  BY <1>1, <1>2, <1>3 DEF FrameSafe, Activation, IsUtf8
<1> HIDE DEF g
<1>5. stack' = <<g>> /\ Len(<<g>>) = 1 /\ <<g>>[1] = g
  BY DEF Begin, g
<1>6. \A k \in 1..Len(stack') : stack'[k] = g
  BY <1>5
<1> QED
  BY <1>2, <1>4, <1>6 DEF SafetyInv, ContextNested, Begin

LEMMA CallSafe ==
  ASSUME IInv, SafetyInv, Call
  PROVE  SafetyInv'
<1>1. stack # <<>> /\ HasCall(Top)
  BY DEF IInv, PhaseOK, Call
<1>2. Top \in FrameSet /\ FrameSafe(input, Top)
  BY <1>1, TopSafe
<1>3. [stack EXCEPT ![Len(stack)] = Top] = stack
  BY <1>1, FrontProperties DEF Top, Last, IInv, TypeOK
<1>4. stack' = Append([stack EXCEPT ![Len(stack)] = Top], Started(Top))
  BY <1>3 DEF Call
<1>5. HistorySafe(input, history')
  BY DEF SafetyInv, Call
<1> QED
  BY <1>1, <1>2, <1>4, <1>5, PushSafe DEF Call

LEMMA ProbeSafe ==
  ASSUME IInv, SafetyInv, Probe
  PROVE  SafetyInv'
<1> DEFINE f == [Top EXCEPT !.saved = history]
<1>1. stack # <<>> /\ HasCall(Top)
  BY DEF IInv, PhaseOK, Probe
<1>2. /\ Top \in FrameSet /\ FrameSafe(input, Top)
      /\ history \in HistorySet /\ HistorySafe(input, history)
      /\ HistorySafe(input, EmptyHistory)
  BY <1>1, TopSafe, EmptySafe DEF IInv, TypeOK, SafetyInv
<1>3. /\ f \in FrameSet /\ f.pos = Top.pos /\ f.cur = Top.cur
      /\ f.ctx = Top.ctx /\ f.saved = history
  BY <1>2 DEF FrameSet
<1>4. stack' = Append([stack EXCEPT ![Len(stack)] = f], Started(Top))
  <2>1. stack \in Seq(FrameSet) /\ Len(stack) \in Nat \ {0}
        /\ Top = stack[Len(stack)]
    BY <1>1, FrontProperties DEF IInv, TypeOK, Top
  <2>2. [stack EXCEPT ![Len(stack)].saved = history]
          = [stack EXCEPT ![Len(stack)] = f]
    BY <2>1
  <2> QED
    BY <2>2 DEF Probe
<1> HIDE DEF f
<1>5. FrameSafe(input, f)
  BY <1>2, <1>3 DEF FrameSafe
<1> QED
  BY <1>1, <1>2, <1>3, <1>4, <1>5, PushSafe DEF Probe

-----------------------------------------------------------------------------
(***************************************************************************)
(* Leaves.                                                                 *)
(***************************************************************************)

\* A literal matches up to a boundary: it starts and ends with characters.
LEMMA LiteralMatchSafe ==
  ASSUME IInv, SafetyInv, LiteralMatch
  PROVE  SafetyInv'
<1> DEFINE n   == Top.node
           end == Top.pos + Len(Def[n].text)
<1>1. /\ phase # "idle" /\ stack # <<>> /\ Kind(n) \in Literals
      /\ Top.op \in Matching
  BY GoingFacts DEF LiteralMatch
<1>2. n \in Node /\ input \in Text /\ IsUtf8(input) /\ Top.pos \in Nat
      /\ IsBoundary(input, Top.pos)
  BY <1>1, TopFacts, TopSafe
<1>3. Len(Def[n].text) \in Nat /\ IsBoundary(Def[n].text, Len(Def[n].text))
  BY <1>2, NodeFacts, LenProperties DEF Text, IsBoundary
<1>4. IsBoundary(input, end)
  BY <1>1, <1>2, <1>3, AgreesToBoundary DEF LiteralMatch
<1>5. HistorySafe(input, history')
  BY DEF SafetyInv, LiteralMatch
<1>6. Return(Match(Top, end, LiteralPrint(n, Top.pos, end), 0))
  BY DEF LiteralMatch
<1> QED
  BY <1>1, <1>4, <1>5, <1>6, MatchSafe, ReturnSafe DEF Matching

\* The rest of a literal is reported at the character that differs.
LEMMA LiteralMismatchSafe ==
  ASSUME IInv, SafetyInv, LiteralMismatch
  PROVE  SafetyInv'
<1> DEFINE n    == Top.node
           text == Def[n].text
<1>1. /\ phase # "idle" /\ stack # <<>> /\ Kind(n) \in Literals
      /\ Top.op \in Matching
  BY GoingFacts DEF LiteralMismatch
<1>2. n \in Node /\ input \in Text /\ IsUtf8(input) /\ Top.pos \in Nat
      /\ IsBoundary(input, Top.pos)
  BY <1>1, TopFacts, TopSafe
<1>3. PICK k \in 0..Len(text), l \in 0..Len(text) :
        /\ IsChar(text, k, l)
        /\ AgreesUpTo(n, Top.pos, k)
        /\ ~AgreesUpTo(n, Top.pos, l)
        /\ Expect(Top.pos + k, Expected(n, Slice(text, k, Len(text))))
  BY DEF LiteralMismatch
<1>4. k \in Nat /\ IsBoundary(text, k)
  BY <1>3 DEF IsChar
<1>5. IsBoundary(input, Top.pos + k)
  BY <1>1, <1>2, <1>3, <1>4, AgreesToBoundary
<1>6. Top.pos + k \in Nat /\ Top.pos <= Top.pos + k
  BY <1>2, <1>4
<1>7. HistorySafe(input, history')
  BY <1>1, <1>3, <1>5, <1>6, ReportSafe
<1>8. Return(Nothing)
  BY DEF LiteralMismatch
<1> QED
  BY <1>1, <1>7, <1>8, NothingSafe, ReturnSafe

LEMMA CharMatchSafe ==
  ASSUME IInv, SafetyInv, CharMatch
  PROVE  SafetyInv'
<1>1. phase # "idle" /\ stack # <<>> /\ Top.op \in Matching
  BY GoingFacts DEF CharMatch
<1>2. PICK end \in Top.pos + 1 .. Len(input) :
        /\ CharHere(end)
        /\ Return(Match(Top, end, Slice(input, Top.pos, end), 0))
  BY DEF CharMatch
<1>3. IsBoundary(input, end)
  BY <1>2 DEF CharHere, IsChar
<1>4. HistorySafe(input, history')
  BY DEF SafetyInv, CharMatch
<1> QED
  BY <1>1, <1>2, <1>3, <1>4, MatchSafe, ReturnSafe DEF Matching

LEMMA CharMismatchSafe ==
  ASSUME IInv, SafetyInv, CharMismatch
  PROVE  SafetyInv'
<1>1. phase # "idle" /\ stack # <<>> /\ Kind(Top.node) = "class"
  BY GoingFacts DEF CharMismatch
<1>2. HistorySafe(input, history')
  <2>1. Expect(Top.pos, Expected(Top.node, <<>>)) /\ Top.pos \in Nat
        /\ IsBoundary(input, Top.pos) /\ Top.pos <= Top.pos
    BY <1>1, TopSafe DEF CharMismatch
  <2> QED
    BY <1>1, <2>1, ReportSafe
<1>3. Return(Nothing)
  BY DEF CharMismatch
<1> QED
  BY <1>1, <1>2, <1>3, NothingSafe, ReturnSafe

LEMMA UnitMatchSafe ==
  ASSUME IInv, SafetyInv, UnitMatch
  PROVE  SafetyInv'
<1>1. phase # "idle" /\ stack # <<>> /\ Top.op \in Matching
  BY GoingFacts DEF UnitMatch
<1>2. IsBoundary(input, Top.pos)
  BY <1>1, TopSafe
<1>3. Return(Match(Top, Top.pos, <<>>, 0)) /\ HistorySafe(input, history')
  BY DEF SafetyInv, UnitMatch
<1> QED
  BY <1>1, <1>2, <1>3, MatchSafe, ReturnSafe DEF Matching

\* fail_at of a literal or class reports where it was called, ...
LEMMA FailLeafSafe ==
  ASSUME IInv, SafetyInv, FailLeaf
  PROVE  SafetyInv'
<1>1. /\ phase # "idle" /\ stack # <<>> /\ Top.op \in Failing
      /\ Kind(Top.node) \in Literals \cup {"class"}
  BY GoingFacts DEF FailLeaf
<1>2. HistorySafe(input, history')
  <2>1. Expect(Top.pos, Expected(Top.node, Def[Top.node].text)) /\ Top.pos \in Nat
        /\ IsBoundary(input, Top.pos) /\ Top.pos <= Top.pos
    BY <1>1, TopSafe DEF FailLeaf
  <2> QED
    BY <1>1, <2>1, ReportSafe
<1>3. Return(Required(TRUE))
  BY DEF FailLeaf
<1>4. Top.op # "miss"
  BY <1>1, TopSafe DEF Literals
<1>5. AnswerSafe(input, Top.op, Required(TRUE))
  BY <1>1 DEF AnswerSafe, Matching, Failing
<1> QED
  BY <1>1, <1>2, <1>3, <1>4, <1>5, ReturnSafe

\* ... and otherwise it reports nothing: any answer of fail_at is safe.
LEMMA FailingSafe ==
  ASSUME IInv, SafetyInv, phase # "idle", stack # <<>>, Top.op \in Failing,
         NEW r, Return(r), UNCHANGED history, Top.op = "miss" => ~r.ok
  PROVE  SafetyInv'
<1>1. HistorySafe(input, history')
  BY DEF SafetyInv
<1>2. AnswerSafe(input, Top.op, r)
  BY DEF AnswerSafe, Matching, Failing
<1> QED
  BY <1>1, <1>2, ReturnSafe

LEMMA FailNothingSafe ==
  ASSUME IInv, SafetyInv, FailNothing
  PROVE  SafetyInv'
<1>1. /\ phase # "idle" /\ stack # <<>> /\ Top.op \in Failing
      /\ Kind(Top.node) \in {"unit", "not"}
  BY GoingFacts DEF FailNothing
<1>2. Top.op # "miss"
  BY <1>1, TopSafe
<1> QED
  BY <1>1, <1>2, FailingSafe DEF FailNothing

-----------------------------------------------------------------------------
(***************************************************************************)
(* Repetition.                                                             *)
(***************************************************************************)

LEMMA OptionReturnSafe ==
  ASSUME IInv, SafetyInv, OptionReturn
  PROVE  SafetyInv'
<1>1. /\ phase # "idle" /\ stack # <<>> /\ Kind(Top.node) = "opt"
      /\ Top.op \in Matching
  BY AnsweredFacts DEF OptionReturn
<1>2. (ret.ok => IsBoundary(input, ret.end)) /\ IsBoundary(input, Top.pos)
  BY <1>1, AnswerSafeFacts, TopSafe DEF OptionReturn
<1> DEFINE r == IF ret.ok THEN ret ELSE Match(Top, Top.pos, <<>>, 0)
<1>3. AnswerSafe(input, Top.op, r)
  <2>1. CASE ret.ok
    BY <1>1, <1>2, <2>1 DEF AnswerSafe
  <2>2. CASE ~ret.ok
    BY <1>2, <2>2, MatchSafe
  <2> QED
    BY <2>1, <2>2
<1>4. HistorySafe(input, history') /\ Return(r)
  BY DEF SafetyInv, OptionReturn
<1> QED
  BY <1>1, <1>3, <1>4, ReturnSafe DEF Matching

LEMMA VecItemSafe ==
  ASSUME IInv, SafetyInv, IInv', VecItem
  PROVE  SafetyInv'
<1> DEFINE f == [Top EXCEPT !.cur = ret.end, !.out = @ \o ret.print, !.items = 1]
<1>1. phase # "idle" /\ stack # <<>> /\ Top \in FrameSet
  BY AnsweredFacts, TopSafe DEF VecItem
<1>2. IsBoundary(input, ret.end)
  BY AnswerSafeFacts DEF VecItem, OneMore
<1>3. /\ f.pos = Top.pos /\ f.cur = ret.end
      /\ f.ctx = Top.ctx /\ f.saved = Top.saved
  BY <1>1 DEF FrameSet
<1>4. Continue(f)
  BY DEF VecItem
<1> HIDE DEF f
<1> QED
  BY <1>1, <1>2, <1>3, <1>4, ContinueSafe

LEMMA VecEndSafe ==
  ASSUME IInv, SafetyInv, VecEnd
  PROVE  SafetyInv'
<1>1. phase # "idle" /\ stack # <<>> /\ Top.op \in Matching
  BY AnsweredFacts DEF VecEnd
<1>2. IsBoundary(input, Top.cur)
  BY <1>1, TopSafe
<1>3. /\ Return(Match(Top, Top.cur, Top.out, Top.items))
      /\ HistorySafe(input, history')
  BY DEF SafetyInv, VecEnd
<1> QED
  BY <1>1, <1>2, <1>3, MatchSafe, ReturnSafe DEF Matching

LEMMA Vec1ReturnSafe ==
  ASSUME IInv, SafetyInv, Vec1Return
  PROVE  SafetyInv'
<1>1. /\ phase # "idle" /\ stack # <<>> /\ Kind(Top.node) = "vec1"
      /\ Top.op \in Matching
  BY AnsweredFacts DEF Vec1Return
<1>2. IsBoundary(input, ret.end)
  BY AnswerSafeFacts DEF Vec1Return
<1> DEFINE r == IF NoItem(Top, ret) THEN Nothing
                ELSE Match(Top, ret.end, ret.print, 0)
<1>3. AnswerSafe(input, Top.op, r)
  <2>1. AnswerSafe(input, Top.op, Nothing)
    BY <1>1, NothingSafe
  <2>2. AnswerSafe(input, Top.op, Match(Top, ret.end, ret.print, 0))
    BY <1>2, MatchSafe
  <2> QED
    BY <2>1, <2>2
<1>4. HistorySafe(input, history') /\ Return(r)
  BY DEF SafetyInv, Vec1Return
<1> QED
  BY <1>1, <1>3, <1>4, ReturnSafe DEF Matching

-----------------------------------------------------------------------------
(***************************************************************************)
(* Sequence.                                                               *)
(***************************************************************************)

\* Answering None.
LEMMA RefuseSafe ==
  ASSUME IInv, SafetyInv, phase # "idle", stack # <<>>,
         Return(Nothing), HistorySafe(input, history')
  PROVE  SafetyInv'
BY NothingSafe, ReturnSafe

LEMMA NextFieldSafe ==
  ASSUME IInv, SafetyInv, IInv', NextField
  PROVE  SafetyInv'
<1> DEFINE f == [Top EXCEPT !.cur = ret.end, !.out = @ \o ret.print, !.i = @ + 1]
<1>1. phase # "idle" /\ stack # <<>> /\ Top \in FrameSet
  BY AnsweredFacts, TopSafe DEF NextField
<1>2. IsBoundary(input, ret.end)
  BY AnswerSafeFacts DEF NextField
<1>3. /\ f.pos = Top.pos /\ f.cur = ret.end
      /\ f.ctx = Top.ctx /\ f.saved = Top.saved
  BY <1>1 DEF FrameSet
<1>4. Continue(f)
  BY DEF NextField
<1> HIDE DEF f
<1> QED
  BY <1>1, <1>2, <1>3, <1>4, ContinueSafe

LEMMA FieldFailedSafe ==
  ASSUME IInv, SafetyInv, FieldFailed
  PROVE  SafetyInv'
<1>1. phase # "idle" /\ stack # <<>> /\ Kind(Top.node) = "seq"
  BY AnsweredFacts DEF FieldFailed
<1>2. Return(Nothing) /\ HistorySafe(input, history')
  BY DEF SafetyInv, FieldFailed
<1> QED
  BY <1>1, <1>2, RefuseSafe

LEMMA FieldsParsedSafe ==
  ASSUME IInv, SafetyInv, FieldsParsed
  PROVE  SafetyInv'
<1>1. phase # "idle" /\ stack # <<>> /\ Top.op \in Matching
  BY GoingFacts DEF FieldsParsed
<1>2. IsBoundary(input, Top.cur)
  BY <1>1, TopSafe
<1>3. /\ Return(Match(Top, Top.cur, Top.out, 0))
      /\ HistorySafe(input, history')
  BY DEF SafetyInv, FieldsParsed
<1> QED
  BY <1>1, <1>2, <1>3, MatchSafe, ReturnSafe DEF Matching

\* A validator's verdict is reported at the end of what it refuses.
LEMMA FieldsRejectedSafe ==
  ASSUME IInv, SafetyInv, FieldsRejected
  PROVE  SafetyInv'
<1>1. phase # "idle" /\ stack # <<>> /\ Kind(Top.node) = "seq"
  BY GoingFacts DEF FieldsRejected
<1>2. /\ Expect(Top.cur, Verdict("Valid", Top.cur)) /\ Return(Nothing)
      /\ Top.cur \in Nat /\ IsBoundary(input, Top.cur) /\ Top.pos <= Top.cur
  BY <1>1, TopSafe DEF FieldsRejected
<1>3. HistorySafe(input, history')
  BY <1>1, <1>2, ReportSafe
<1> QED
  BY <1>1, <1>2, <1>3, RefuseSafe

-----------------------------------------------------------------------------
(***************************************************************************)
(* Alternation.                                                            *)
(***************************************************************************)

\* An activation goes on to another kid, or as another operation.
LEMMA StaySafe ==
  ASSUME IInv, SafetyInv, IInv', phase # "idle", stack # <<>>,
         NEW op, NEW i, NEW all,
         Continue([Top EXCEPT !.op = op, !.i = i, !.all = all])
  PROVE  SafetyInv'
<1> DEFINE f == [Top EXCEPT !.op = op, !.i = i, !.all = all]
<1>1. Top \in FrameSet /\ IsBoundary(input, Top.cur)
  BY TopSafe
<1>2. /\ f.pos = Top.pos /\ f.cur = Top.cur
      /\ f.ctx = Top.ctx /\ f.saved = Top.saved
  BY <1>1 DEF FrameSet
<1>3. Continue(f)
  OBVIOUS
<1> HIDE DEF f
<1> QED
  BY <1>1, <1>2, <1>3, ContinueSafe

LEMMA DispatchHitSafe ==
  ASSUME IInv, SafetyInv, IInv', DispatchHit
  PROVE  SafetyInv'
<1>1. phase # "idle" /\ stack # <<>> /\ Top \in FrameSet
  BY GoingFacts, TopSafe DEF DispatchHit
<1>2. PICK k \in DOMAIN Kids(Top.node) : Continue([Top EXCEPT !.i = k])
  BY DEF DispatchHit
<1>3. [Top EXCEPT !.i = k] = [Top EXCEPT !.op = Top.op, !.i = k, !.all = Top.all]
  BY <1>1 DEF FrameSet
<1> QED
  BY <1>1, <1>2, <1>3, StaySafe

LEMMA DispatchMissSafe ==
  ASSUME IInv, SafetyInv, IInv', DispatchMiss
  PROVE  SafetyInv'
<1>1. phase # "idle" /\ stack # <<>> /\ Top \in FrameSet
  BY GoingFacts, TopSafe DEF DispatchMiss
<1>2. Continue([Top EXCEPT !.op = "miss", !.i = 1])
  BY DEF DispatchMiss
<1>3. [Top EXCEPT !.op = "miss", !.i = 1]
        = [Top EXCEPT !.op = "miss", !.i = 1, !.all = Top.all]
  BY <1>1 DEF FrameSet
<1>4. Continue([Top EXCEPT !.op = "miss", !.i = 1, !.all = Top.all])
  BY <1>2, <1>3
<1> QED
  BY <1>1, <1>4, StaySafe

LEMMA VariantMatchedSafe ==
  ASSUME IInv, SafetyInv, VariantMatched
  PROVE  SafetyInv'
<1>1. /\ phase # "idle" /\ stack # <<>> /\ Kind(Top.node) = "alt"
      /\ Top.op \in Matching /\ ret.ok
  BY AnsweredFacts DEF VariantMatched
<1>2. IsBoundary(input, ret.end)
  BY AnswerSafeFacts DEF VariantMatched
<1>3. AnswerSafe(input, Top.op, ret)
  BY <1>1, <1>2 DEF AnswerSafe
<1>4. Return(ret) /\ HistorySafe(input, history')
  BY DEF SafetyInv, VariantMatched
<1> QED
  BY <1>1, <1>3, <1>4, ReturnSafe DEF Matching

LEMMA NextVariantSafe ==
  ASSUME IInv, SafetyInv, IInv', NextVariant
  PROVE  SafetyInv'
<1>1. phase # "idle" /\ stack # <<>> /\ Top \in FrameSet
  BY AnsweredFacts, TopSafe DEF NextVariant
<1>2. Continue([Top EXCEPT !.i = @ + 1])
  BY DEF NextVariant
<1>3. [Top EXCEPT !.i = @ + 1]
        = [Top EXCEPT !.op = Top.op, !.i = Top.i + 1, !.all = Top.all]
  BY <1>1 DEF FrameSet
<1> QED
  BY <1>1, <1>2, <1>3, StaySafe

LEMMA NoVariantSafe ==
  ASSUME IInv, SafetyInv, NoVariant
  PROVE  SafetyInv'
<1>1. phase # "idle" /\ stack # <<>> /\ Kind(Top.node) = "alt"
  BY AnsweredFacts DEF NoVariant
<1>2. Return(Nothing) /\ HistorySafe(input, history')
  BY DEF SafetyInv, NoVariant
<1> QED
  BY <1>1, <1>2, RefuseSafe

-----------------------------------------------------------------------------
(***************************************************************************)
(* Lookahead, wrappers and conversions.                                    *)
(***************************************************************************)

\* A lookahead ends where it started, and brings back the history set aside.
LEMMA ProbeReturnSafe ==
  ASSUME IInv, SafetyInv, ProbeReturn
  PROVE  SafetyInv'
<1>1. /\ phase # "idle" /\ stack # <<>> /\ Kind(Top.node) = "not"
      /\ Top.op \in Matching
  BY AnsweredFacts DEF ProbeReturn
<1> DEFINE r == IF ret.ok THEN Nothing ELSE Match(Top, Top.pos, <<>>, 0)
<1>2. AnswerSafe(input, Top.op, r)
  <2>1. AnswerSafe(input, Top.op, Nothing)
    BY <1>1, NothingSafe
  <2>2. AnswerSafe(input, Top.op, Match(Top, Top.pos, <<>>, 0))
    BY <1>1, TopSafe, MatchSafe
  <2> QED
    BY <2>1, <2>2
<1>3. HistorySafe(input, history')
  BY <1>1, TopSafe DEF ProbeReturn
<1>4. Return(r)
  BY DEF ProbeReturn
<1> QED
  BY <1>1, <1>2, <1>3, <1>4, ReturnSafe DEF Matching

LEMMA UnwrapSafe ==
  ASSUME IInv, SafetyInv, Unwrap
  PROVE  SafetyInv'
<1>1. /\ phase # "idle" /\ stack # <<>>
      /\ Top.op \in Matching
  BY AnsweredFacts DEF Unwrap
<1>2. ret.ok => IsBoundary(input, ret.end)
  BY AnswerSafeFacts DEF Unwrap
<1> DEFINE m == Match(Top, ret.end, WrapperPrint(Top, ret), 0)
           r == IF ret.ok THEN m ELSE Nothing
<1>3. AnswerSafe(input, Top.op, r)
  <2>1. AnswerSafe(input, Top.op, Nothing)
    BY <1>1, NothingSafe
  <2>2. ret.ok => AnswerSafe(input, Top.op, m)
    BY <1>2, MatchSafe
  <2> QED
    BY <2>1, <2>2
<1>4. HistorySafe(input, history') /\ Return(r)
  BY DEF SafetyInv, Unwrap
<1> QED
  BY <1>1, <1>3, <1>4, ReturnSafe DEF Matching

LEMMA ConvertSafe ==
  ASSUME IInv, SafetyInv, Convert
  PROVE  SafetyInv'
<1>1. phase # "idle" /\ stack # <<>> /\ Top.op \in Matching
  BY AnsweredFacts DEF Convert
<1>2. IsBoundary(input, ret.end)
  BY AnswerSafeFacts DEF Convert
<1>3. /\ Return(Match(Top, ret.end, ConvertPrint(Top, ret), 0))
      /\ HistorySafe(input, history')
  BY DEF SafetyInv, Convert
<1> QED
  BY <1>1, <1>2, <1>3, MatchSafe, ReturnSafe DEF Matching

\* A verdict is reported where the refused source ends.
LEMMA ConvertRejectedSafe ==
  ASSUME IInv, SafetyInv, ConvertRejected
  PROVE  SafetyInv'
<1>1. phase # "idle" /\ stack # <<>> /\ Return(Nothing)
  BY AnsweredFacts DEF ConvertRejected
<1>2. IsBoundary(input, ret.end) /\ ret.end \in Nat /\ Top.cur <= ret.end
  BY AnswerSafeFacts DEF ConvertRejected
<1>3. Top.pos <= ret.end
  BY <1>1, <1>2, TopSafe
<1>4. PICK e : Expect(ret.end, e)
  BY DEF ConvertRejected
<1>5. HistorySafe(input, history')
  BY <1>1, <1>2, <1>3, <1>4, ReportSafe
<1> QED
  BY <1>1, <1>5, RefuseSafe

LEMMA SourceFailedSafe ==
  ASSUME IInv, SafetyInv, SourceFailed
  PROVE  SafetyInv'
<1>1. phase # "idle" /\ stack # <<>>
  BY AnsweredFacts DEF SourceFailed
<1>2. Return(Nothing) /\ HistorySafe(input, history')
  BY DEF SafetyInv, SourceFailed
<1> QED
  BY <1>1, <1>2, RefuseSafe

-----------------------------------------------------------------------------
(***************************************************************************)
(* fail_at.                                                                *)
(***************************************************************************)

LEMMA FailFieldSafe ==
  ASSUME IInv, SafetyInv, IInv', FailField
  PROVE  SafetyInv'
<1>1. /\ phase # "idle" /\ stack # <<>> /\ Top \in FrameSet
      /\ Top.op \in Failing /\ Top.op # "miss"
  BY AnsweredFacts, TopSafe DEF FailField
<1>2. CASE ret.ok
  BY <1>1, <1>2, FailingSafe DEF FailField
<1>3. CASE ~ret.ok
  <2>1. Continue([Top EXCEPT !.i = @ + 1])
    BY <1>3 DEF FailField
  <2>2. [Top EXCEPT !.i = @ + 1]
          = [Top EXCEPT !.op = Top.op, !.i = Top.i + 1, !.all = Top.all]
    BY <1>1 DEF FrameSet
  <2>3. Continue([Top EXCEPT !.op = Top.op, !.i = Top.i + 1, !.all = Top.all])
    BY <2>1, <2>2
  <2> QED
    BY <1>1, <2>3, StaySafe
<1> QED
  BY <1>2, <1>3

LEMMA FailFieldsEndSafe ==
  ASSUME IInv, SafetyInv, FailFieldsEnd
  PROVE  SafetyInv'
<1>1. /\ phase # "idle" /\ stack # <<>>
      /\ Top.op \in Failing /\ Kind(Top.node) # "alt"
  BY GoingFacts DEF FailFieldsEnd
<1>2. Top.op # "miss"
  BY <1>1, TopSafe
<1> QED
  BY <1>1, <1>2, FailingSafe DEF FailFieldsEnd

LEMMA FailVariantSafe ==
  ASSUME IInv, SafetyInv, IInv', FailVariant
  PROVE  SafetyInv'
<1>1. phase # "idle" /\ stack # <<>> /\ Top \in FrameSet
  BY AnsweredFacts, TopSafe DEF FailVariant
<1> DEFINE all == StillRequired(Top, ret)
<1>2. Continue([Top EXCEPT !.i = @ + 1, !.all = all])
  BY DEF FailVariant
<1> HIDE DEF all
<1>3. [Top EXCEPT !.i = @ + 1, !.all = all]
        = [Top EXCEPT !.op = Top.op, !.i = Top.i + 1, !.all = all]
  BY <1>1 DEF FrameSet
<1>4. Continue([Top EXCEPT !.op = Top.op, !.i = Top.i + 1, !.all = all])
  BY <1>2, <1>3
<1> QED
  BY <1>1, <1>4, StaySafe

LEMMA FailVariantsEndSafe ==
  ASSUME IInv, SafetyInv, FailVariantsEnd
  PROVE  SafetyInv'
<1>1. phase # "idle" /\ stack # <<>> /\ Top.op \in Failing
  BY AnsweredFacts DEF FailVariantsEnd
<1>2. CASE Top.op = "miss"
  <2>1. Return(Nothing) /\ ~Nothing.ok /\ UNCHANGED history
    BY <1>2 DEF FailVariantsEnd, Nothing
  <2> QED
    BY <1>1, <2>1, FailingSafe
<1>3. CASE Top.op # "miss"
  BY <1>1, <1>3, FailingSafe DEF FailVariantsEnd
<1> QED
  BY <1>2, <1>3

LEMMA FailWrappedSafe ==
  ASSUME IInv, SafetyInv, FailWrapped
  PROVE  SafetyInv'
<1>1. /\ phase # "idle" /\ stack # <<>>
      /\ Top.op \in Failing /\ Kind(Top.node) # "alt"
  BY AnsweredFacts DEF FailWrapped, Wrappers, Conversions
<1>2. Top.op # "miss"
  BY <1>1, TopSafe
<1> QED
  BY <1>1, <1>2, FailingSafe DEF FailWrapped

-----------------------------------------------------------------------------
(***************************************************************************)
(* The error of a call.                                                    *)
(***************************************************************************)

\* An error whose rules enclose one another, outermost first.
ErrorNested(e) ==
  \A t \in DOMAIN e.traces : LET c == e.traces[t].context IN
    /\ ~AllNodes => Len(c) <= 1
    /\ \A i \in DOMAIN c : c[i].pos <= e.pos
    /\ \A i \in 2..Len(c) : c[i - 1].pos <= c[i].pos

\* into_error turns the rules around.
LEMMA TurnedAround ==
  ASSUME NEW c \in Context, NEW p, Encloses(c, p)
  PROVE  LET b == Reverse(c) IN
           /\ ~AllNodes => Len(b) <= 1
           /\ \A i \in DOMAIN b : b[i].pos <= p
           /\ \A i \in 2..Len(b) : b[i - 1].pos <= b[i].pos
<1> DEFINE b == Reverse(c)
<1>1. Len(c) \in Nat /\ b = [i \in 1 .. Len(c) |-> c[(Len(c) - i) + 1]]
  BY LenProperties DEF Context, Reverse
<1>2. DOMAIN b = 1 .. Len(c) /\ \A i \in 1 .. Len(c) : b[i] = c[(Len(c) - i) + 1]
  BY <1>1
<1> HIDE DEF b
<1>3. Len(b) = Len(c)
  BY <1>1, <1>2
<1>4. \A i \in 1 .. Len(c) : b[i].pos <= p
  <2> TAKE i \in 1 .. Len(c)
  <2>1. (Len(c) - i) + 1 \in 1 .. Len(c)
    BY <1>1
  <2> QED
    BY <1>2, <2>1 DEF Encloses
<1>5. \A i \in 2 .. Len(c) : b[i - 1].pos <= b[i].pos
  <2> TAKE i \in 2 .. Len(c)
  <2> DEFINE k == (Len(c) - (i - 1)) + 1
  <2>1. /\ k \in 2 .. Len(c) /\ k - 1 = (Len(c) - i) + 1
        /\ i \in 1 .. Len(c) /\ i - 1 \in 1 .. Len(c)
    BY <1>1
  <2>2. b[i - 1] = c[k] /\ b[i] = c[k - 1]
    BY <1>2, <2>1
  <2> HIDE DEF k
  <2> QED
    BY <2>1, <2>2 DEF Encloses
<1> QED
  BY <1>2, <1>3, <1>4, <1>5 DEF Encloses, b

LEMMA IntoErrorNested ==
  ASSUME NEW s, NEW h \in HistorySet, HistorySafe(s, h)
  PROVE  ErrorNested(IntoError(h))
<1> DEFINE turned(t) == [h.traces[t] EXCEPT !.context = Reverse(h.traces[t].context)]
           traces == [t \in DOMAIN h.traces |-> turned(t)]
<1>1. h.traces \in Seq(Trace)
  BY DEF HistorySet
<1>2. DOMAIN h.traces = 1 .. Len(h.traces)
  BY <1>1, LenProperties
<1>3. IntoError(h) = [pos |-> h.pos, traces |-> traces]
  BY DEF IntoError
<1>4. ASSUME NEW t \in 1 .. Len(h.traces)
      PROVE  LET b == traces[t].context IN
               /\ ~AllNodes => Len(b) <= 1
               /\ \A i \in DOMAIN b : b[i].pos <= h.pos
               /\ \A i \in 2..Len(b) : b[i - 1].pos <= b[i].pos
  <2> DEFINE c == h.traces[t].context
  <2>1. h.traces[t] \in Trace
    BY <1>1, <1>4, ElementOfSeq
  <2>2. c \in Context
    BY <2>1 DEF Trace
  <2>3. traces[t].context = Reverse(c)
    <3>1. traces[t] = turned(t)
      BY <1>2
    <3>2. turned(t).context = Reverse(c)
      BY <2>1 DEF Trace
    <3> HIDE DEF traces, turned, c
    <3> QED
      BY <3>1, <3>2
  <2>4. Encloses(c, h.pos)
    BY <1>4 DEF HistorySafe
  <2> HIDE DEF c, traces
  <2> QED
    BY <2>2, <2>3, <2>4, TurnedAround
<1>5. DOMAIN traces = 1 .. Len(h.traces)
  BY <1>2
<1> HIDE DEF traces
<1> QED
  BY <1>3, <1>4, <1>5 DEF ErrorNested

LEMMA FinishSafe ==
  ASSUME IInv, SafetyInv, Finish
  PROVE  SafetyInv'
<1> DEFINE o == [entry |-> Entry,
                 ok    |-> Accepted(Entry, ret),
                 end   |-> ret.end,
                 print |-> ret.print,
                 error |-> IntoError(history)]
<1>1. outcomes' = Append(outcomes, o) /\ o.error = IntoError(history)
  BY DEF Finish
<1>2. ErrorNested(o.error)
  BY <1>1, IntoErrorNested DEF IInv, TypeOK, SafetyInv
<1> HIDE DEF o
<1>3. /\ Len(outcomes) \in Nat
      /\ DOMAIN outcomes = 1 .. Len(outcomes)
      /\ DOMAIN outcomes' = 1 .. Len(outcomes) + 1
      /\ \A k \in 1 .. Len(outcomes) : outcomes'[k] = outcomes[k]
      /\ outcomes'[Len(outcomes) + 1] = o
  BY <1>1, LenProperties DEF IInv, TypeOK
<1>4. \A k \in DOMAIN outcomes : ErrorNested(outcomes[k].error)
  BY DEF SafetyInv, ContextNested, ErrorNested
<1>5. \A k \in DOMAIN outcomes' : ErrorNested(outcomes'[k].error)
  <2> TAKE k \in DOMAIN outcomes'
  <2>1. k \in 1 .. Len(outcomes) \/ k = Len(outcomes) + 1
    BY <1>3
  <2> QED
    BY <1>2, <1>3, <1>4, <2>1
<1>6. ContextNested'
  BY <1>5 DEF ContextNested, ErrorNested
<1> QED
  BY <1>6 DEF SafetyInv, Finish

-----------------------------------------------------------------------------
(***************************************************************************)
(* The invariant.                                                          *)
(***************************************************************************)

\* It holds before the first call.
LEMMA InitSafe == Init => SafetyInv
<1> SUFFICES ASSUME Init PROVE SafetyInv
  OBVIOUS
<1>1. input \in Text /\ IsUtf8(input)
  BY ParserAssumption DEF Init
<1>2. Len(stack) = 0 /\ 1 .. 0 = {} /\ DOMAIN outcomes = {}
  BY EmptySeq DEF Init
<1>3. HistorySafe(input, history)
  BY <1>1, EmptySafe DEF Init
<1> QED
  BY <1>2, <1>3 DEF SafetyInv, ContextNested, Init

\* Every step keeps it.
LEMMA NextSafe == IInv /\ SafetyInv /\ IInv' /\ [Next]_vars => SafetyInv'
<1> SUFFICES ASSUME IInv, SafetyInv, IInv', [Next]_vars PROVE SafetyInv'
  OBVIOUS
<1>1. CASE Begin
  BY <1>1, BeginSafe
<1>2. CASE Finish
  BY <1>2, FinishSafe
<1>3. CASE Call
  BY <1>3, CallSafe
<1>4. CASE Probe
  BY <1>4, ProbeSafe
<1>5. CASE Leaf
  BY <1>5, LiteralMatchSafe, LiteralMismatchSafe, CharMatchSafe,
     CharMismatchSafe, FailLeafSafe, UnitMatchSafe, FailNothingSafe DEF Leaf
<1>6. CASE Repetition
  BY <1>6, OptionReturnSafe, VecItemSafe, VecEndSafe, Vec1ReturnSafe
     DEF Repetition
<1>7. CASE Sequence
  BY <1>7, NextFieldSafe, FieldFailedSafe, FieldsParsedSafe,
     FieldsRejectedSafe DEF Sequence
<1>8. CASE Alternation
  BY <1>8, DispatchHitSafe, DispatchMissSafe, VariantMatchedSafe,
     NextVariantSafe, NoVariantSafe DEF Alternation
<1>9. CASE Wrapped
  BY <1>9, ProbeReturnSafe, UnwrapSafe, ConvertSafe, ConvertRejectedSafe,
     SourceFailedSafe DEF Wrapped
<1>10. CASE Fail
  BY <1>10, FailFieldSafe, FailFieldsEndSafe, FailVariantSafe,
     FailVariantsEndSafe, FailWrappedSafe DEF Fail
<1>11. CASE UNCHANGED vars
  BY <1>11 DEF vars, SafetyInv, ContextNested, Entry, AskedNode, AskedOp, Top
<1> QED
  BY <1>1, <1>2, <1>3, <1>4, <1>5, <1>6, <1>7, <1>8, <1>9, <1>10, <1>11
     DEF Next, Done

\* Every activation stands, and every match ends, between two characters, and
\* the rules around every failure enclose one another: in every parse, scan,
\* parse_prefix and scan_prefix.
THEOREM SafetyInvariance == Spec => []SafetyInv
<1>1. Init => IInv /\ SafetyInv
  BY InitOK, InitSafe
<1>2. (IInv /\ SafetyInv) /\ [Next]_vars => (IInv /\ SafetyInv)'
  BY NextOK, NextSafe
<1> QED
  BY <1>1, <1>2, PTL DEF Spec

\* No text and no grammar makes the generated parser slice the input inside a
\* character (char.rs), or report an error there.
THEOREM NothingPanics == Spec => []NeverPanics
<1>1. SafetyInv => NeverPanics
  BY DEF SafetyInv, NeverPanics, FrameSafe, AnswerSafe, HistorySafe
<1> QED
  BY <1>1, SafetyInvariance, PTL

\* The rules an Error lists for a trace (History::into_error) are entered one
\* in another and none behind the failure; without trace_all_nodes there is at
\* most one.
THEOREM TracesNest == Spec => []ContextNested
<1>1. SafetyInv => ContextNested
  BY DEF SafetyInv
<1> QED
  BY <1>1, SafetyInvariance, PTL

-----------------------------------------------------------------------------
(***************************************************************************)
(* The depth of the stack.                                                 *)
(***************************************************************************)

\* A call where its caller started is one of a grammar of smaller rank.
LEMMA CallsDescend ==
  ASSUME NEW s, NEW f \in FrameSet, FrameOK(s, f), NEW g, Waits(f, g)
  PROVE  /\ f.pos <= g.pos
         /\ f.pos = g.pos => LeftRank[g.node] < LeftRank[f.node]
<1> DEFINE n == f.node
           j == KidIndex(f)
<1>1. HasCall(f) /\ g.node = Kids(n)[j] /\ g.pos = f.cur
  BY DEF Waits, Runs, Callee
<1>2. n \in Node /\ j \in 1..Len(Kids(n)) /\ f.op \in Matching \cup Failing
  BY <1>1, CalleeFacts DEF FrameSet
<1>3. f.pos <= g.pos
  BY <1>1 DEF FrameOK, Located
<1>4. ASSUME f.pos = g.pos PROVE LeftKid(n, j)
  <2>1. SUFFICES ASSUME Kind(n) = "seq"
                 PROVE  \A l \in 1 .. j - 1 : First[Kids(n)[l]].nil
    BY <2>1 DEF LeftKid
  <2>2. j = f.i
    BY <2>1 DEF KidIndex
  <2>3. CASE f.op \in Matching
    BY <1>1, <1>4, <2>1, <2>2, <2>3 DEF FrameOK, Advanced, FieldsMayMatch
  <2>4. CASE f.op \in Failing
    BY <2>1, <2>2, <2>4 DEF FrameOK, Advanced
  <2> QED
    BY <1>2, <2>3, <2>4
<1> QED
  BY <1>1, <1>2, <1>3, <1>4, NoLeftRecursion

\* So is any deeper call at the same position.
LEMMA StackDescends ==
  ASSUME IInv, NEW j \in 1..Len(stack), NEW k \in 1..Len(stack), j < k
  PROVE  /\ stack[j].pos <= stack[k].pos
         /\ stack[j].pos = stack[k].pos =>
              LeftRank[stack[k].node] < LeftRank[stack[j].node]
<1> DEFINE Pos(m)  == stack[m].pos
           Rank(m) == LeftRank[stack[m].node]
           Below(l, m) == Pos(l) <= Pos(m) /\ (Pos(l) = Pos(m) => Rank(m) < Rank(l))
           bad == {m \in j + 1 .. Len(stack) : ~Below(j, m)}
<1>1. stack \in Seq(FrameSet) /\ Len(stack) \in Nat
  BY LenProperties DEF IInv, TypeOK
<1>2. \A m \in 1..Len(stack) : Pos(m) \in Nat /\ Rank(m) \in Nat
  <2> TAKE m \in 1..Len(stack)
  <2>1. stack[m] \in FrameSet
    BY <1>1, ElementOfSeq
  <2> QED
    BY <2>1, NoLeftRecursion DEF FrameSet
<1>3. \A m \in 1 .. Len(stack) - 1 : Below(m, m + 1)
  <2> TAKE m \in 1 .. Len(stack) - 1
  <2>1. m \in 1..Len(stack)
    BY <1>1
  <2>2. stack[m] \in FrameSet /\ FrameOK(input, stack[m])
    BY <1>1, <2>1, ElementOfSeq DEF IInv, StackOK
  <2>3. Waits(stack[m], stack[m + 1])
    BY DEF IInv, StackOK
  <2> QED
    BY <2>2, <2>3, CallsDescend
<1> HIDE DEF Pos, Rank
<1>4. ASSUME bad # {} PROVE FALSE
  <2>1. bad \subseteq Nat
    BY <1>1
  <2>2. PICK m \in bad : \A l \in bad : m <= l
    BY <1>4, <2>1, LeastElement
  <2>3. /\ m \in Nat /\ m - 1 \in 1 .. Len(stack) - 1 /\ m - 1 \in 1..Len(stack)
        /\ m \in 1..Len(stack) /\ (m - 1) + 1 = m
        /\ m - 1 \notin bad /\ ~Below(j, m)
        /\ m - 1 = j \/ m - 1 \in j + 1 .. Len(stack)
    BY <1>1, <2>1, <2>2
  <2>4. Below(m - 1, m)
    BY <1>3, <2>3
  <2>5. CASE m - 1 = j
    BY <2>3, <2>4, <2>5
  <2>6. CASE m - 1 \in j + 1 .. Len(stack)
    <3>1. Below(j, m - 1)
      BY <2>3, <2>6
    <3>2. Below(j, m)
      BY <1>2, <2>3, <2>4, <3>1
    <3> QED
      BY <2>3, <3>2
  <2> QED
    BY <2>3, <2>5, <2>6
<1>5. k \in j + 1 .. Len(stack)
  BY <1>1
<1>6. Below(j, k)
  BY <1>4, <1>5
<1> QED
  BY <1>6 DEF Pos, Rank

\* A running grammar is entered again only further on in the input: through
\* whatever chain of parse_at, scan_at and fail_at of a grammar without left
\* recursion.
THEOREM NeverReenteredInPlace == Spec => []ReentersFurtherOn
<1>1. IInv => ReentersFurtherOn
  <2> SUFFICES ASSUME IInv, NEW j \in 1..Len(stack), NEW k \in 1..Len(stack),
                      j < k, stack[j].node = stack[k].node
               PROVE  stack[j].pos < stack[k].pos
    BY DEF ReentersFurtherOn
  <2>1. stack[j] \in FrameSet /\ stack[k] \in FrameSet
    BY ElementOfSeq DEF IInv, TypeOK
  <2>2. /\ stack[j].pos \in Nat /\ stack[k].pos \in Nat
        /\ LeftRank[stack[j].node] \in Nat
    BY <2>1, NoLeftRecursion DEF FrameSet
  <2>3. /\ stack[j].pos <= stack[k].pos
        /\ stack[j].pos = stack[k].pos =>
             LeftRank[stack[j].node] < LeftRank[stack[j].node]
    BY StackDescends
  <2> QED
    BY <2>2, <2>3
<1> QED
  BY <1>1, Invariance, PTL

\* No two activations are of the same grammar at the same position, so there
\* are at most as many as there are grammars and positions.
THEOREM StackIsBounded == Spec => []StackBounded
<1>1. IInv => StackBounded
  <2> SUFFICES ASSUME IInv PROVE StackBounded
    OBVIOUS
  <2> DEFINE places == Node \X (0..Len(input))
             place  == [k \in 1..Len(stack) |-> <<stack[k].node, stack[k].pos>>]
  <2>1. /\ stack \in Seq(FrameSet) /\ Len(stack) \in Nat
        /\ input \in Text /\ Len(input) \in Nat
    BY ParserAssumption, LenProperties DEF IInv, TypeOK, Text
  <2>2. \A k \in 1..Len(stack) : stack[k] \in FrameSet /\ FrameOK(input, stack[k])
    BY <2>1, ElementOfSeq DEF IInv, StackOK
  <2>3. \A k \in 1..Len(stack) :
          /\ stack[k].node \in Node /\ stack[k].pos \in Nat
          /\ LeftRank[stack[k].node] \in Nat /\ stack[k].pos \in 0..Len(input)
    <3> TAKE k \in 1..Len(stack)
    <3>1. stack[k].node \in Node /\ stack[k].pos \in Nat /\ stack[k].cur \in Nat
      BY <2>2 DEF FrameSet
    <3>2. stack[k].pos <= stack[k].cur /\ stack[k].cur <= Len(input)
      BY <2>2 DEF FrameOK, Located
    <3> QED
      BY <2>1, <3>1, <3>2, NoLeftRecursion
  <2>4. ASSUME NEW j \in 1..Len(stack), NEW k \in 1..Len(stack), j < k
        PROVE  place[j] # place[k]
    <3>1. stack[j].pos = stack[k].pos =>
            LeftRank[stack[k].node] < LeftRank[stack[j].node]
      BY <2>4, StackDescends
    <3> QED
      BY <2>3, <3>1
  <2>5. place \in [1..Len(stack) -> places]
    BY <2>3
  <2>6. \A j, k \in 1..Len(stack) : j < k \/ k < j \/ j = k
    BY <2>1
  <2> HIDE DEF place
  <2>7. place \in Injection(1..Len(stack), places)
    <3>1. \A j, k \in 1..Len(stack) : place[j] = place[k] => j = k
      BY <2>4, <2>6
    <3> HIDE DEF places
    <3> QED
      BY <2>5, <3>1 DEF Injection, IsInjective
  <2>8. IsFiniteSet(0..Len(input)) /\ Cardinality(0..Len(input)) = Len(input) + 1
    <3>1. 0 \in Int /\ Len(input) \in Int /\ ~(0 > Len(input))
          /\ Len(input) - 0 + 1 = Len(input) + 1
      BY <2>1
    <3> QED
      BY <3>1, FS_Interval
  <2>9. /\ IsFiniteSet(places)
        /\ Cardinality(places) = Cardinality(Node) * (Len(input) + 1)
    BY <2>8, NodesFinite, FS_Product
  <2> HIDE DEF places
  <2>10. Cardinality(1..Len(stack)) <= Cardinality(places)
    BY <2>7, <2>9, FS_Injection
  <2>11. Cardinality(1..Len(stack)) = Len(stack)
    <3>1. /\ 1 \in Int /\ Len(stack) \in Int
          /\ Len(stack) = IF 1 > Len(stack) THEN 0 ELSE Len(stack) - 1 + 1
      BY <2>1
    <3> QED
      BY <3>1, FS_Interval
  <2> QED
    BY <2>9, <2>10, <2>11 DEF StackBounded
<1> QED
  BY <1>1, Invariance, PTL
=============================================================================
