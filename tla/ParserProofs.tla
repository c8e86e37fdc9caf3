---------------------------- MODULE ParserProofs ----------------------------
(***************************************************************************)
(* The parser's invariant, proved for every grammar, input and schedule.   *)
(* A step pushes an activation, changes the top one, or takes it off and   *)
(* hands its answer to the next; a lemma about each says what is left to   *)
(* show of an action.                                                      *)
(***************************************************************************)
EXTENDS ParserInvariant, TextTheorems

-----------------------------------------------------------------------------
(***************************************************************************)
(* Grammars and their FIRST sets.                                          *)
(***************************************************************************)

\* What is known of every grammar of the table.
LEMMA NodeFacts ==
  ASSUME NEW n \in Node
  PROVE  /\ Def[n] \in DefSet
         /\ Kids(n) \in Seq(Node)
         /\ Len(Kids(n)) \in Nat
         /\ DOMAIN Kids(n) = 1 .. Len(Kids(n))
         /\ \A j \in 1 .. Len(Kids(n)) : Kids(n)[j] \in Node
         /\ Def[n].text \in Text
         /\ Kind(n) \in Kinds
         /\ First[n] \in FirstSet
         /\ WellFormed(n)
<1>1. Def[n] \in DefSet /\ First[n] \in FirstSet /\ WellFormed(n)
  BY GrammarAssumption
<1>2. Kids(n) \in Seq(Node) /\ Kind(n) \in Kinds /\ Def[n].text \in Text
  BY <1>1 DEF DefSet, Kids, Kind
<1> QED
  BY <1>1, <1>2, LenProperties, ElementOfSeq

\* A literal starts with its first byte, in either case if case is ignored.
LEMMA LiteralFirst ==
  ASSUME NEW n \in Node, Kind(n) \in Literals
  PROVE  /\ Len(Def[n].text) \in Nat \ {0}
         /\ Def[n].text[1] \in Byte
         /\ Kind(n) = "lit" => First[n].bytes = {Def[n].text[1]}
         /\ Kind(n) = "litCI" =>
              First[n].bytes = {Lower(Def[n].text[1]), Upper(Def[n].text[1])}
         /\ ~First[n].nil
<1>1. Def[n].text \in Text /\ Def[n].text # <<>>
  BY NodeFacts DEF WellFormed
<1>2. Len(Def[n].text) \in Nat \ {0}
  BY <1>1, EmptySeq DEF Text
<1>3. Def[n].text[1] \in Byte
  BY <1>1, <1>2, TextByte
<1>4. First[n] = FirstOf(n, First)
  BY GrammarAssumption
<1>5. CASE Kind(n) = "lit"
  BY <1>2, <1>3, <1>4, <1>5 DEF FirstOf, CharFirst
<1>6. CASE Kind(n) = "litCI"
  BY <1>2, <1>3, <1>4, <1>6 DEF FirstOf, CharFirstCI
<1> QED
  BY <1>5, <1>6 DEF Literals

\* A class may start with any byte, (), and a lookahead, with none.
LEMMA LeafFirst ==
  ASSUME NEW n \in Node
  PROVE  /\ Kind(n) = "class" => First[n].bytes = Byte /\ ~First[n].nil
         /\ Kind(n) \in {"unit", "not"} => First[n].bytes = {} /\ First[n].nil
<1>1. First[n] = FirstOf(n, First)
  BY GrammarAssumption
<1>2. Kind(n) = "class" => First[n] = AnyChar
  BY <1>1 DEF FirstOf
<1>3. Kind(n) \in {"unit", "not"} => First[n] = EmptyFirst
  BY <1>1 DEF FirstOf
<1> QED
  BY <1>2, <1>3 DEF AnyChar, EmptyFirst

\* A grammar made of one other starts as that one does; Option and Vec may
\* also be empty.
LEMMA WrappedFirst ==
  ASSUME NEW n \in Node,
         Kind(n) \in (Wrappers \cup Conversions \cup {"vec1"}) \ {"not"}
  PROVE  /\ Kids(n)[1] \in Node
         /\ First[n].bytes = First[Kids(n)[1]].bytes
         /\ First[n].nil = (Kind(n) \in {"opt", "vec"} \/ First[Kids(n)[1]].nil)
<1>1. First[n] = FirstOf(n, First)
  BY GrammarAssumption
<1>2. Len(Kids(n)) \in {1, 2}
  BY NodeFacts DEF WellFormed, Wrappers, Conversions
<1>3. Kids(n)[1] \in Node
  BY <1>2, NodeFacts
<1>4. First[Kids(n)[1]] \in FirstSet
  BY <1>3, NodeFacts
<1>5. CASE Kind(n) \in {"opt", "vec"}
  BY <1>1, <1>3, <1>4, <1>5 DEF FirstOf, Nullable, FirstSet
<1>6. CASE Kind(n) \notin {"opt", "vec"}
  <2>1. First[n] = First[Kids(n)[1]]
    BY <1>1, <1>6 DEF FirstOf, Wrappers, Conversions
  <2> QED
    BY <2>1, <1>3, <1>4, <1>6 DEF FirstSet
<1> QED
  BY <1>5, <1>6

\* A sequence starts as any of its fields up to the first that is not
\* nullable, and is nullable if all are.
LEMMA SequenceFirst ==
  ASSUME NEW n \in Node, Kind(n) = "seq"
  PROVE  /\ \A j \in 1 .. Len(Kids(n)) :
              (\A l \in 1 .. j - 1 : First[Kids(n)[l]].nil)
                => First[Kids(n)[j]].bytes \subseteq First[n].bytes
         /\ First[n].nil = (\A j \in 1 .. Len(Kids(n)) : First[Kids(n)[j]].nil)
<1>1. First[n] = ConcatFirst(Kids(n), First)
  BY GrammarAssumption DEF FirstOf
<1>2. DOMAIN Kids(n) = 1 .. Len(Kids(n))
  BY NodeFacts
<1> QED
  BY <1>1, <1>2 DEF ConcatFirst

\* An alternation starts as one of its variants, any of them, and is nullable if one is.
LEMMA AlternationFirst ==
  ASSUME NEW n \in Node, Kind(n) = "alt"
  PROVE  /\ \A j \in 1 .. Len(Kids(n)) :
              First[Kids(n)[j]].bytes \subseteq First[n].bytes
         /\ \A b \in First[n].bytes :
              \E j \in 1 .. Len(Kids(n)) : b \in First[Kids(n)[j]].bytes
         /\ First[n].nil = (\E j \in 1 .. Len(Kids(n)) : First[Kids(n)[j]].nil)
<1>1. First[n] = UnionFirst(Kids(n), First)
  BY GrammarAssumption DEF FirstOf
<1>2. DOMAIN Kids(n) = 1 .. Len(Kids(n))
  BY NodeFacts
<1> QED
  BY <1>1, <1>2 DEF UnionFirst

-----------------------------------------------------------------------------
(***************************************************************************)
(* The stack.                                                              *)
(***************************************************************************)

\* A sequence without its last element.
LEMMA FrontProperties ==
  ASSUME NEW S, NEW s \in Seq(S), s # <<>>
  PROVE  /\ Len(s) \in Nat \ {0}
         /\ Front(s) \in Seq(S)
         /\ Len(Front(s)) = Len(s) - 1
         /\ \A i \in 1 .. Len(s) - 1 : Front(s)[i] = s[i]
         /\ Last(s) = s[Len(s)]
         /\ Last(s) \in S
<1>1. Len(s) \in Nat \ {0}
  BY EmptySeq
<1>2. \A i \in 1 .. Len(s) : s[i] \in S
  BY ElementOfSeq
<1> DEFINE n == Len(s) - 1
           sub == SubSeq(s, 1, n)
<1>3. n \in Nat /\ 1 \in Int /\ n \in Int
  BY <1>1
<1>4. \A i \in 1 .. n : s[i] \in S
  BY <1>1, <1>2
<1>5. /\ sub \in Seq(S)
      /\ Len(sub) = IF 1 <= n THEN n - 1 + 1 ELSE 0
      /\ \A i \in 1 .. n - 1 + 1 : sub[i] = s[1 + i - 1]
  <2> HIDE DEF n
  <2> QED
    BY <1>3, <1>4, SubSeqProperties
<1>6. \A i \in 1 .. n : i \in 1 .. n - 1 + 1 /\ 1 + i - 1 = i
  BY <1>3
<1>7. Len(sub) = n /\ \A i \in 1 .. n : sub[i] = s[i]
  <2> HIDE DEF n, sub
  <2> QED
    BY <1>3, <1>5, <1>6
<1>8. Last(s) = s[Len(s)] /\ Last(s) \in S
  BY <1>1, <1>2 DEF Last
<1> QED
  BY <1>1, <1>5, <1>7, <1>8 DEF Front

\* The sequence with a new last element.
LEMMA ReplaceLast ==
  ASSUME NEW S, NEW s \in Seq(S), s # <<>>, NEW e \in S
  PROVE  /\ [s EXCEPT ![Len(s)] = e] \in Seq(S)
         /\ Len([s EXCEPT ![Len(s)] = e]) = Len(s)
         /\ \A i \in 1 .. Len(s) - 1 : [s EXCEPT ![Len(s)] = e][i] = s[i]
         /\ [s EXCEPT ![Len(s)] = e][Len(s)] = e
         /\ Last([s EXCEPT ![Len(s)] = e]) = e
<1> DEFINE t == [s EXCEPT ![Len(s)] = e]
<1>1. Len(s) \in Nat \ {0}
  BY EmptySeq
<1>2. Len(s) \in 1 .. Len(s)
  BY <1>1
<1>3. /\ t \in Seq(S)
      /\ Len(t) = Len(s)
      /\ \A j \in 1 .. Len(s) : t[j] = IF j = Len(s) THEN e ELSE s[j]
  BY <1>2, ExceptSeq
<1> HIDE DEF t
<1>4. t[Len(s)] = e
  BY <1>2, <1>3
<1>5. \A i \in 1 .. Len(s) - 1 : i \in 1 .. Len(s) /\ i # Len(s)
  BY <1>1
<1>6. \A i \in 1 .. Len(s) - 1 : t[i] = s[i]
  BY <1>3, <1>5
<1>7. Last(t) = e
  BY <1>3, <1>4 DEF Last
<1> QED
  BY <1>3, <1>4, <1>6, <1>7 DEF t

-----------------------------------------------------------------------------
(***************************************************************************)
(* What the three ways to change the stack leave to show.                  *)
(***************************************************************************)

\* An answer of an activation is one of the operation it runs for its caller.
LEMMA AnswerPassesOn ==
  ASSUME NEW s, NEW f, NEW n, NEW op, NEW p, NEW r,
         Runs(f, n, op, p), AnswerOK(s, f.node, f.op, f.pos, r)
  PROVE  AnswerOK(s, n, op, p, r)
<1>1. CASE f.op = op
  BY <1>1 DEF Runs
<1>2. CASE f.op # op
  <2>1. ~r.ok /\ op \in Matching
    BY <1>2 DEF Runs, AnswerOK
  <2> QED
    BY <2>1 DEF AnswerOK, Matching
<1> QED
  BY <1>1, <1>2

\* An activation ends.
LEMMA ReturnStep ==
  ASSUME IInv, phase # "idle", stack # <<>>, NEW r \in Result, Return(r),
         history' \in HistorySet, AllUnmet(input, history'),
         AnswerOK(input, Top.node, Top.op, Top.pos, r)
  PROVE  IInv'
<1>1. stack \in Seq(FrameSet)
  BY DEF IInv, TypeOK
<1>2. /\ Len(stack) \in Nat \ {0}
      /\ stack' \in Seq(FrameSet)
      /\ Len(stack') = Len(stack) - 1
      /\ \A i \in 1 .. Len(stack) - 1 : stack'[i] = stack[i]
      /\ Top = stack[Len(stack)]
  BY <1>1, FrontProperties DEF Return, Top
<1>3. TypeOK'
  BY <1>2 DEF IInv, TypeOK, Return
<1>4. StackOK'
  <2>1. \A k \in 1 .. Len(stack') : FrameOK(input, stack'[k])
    BY <1>2 DEF IInv, StackOK
  <2>2. \A k \in 1 .. Len(stack') - 1 : Waits(stack'[k], stack'[k + 1])
    BY <1>2 DEF IInv, StackOK
  <2>3. stack' # <<>> => stack'[1] = stack[1]
    BY <1>2, EmptySeq
  <2>4. Entry' = Entry
    BY DEF Entry, Return
  <2> QED
    BY <2>1, <2>2, <2>3, <2>4 DEF IInv, StackOK, Return
<1>5. stack' # <<>> => Top' = stack[Len(stack) - 1] /\ Waits(Top', Top)
  <2> SUFFICES ASSUME stack' # <<>>
               PROVE  Top' = stack[Len(stack) - 1] /\ Waits(Top', Top)
    OBVIOUS
  <2>1. Len(stack') \in Nat \ {0} /\ Top' = stack'[Len(stack')]
    BY <1>2, FrontProperties DEF Top
  <2>2. Top' = stack[Len(stack) - 1] /\ Len(stack) - 1 \in 1 .. Len(stack) - 1
    BY <1>2, <2>1
  <2>3. Waits(stack[Len(stack) - 1], stack[Len(stack) - 1 + 1])
    BY <2>2 DEF IInv, StackOK
  <2>4. Len(stack) - 1 + 1 = Len(stack)
    BY <1>2
  <2> QED
    BY <1>2, <2>2, <2>3, <2>4
<1>6. stack' = <<>> => Top = stack[1]
  <2> SUFFICES ASSUME stack' = <<>> PROVE Top = stack[1]
    OBVIOUS
  <2>1. Len(stack') = 0
    BY EmptySeq
  <2>2. Len(stack) - 1 = 0 /\ Len(stack) \in Nat
    BY <1>2, <2>1
  <2>3. Len(stack) = 1
    BY <2>2
  <2> QED
    BY <1>2, <2>3
<1>7. PhaseOK'
  BY <1>5 DEF IInv, PhaseOK, Return, Waits
<1>8. ReturnOK'
  <2>1. CASE stack' = <<>>
    <3>1. Runs(Top, root, EntryOp(Entry), 0)
      BY <2>1, <1>6 DEF IInv, StackOK
    <3>2. AnswerOK(input, root, EntryOp(Entry), 0, r)
      BY <3>1, AnswerPassesOn
    <3>3. AskedNode' = root /\ AskedPos' = 0 /\ AskedOp' = EntryOp(Entry)
      BY <2>1 DEF AskedNode, AskedPos, AskedOp, Entry, Return
    <3> QED
      BY <3>2, <3>3 DEF ReturnOK, Return
  <2>2. CASE stack' # <<>>
    <3>1. Runs(Top, Callee(Top'), KidOp(Top'), Top'.cur)
      BY <2>2, <1>5 DEF Waits
    <3>2. AnswerOK(input, Callee(Top'), KidOp(Top'), Top'.cur, r)
      BY <3>1, AnswerPassesOn
    <3>3. /\ AskedNode' = Callee(Top') /\ AskedPos' = Top'.cur
          /\ AskedOp' = KidOp(Top')
      BY <2>2 DEF AskedNode, AskedPos, AskedOp
    <3> QED
      BY <3>2, <3>3 DEF ReturnOK, Return
  <2> QED
    BY <2>1, <2>2
<1>9. TracesUnmet'
  BY DEF TracesUnmet, Return
<1> QED
  BY <1>3, <1>4, <1>7, <1>8, <1>9 DEF IInv

\* An activation goes on, as f.
LEMMA ContinueStep ==
  ASSUME IInv, phase # "idle", stack # <<>>, NEW f \in FrameSet, Continue(f),
         FrameOK(input, f), f.node = Top.node, f.pos = Top.pos,
         f.op # Top.op => f.op = "miss" /\ Top.op \in Matching
  PROVE  IInv'
<1>1. stack \in Seq(FrameSet)
  BY DEF IInv, TypeOK
<1>2. /\ Len(stack) \in Nat \ {0}
      /\ stack' \in Seq(FrameSet)
      /\ Len(stack') = Len(stack)
      /\ \A i \in 1 .. Len(stack) - 1 : stack'[i] = stack[i]
      /\ stack'[Len(stack)] = f
      /\ Top = stack[Len(stack)]
      /\ stack' # <<>>
  BY <1>1, FrontProperties, ReplaceLast, EmptySeq DEF Continue, Top
<1>3. TypeOK'
  BY <1>2 DEF IInv, TypeOK, Continue
<1>4. \A n, op, p : Runs(Top, n, op, p) => Runs(f, n, op, p)
  BY DEF Runs
<1>5. StackOK'
  <2>1. \A k \in 1 .. Len(stack') : FrameOK(input, stack'[k])
    <3> SUFFICES ASSUME NEW k \in 1 .. Len(stack')
                 PROVE  FrameOK(input, stack'[k])
      OBVIOUS
    <3>1. k = Len(stack) \/ k \in 1 .. Len(stack) - 1
      BY <1>2
    <3> QED
      BY <3>1, <1>2 DEF IInv, StackOK
  <2>2. \A k \in 1 .. Len(stack') - 1 : Waits(stack'[k], stack'[k + 1])
    <3> SUFFICES ASSUME NEW k \in 1 .. Len(stack) - 1
                 PROVE  Waits(stack[k], stack'[k + 1])
      BY <1>2
    <3>1. Waits(stack[k], stack[k + 1])
      BY DEF IInv, StackOK
    <3>2. k + 1 = Len(stack) \/ k + 1 \in 1 .. Len(stack) - 1
      BY <1>2
    <3> QED
      BY <3>1, <3>2, <1>2, <1>4 DEF Waits
  <2>3. Runs(stack'[1], root, EntryOp(Entry), 0)
    <3>1. Runs(stack[1], root, EntryOp(Entry), 0)
      BY DEF IInv, StackOK
    <3>2. 1 = Len(stack) \/ 1 \in 1 .. Len(stack) - 1
      BY <1>2
    <3> QED
      BY <3>1, <3>2, <1>2, <1>4
  <2>4. Entry' = Entry
    BY DEF Entry, Continue
  <2> QED
    BY <2>1, <2>2, <2>3, <2>4 DEF StackOK, Continue
<1>6. PhaseOK'
  BY <1>2 DEF IInv, PhaseOK, Continue
<1>7. ReturnOK' /\ TracesUnmet'
  BY DEF IInv, ReturnOK, TracesUnmet, Continue
<1> QED
  BY <1>3, <1>5, <1>6, <1>7 DEF IInv

\* An activation starts g, with its own history set aside or not.
LEMMA PushStep ==
  ASSUME IInv, phase = "call", HasCall(Top), phase' = "call",
         NEW f \in FrameSet, FrameOK(input, f), HasCall(f),
         f.node = Top.node, f.op = Top.op, f.pos = Top.pos,
         NEW g \in FrameSet, FrameOK(input, g),
         Runs(g, Callee(f), KidOp(f), f.cur),
         stack' = Append([stack EXCEPT ![Len(stack)] = f], g),
         history' \in HistorySet, AllUnmet(input, history'),
         UNCHANGED <<input, root, ret, outcomes>>
  PROVE  IInv'
<1> DEFINE s == [stack EXCEPT ![Len(stack)] = f]
<1>1. stack \in Seq(FrameSet) /\ stack # <<>>
  BY DEF IInv, TypeOK, PhaseOK
<1>2. /\ Len(stack) \in Nat \ {0}
      /\ s \in Seq(FrameSet)
      /\ Len(s) = Len(stack)
      /\ \A i \in 1 .. Len(stack) - 1 : s[i] = stack[i]
      /\ s[Len(stack)] = f
      /\ Top = stack[Len(stack)]
  BY <1>1, FrontProperties, ReplaceLast DEF Top
<1> HIDE DEF s
<1>3. stack' = Append(s, g)
  BY DEF s
<1>4. /\ stack' \in Seq(FrameSet)
      /\ Len(stack') = Len(s) + 1
      /\ \A i \in 1 .. Len(s) : stack'[i] = s[i]
      /\ stack'[Len(s) + 1] = g
  <2>1. /\ Append(s, g) \in Seq(FrameSet)
        /\ Len(Append(s, g)) = Len(s) + 1
        /\ \A i \in 1 .. Len(s) : Append(s, g)[i] = s[i]
        /\ Append(s, g)[Len(s) + 1] = g
    BY <1>2, AppendProperties
  <2> QED
    BY <1>3, <2>1
<1>5. /\ Len(stack') = Len(stack) + 1
      /\ \A i \in 1 .. Len(stack) - 1 : stack'[i] = stack[i]
      /\ stack'[Len(stack)] = f
      /\ stack'[Len(stack) + 1] = g
      /\ stack' # <<>>
  BY <1>2, <1>4, EmptySeq
<1>6. TypeOK'
  BY <1>4 DEF IInv, TypeOK
<1>7. \A n, op, p : Runs(Top, n, op, p) => Runs(f, n, op, p)
  BY DEF Runs
<1>8. StackOK'
  <2>1. \A k \in 1 .. Len(stack') : FrameOK(input, stack'[k])
    <3> SUFFICES ASSUME NEW k \in 1 .. Len(stack')
                 PROVE  FrameOK(input, stack'[k])
      OBVIOUS
    <3>1. k = Len(stack) \/ k = Len(stack) + 1 \/ k \in 1 .. Len(stack) - 1
      BY <1>2, <1>5
    <3> QED
      BY <3>1, <1>2, <1>5 DEF IInv, StackOK
  <2>2. \A k \in 1 .. Len(stack') - 1 : Waits(stack'[k], stack'[k + 1])
    <3> SUFFICES ASSUME NEW k \in 1 .. Len(stack)
                 PROVE  Waits(stack'[k], stack'[k + 1])
      <4>1. Len(stack') - 1 = Len(stack)
        BY <1>2, <1>5
      <4> QED
        BY <4>1
    <3>1. CASE k = Len(stack)
      BY <3>1, <1>5 DEF Waits
    <3>2. CASE k \in 1 .. Len(stack) - 1
      <4>1. Waits(stack[k], stack[k + 1])
        BY <3>2 DEF IInv, StackOK
      <4>2. k + 1 = Len(stack) \/ k + 1 \in 1 .. Len(stack) - 1
        BY <3>2, <1>2
      <4> QED
        BY <3>2, <4>1, <4>2, <1>2, <1>5, <1>7 DEF Waits
    <3> QED
      BY <1>2, <3>1, <3>2
  <2>3. Runs(stack'[1], root, EntryOp(Entry), 0)
    <3>1. Runs(stack[1], root, EntryOp(Entry), 0)
      BY <1>1 DEF IInv, StackOK
    <3>2. 1 = Len(stack) \/ 1 \in 1 .. Len(stack) - 1
      BY <1>2
    <3> QED
      BY <3>1, <3>2, <1>2, <1>5, <1>7
  <2>4. Entry' = Entry
    BY DEF Entry
  <2> QED
    BY <2>1, <2>2, <2>3, <2>4 DEF StackOK
<1>9. PhaseOK'
  BY <1>5 DEF IInv, PhaseOK
<1>10. ReturnOK' /\ TracesUnmet'
  BY DEF ReturnOK, TracesUnmet
<1> QED
  BY <1>6, <1>8, <1>9, <1>10 DEF IInv

-----------------------------------------------------------------------------
(***************************************************************************)
(* Activations.                                                            *)
(***************************************************************************)

\* What is known of the top activation.
LEMMA TopFacts ==
  ASSUME IInv, stack # <<>>
  PROVE  /\ Top \in FrameSet
         /\ Top.node \in Node
         /\ FrameOK(input, Top)
         /\ input \in Text /\ Len(input) \in Nat
         /\ ret \in Result
         /\ history \in HistorySet /\ AllUnmet(input, history)
<1>1. stack \in Seq(FrameSet)
  BY DEF IInv, TypeOK
<1>2. Top \in FrameSet /\ Top = stack[Len(stack)] /\ Len(stack) \in Nat \ {0}
  BY <1>1, FrontProperties DEF Top
<1>3. FrameOK(input, Top)
  BY <1>2 DEF IInv, StackOK
<1>4. input \in Text /\ ret \in Result /\ history \in HistorySet
  BY ParserAssumption DEF IInv, TypeOK
<1>5. Len(input) \in Nat
  BY <1>4, LenProperties DEF Text
<1>6. Top.node \in Node
  BY <1>2 DEF FrameSet
<1> QED
  BY <1>2, <1>3, <1>4, <1>5, <1>6 DEF IInv, TracesUnmet

\* A fresh activation is in order where it may start.
LEMMA ActivationOK ==
  ASSUME NEW s \in Text, NEW n \in Node, NEW op \in Matching \cup {"fail"},
         NEW p \in Nat, p <= Len(s), NEW ctx \in Context,
         op = "fail" => ~StartsAt(s, n, p)
  PROVE  /\ Activation(n, op, p, ctx) \in FrameSet
         /\ FrameOK(s, Activation(n, op, p, ctx))
         /\ Runs(Activation(n, op, p, ctx), n, op, p)
<1> DEFINE f == Activation(n, op, p, ctx)
<1>1. Def[n].name \in STRING /\ Len(Kids(n)) \in Nat /\ Kind(n) \in Kinds
  BY NodeFacts DEF DefSet
<1>2. Context_(n, p, ctx) \in Context
  <2>1. [node |-> Def[n].name, pos |-> p] \in RuleFrame
    BY <1>1 DEF RuleFrame
  <2>2. <<[node |-> Def[n].name, pos |-> p]>> \in Seq(RuleFrame)
    BY <2>1
  <2>3. <<>> \in Seq(RuleFrame) /\ ctx \in Seq(RuleFrame)
    BY DEF Context
  <2>4. EnterRule(ctx, Def[n].name, p) \in Context
    BY <2>2, <2>3, ConcatProperties DEF EnterRule, Context
  <2> QED
    BY <2>4 DEF Context_
<1>3. EmptyHistory \in HistorySet /\ AllUnmet(s, EmptyHistory)
  BY EmptySeq DEF EmptyHistory, HistorySet, AllUnmet
<1>4. f \in FrameSet
  BY <1>2, <1>3, EmptySeq DEF Activation, FrameSet, Failing, Text
<1>5. Kind(n) = "alt" => Len(Kids(n)) >= 1
  BY NodeFacts DEF WellFormed
<1>6. /\ f.node = n /\ f.op = op /\ f.pos = p /\ f.cur = p
      /\ f.out = <<>> /\ f.items = 0 /\ f.all = TRUE /\ f.saved = EmptyHistory
      /\ f.i = IF Dispatches(n, op) THEN 0 ELSE 1
  BY DEF Activation
<1>7. /\ f.i \in {0, 1}
      /\ f.i = 0 => Kind(n) = "alt" /\ op \in Matching
  BY <1>6 DEF Dispatches
<1>8. op \notin {"miss"} /\ (op \in Failing => op = "fail")
  BY DEF Matching, Failing
<1> HIDE DEF f
<1>9. Located(s, f)
  BY <1>6 DEF Located
<1>10. Indexed(f)
  <2>1. Kind(n) = "alt" => f.i \in 0 .. Len(Kids(n))
    BY <1>1, <1>5, <1>7
  <2>2. op \in Failing => f.i = 1
    BY <1>7 DEF Matching, Failing
  <2> QED
    BY <1>1, <1>6, <1>7, <1>8, <2>1, <2>2 DEF Indexed
<1>11. Advanced(s, f)
  <2>1. op \in Failing => f.i = 1
    BY <1>7 DEF Matching, Failing
  <2>2. Kind(n) = "seq" => f.i = 1
    BY <1>7
  <2>3. Kind(n) = "seq" => FieldsMayMatch(s, Kids(n), f.i, p, p)
    BY <2>2 DEF FieldsMayMatch
  <2> QED
    BY <1>6, <2>1, <2>3 DEF Advanced
<1>12. Built(s, f)
  BY <1>6, SliceEmpty DEF Built, PrintsSlice
<1>13. FailsRightly(s, f)
  BY <1>6, <1>8 DEF FailsRightly
<1>15. FrameOK(s, f)
  BY <1>3, <1>6, <1>9, <1>10, <1>11, <1>12, <1>13 DEF FrameOK
<1> QED
  BY <1>4, <1>6, <1>15 DEF Runs, f

\* What an activation calls is a grammar, and calling changes no kind of
\* operation: fail_at only calls fail_at.
LEMMA CalleeFacts ==
  ASSUME NEW f \in FrameSet, HasCall(f)
  PROVE  /\ f.node \in Node
         /\ Callee(f) \in Node
         /\ KidIndex(f) \in 1 .. Len(Kids(f.node))
         /\ f.op \in Failing => KidOp(f) = "fail"
         /\ f.op \in Matching => KidOp(f) \in Matching
<1>1. f.node \in Node /\ f.op \in Matching \cup Failing
  BY DEF FrameSet
<1>2. KidIndex(f) \in 1 .. Len(Kids(f.node))
  BY <1>1, NodeFacts DEF HasCall
<1>3. Callee(f) \in Node
  BY <1>1, <1>2, NodeFacts DEF Callee
<1>4. f.op \in Failing => KidOp(f) = "fail"
  BY DEF KidOp
<1>5. f.op \in Matching => KidOp(f) \in Matching
  BY DEF KidOp, Matching, Failing
<1> QED
  BY <1>1, <1>2, <1>3, <1>4, <1>5

\* fail_at asks no kid that could start here.
LEMMA KidFailsRightly ==
  ASSUME NEW s, NEW f \in FrameSet, FrameOK(s, f), HasCall(f),
         f.op \in Failing
  PROVE  ~StartsAt(s, Callee(f), f.cur)
<1> DEFINE n == f.node
<1>1. n \in Node /\ Callee(f) \in Node /\ KidIndex(f) \in 1 .. Len(Kids(n))
  BY CalleeFacts
<1>2. f.cur = f.pos /\ ~StartsAt(s, n, f.pos)
  BY DEF FrameOK, Located, FailsRightly, Matching, Failing
<1>3. SUFFICES First[Callee(f)].bytes \subseteq First[n].bytes
  BY <1>2, <1>3 DEF StartsAt
<1>4. KidIndex(f) = f.i
  BY DEF KidIndex, Matching, Failing
<1>5. CASE Kind(n) = "seq"
  BY <1>1, <1>4, <1>5, SequenceFirst DEF FrameOK, Advanced, Callee
<1>6. CASE Kind(n) = "alt"
  BY <1>1, <1>4, <1>6, AlternationFirst DEF Callee
<1>7. CASE Kind(n) = "vec1"
  <2>1. Kids(n)[2] \in Node /\ Kind(Kids(n)[2]) = "vec"
        /\ Kids(Kids(n)[2])[1] = Kids(n)[1] /\ Len(Kids(n)) = 2
    BY <1>1, <1>7, NodeFacts DEF WellFormed
  <2>2. First[n].bytes = First[Kids(n)[1]].bytes
    BY <1>1, <1>7, WrappedFirst
  <2>3. First[Kids(n)[2]].bytes = First[Kids(n)[1]].bytes
    BY <2>1, WrappedFirst DEF Wrappers
  <2>4. Callee(f) = Kids(n)[1] \/ Callee(f) = Kids(n)[2]
    BY <1>1, <1>4, <2>1 DEF Callee
  <2> QED
    BY <2>2, <2>3, <2>4
<1>8. CASE Kind(n) \in Wrappers \cup Conversions
  <2>1. Kind(n) # "not"
    BY DEF HasCall
  <2>2. Callee(f) = Kids(n)[1]
    BY <1>4, <1>8 DEF FrameOK, Indexed, Callee, Wrappers, Conversions
  <2> QED
    BY <1>1, <1>8, <2>1, <2>2, WrappedFirst
<1>9. CASE Kind(n) \in Literals \cup {"class", "unit"}
  <2>1. Kids(n) = <<>>
    BY <1>1, <1>9, NodeFacts DEF WellFormed
  <2>2. Len(Kids(n)) = 0
    BY <2>1, EmptySeq
  <2> QED
    BY <1>1, <2>2
<1> QED
  BY <1>1, <1>5, <1>6, <1>7, <1>8, <1>9, NodeFacts DEF Kinds

-----------------------------------------------------------------------------
(***************************************************************************)
(* Calls, and the entry points.                                            *)
(***************************************************************************)

\* What Call and Probe push is in order.
LEMMA CalleeOK ==
  ASSUME IInv, stack # <<>>, HasCall(Top)
  PROVE  /\ Started(Top) \in FrameSet
         /\ FrameOK(input, Started(Top))
         /\ Runs(Started(Top), Callee(Top), KidOp(Top), Top.cur)
<1>1. /\ Top \in FrameSet /\ FrameOK(input, Top)
      /\ input \in Text
  BY TopFacts
<1>2. /\ Callee(Top) \in Node
      /\ Top.op \in Failing => KidOp(Top) = "fail"
      /\ Top.op \in Matching => KidOp(Top) \in Matching
  BY <1>1, CalleeFacts
<1>3. /\ Top.cur \in Nat /\ Top.ctx \in Context
      /\ Top.op \in Matching \cup Failing
  BY <1>1 DEF FrameSet
<1>4. Top.cur <= Len(input)
  BY <1>1 DEF FrameOK, Located
<1>5. KidOp(Top) = "fail" => ~StartsAt(input, Callee(Top), Top.cur)
  <2>1. KidOp(Top) = "fail" => Top.op \in Failing
    BY <1>2, <1>3 DEF Matching
  <2> QED
    BY <1>1, <2>1, KidFailsRightly
<1>6. KidOp(Top) \in Matching \cup {"fail"}
  BY <1>2, <1>3
<1> QED
  BY <1>1, <1>2, <1>3, <1>4, <1>5, <1>6, ActivationOK DEF Started

LEMMA BeginOK ==
  ASSUME IInv, Begin
  PROVE  IInv'
<1> DEFINE g == Activation(root, EntryOp(Entry), 0, <<>>)
<1>1. root \in Node /\ input \in Text
  BY ParserAssumption DEF IInv, TypeOK
<1>2. EntryOp(Entry) \in Matching \cup {"fail"} /\ EntryOp(Entry) # "fail"
  BY DEF EntryOp, Matching
<1>3. <<>> \in Context /\ 0 <= Len(input)
  BY <1>1, EmptySeq, LenProperties DEF Context, Text
<1>4. /\ g \in FrameSet
      /\ FrameOK(input, g)
      /\ Runs(g, root, EntryOp(Entry), 0)
  BY <1>1, <1>2, <1>3, ActivationOK
<1> HIDE DEF g
<1>5. stack' = <<g>>
  BY DEF Begin, g
<1>6. stack' \in Seq(FrameSet) /\ Len(stack') = 1 /\ stack'[1] = g
  BY <1>4, <1>5
<1>7. EmptyHistory \in HistorySet /\ AllUnmet(input, EmptyHistory)
  BY EmptySeq DEF EmptyHistory, HistorySet, AllUnmet
<1>8. TypeOK'
  BY <1>6, <1>7 DEF IInv, TypeOK, Begin
<1>9. PhaseOK'
  BY <1>5 DEF PhaseOK, Begin
<1>10. StackOK'
  <2>1. Entry' = Entry
    BY DEF Entry, Begin
  <2> QED
    BY <1>4, <1>6, <2>1 DEF StackOK, Begin
<1>11. ReturnOK' /\ TracesUnmet'
  BY <1>7 DEF ReturnOK, TracesUnmet, Begin
<1> QED
  BY <1>8, <1>9, <1>10, <1>11 DEF IInv

LEMMA CallOK ==
  ASSUME IInv, Call
  PROVE  IInv'
<1> DEFINE g == Started(Top)
<1>1. stack # <<>> /\ HasCall(Top)
  BY DEF IInv, PhaseOK, Call
<1>2. /\ Top \in FrameSet /\ FrameOK(input, Top)
      /\ history \in HistorySet /\ AllUnmet(input, history)
  BY <1>1, TopFacts
<1>3. /\ g \in FrameSet /\ FrameOK(input, g)
      /\ Runs(g, Callee(Top), KidOp(Top), Top.cur)
  BY <1>1, CalleeOK
<1>4. stack' = Append(stack, g)
  BY DEF Call
<1> HIDE DEF g
<1>5. [stack EXCEPT ![Len(stack)] = Top] = stack
  BY <1>1, FrontProperties DEF Top, Last, IInv, TypeOK
<1>6. stack' = Append([stack EXCEPT ![Len(stack)] = Top], g)
  BY <1>4, <1>5
<1> QED
  BY <1>1, <1>2, <1>3, <1>6, PushStep DEF Call

LEMMA ProbeOK ==
  ASSUME IInv, Probe
  PROVE  IInv'
<1> DEFINE f == [Top EXCEPT !.saved = history]
           g == Started(Top)
<1>1. stack # <<>> /\ HasCall(Top)
  BY DEF IInv, PhaseOK, Probe
<1>2. /\ Top \in FrameSet /\ FrameOK(input, Top)
      /\ history \in HistorySet /\ AllUnmet(input, history)
  BY <1>1, TopFacts
<1>3. /\ g \in FrameSet /\ FrameOK(input, g)
      /\ Runs(g, Callee(Top), KidOp(Top), Top.cur)
  BY <1>1, CalleeOK
<1>4. /\ f \in FrameSet /\ f.saved = history
      /\ f.node = Top.node /\ f.op = Top.op /\ f.pos = Top.pos
      /\ f.cur = Top.cur /\ f.i = Top.i /\ f.out = Top.out
      /\ f.items = Top.items /\ f.all = Top.all
  BY <1>2 DEF FrameSet
<1>5. stack' = Append([stack EXCEPT ![Len(stack)].saved = history], g)
  BY DEF Probe
<1> HIDE DEF g
<1>6. stack' = Append([stack EXCEPT ![Len(stack)] = f], g)
  <2>1. stack \in Seq(FrameSet) /\ Len(stack) \in Nat \ {0}
        /\ Top = stack[Len(stack)]
    BY <1>1, FrontProperties DEF IInv, TypeOK, Top
  <2>2. [stack EXCEPT ![Len(stack)].saved = history]
          = [stack EXCEPT ![Len(stack)] = f]
    BY <2>1
  <2> QED
    BY <1>5, <2>2
<1> HIDE DEF f
<1>7. FrameOK(input, f) /\ HasCall(f) /\ Callee(f) = Callee(Top)
      /\ KidOp(f) = KidOp(Top)
  BY <1>1, <1>2, <1>4 DEF FrameOK, Located, Indexed, Advanced, Built,
       FailsRightly, HasCall, KidIndex, Callee, KidOp, NeedsValue
<1>8. EmptyHistory \in HistorySet /\ AllUnmet(input, EmptyHistory)
  BY EmptySeq DEF EmptyHistory, HistorySet, AllUnmet
<1> QED
  BY <1>1, <1>3, <1>4, <1>6, <1>7, <1>8, PushStep DEF Probe

-----------------------------------------------------------------------------
(***************************************************************************)
(* Answers and what is reported with them.                                 *)
(***************************************************************************)

LEMMA ResultTypes ==
  /\ Nothing \in Result
  /\ \A b \in BOOLEAN : Required(b) \in Result /\ Required(b).ok = b
BY EmptySeq DEF Nothing, Required, Result, Text

\* A match is an answer if FIRST allows it and its value prints it.
LEMMA MatchOK ==
  ASSUME NEW s, NEW f \in FrameSet, f.op \in Matching,
         NEW end \in Nat, NEW print \in Text, NEW items \in {0, 1},
         MayMatch(s, f.node, f.pos, end),
         PrintsSlice(s, f.node, f.op, print, f.pos, end),
         Kind(f.node) = "vec" /\ items # 0 => end # f.pos
  PROVE  /\ Match(f, end, print, items) \in Result
         /\ AnswerOK(s, f.node, f.op, f.pos, Match(f, end, print, items))
<1> DEFINE r == Match(f, end, print, items)
<1>0. <<>> \in Text
  BY EmptySeq DEF Text
<1>1. /\ r \in Result /\ r.ok /\ r.end = end
      /\ f.op = "parse" => r.print = print /\ r.items = items
  BY <1>0 DEF Match, Result
<1> HIDE DEF r
<1>2. f.op # "fail" /\ f.op # "miss"
  BY DEF Matching
<1>3. AnswerOK(s, f.node, f.op, f.pos, r)
  BY <1>1, <1>2 DEF AnswerOK, PrintsSlice
<1> QED
  BY <1>1, <1>3 DEF r

\* parse_at and scan_at may always answer that there is no match.
LEMMA NothingOK ==
  ASSUME NEW s, NEW n, NEW op \in Matching, NEW p
  PROVE  AnswerOK(s, n, op, p, Nothing)
BY DEF AnswerOK, Nothing, Matching

\* A history that gets a true expectation stays one of true expectations.
LEMMA RecordOK ==
  ASSUME NEW s, NEW h \in HistorySet, NEW context \in Context, NEW pos \in Nat,
         NEW e \in Expectation, AllUnmet(s, h), Unmet(s, pos, e)
  PROVE  /\ Record(h, context, pos, e) \in HistorySet
         /\ AllUnmet(s, Record(h, context, pos, e))
<1> DEFINE trace == [context |-> context, expectation |-> e]
           h2 == Record(h, context, pos, e)
<1>1. trace \in Trace /\ trace.expectation = e
  BY DEF Trace
<1>2. h.pos \in Nat /\ h.traces \in Seq(Trace)
  BY DEF HistorySet
<1> HIDE DEF trace
<1>3. CASE pos = h.pos
  <2> DEFINE joined == Append(h.traces, trace)
  <2>1. h2 = [h EXCEPT !.traces = joined]
    BY <1>2, <1>3 DEF Record, trace
  <2>2. /\ joined \in Seq(Trace)
        /\ Len(joined) = Len(h.traces) + 1
        /\ \A t \in 1 .. Len(h.traces) : joined[t] = h.traces[t]
        /\ joined[Len(h.traces) + 1] = trace
    BY <1>1, <1>2, AppendProperties
  <2>3. Len(h.traces) \in Nat
    BY <1>2, LenProperties
  <2> HIDE DEF joined
  <2>4. h2 \in HistorySet /\ h2.pos = h.pos /\ h2.traces = joined
    BY <2>1, <2>2 DEF HistorySet
  <2>5. \A t \in 1 .. Len(joined) : Unmet(s, h.pos, joined[t].expectation)
    <3> TAKE t \in 1 .. Len(joined)
    <3>1. t \in 1 .. Len(h.traces) \/ t = Len(h.traces) + 1
      BY <2>2, <2>3
    <3> QED
      BY <3>1, <2>2, <1>1, <1>3 DEF AllUnmet
  <2> QED
    BY <2>4, <2>5 DEF AllUnmet
<1>4. CASE pos > h.pos
  <2>1. h2 = [pos |-> pos, traces |-> <<trace>>]
    BY <1>2, <1>4 DEF Record, trace
  <2>2. <<trace>> \in Seq(Trace) /\ Len(<<trace>>) = 1 /\ <<trace>>[1] = trace
    BY <1>1
  <2>3. h2 \in HistorySet /\ h2.pos = pos /\ h2.traces = <<trace>>
    BY <2>1, <2>2 DEF HistorySet
  <2> QED
    BY <2>2, <2>3, <1>1 DEF AllUnmet
<1>5. CASE pos < h.pos
  BY <1>2, <1>5 DEF Record
<1> QED
  BY <1>2, <1>3, <1>4, <1>5

\* Where it reports something true, the top activation may end; Expect and
\* Return are how an action does both.
LEMMA ExpectOK ==
  ASSUME IInv, stack # <<>>, NEW pos \in Nat, NEW e \in Expectation,
         Unmet(input, pos, e), Expect(pos, e)
  PROVE  history' \in HistorySet /\ AllUnmet(input, history')
<1>1. /\ Top \in FrameSet /\ history \in HistorySet
      /\ AllUnmet(input, history)
  BY TopFacts
<1>2. Top.ctx \in Context
  BY <1>1 DEF FrameSet
<1> QED
  BY <1>1, <1>2, RecordOK DEF Expect

\* An answer to the top activation is about what it asked.
LEMMA AnsweredFacts ==
  ASSUME IInv, NEW kinds, NEW ops, Answered(kinds, ops)
  PROVE  /\ phase # "idle" /\ stack # <<>> /\ HasCall(Top)
         /\ Kind(Top.node) \in kinds /\ Top.op \in ops
         /\ AnswerOK(input, Callee(Top), KidOp(Top), Top.cur, ret)
BY DEF IInv, PhaseOK, ReturnOK, AskedNode, AskedOp, AskedPos, Answered

LEMMA GoingFacts ==
  ASSUME IInv, NEW kinds, NEW ops, Going(kinds, ops)
  PROVE  /\ phase # "idle" /\ stack # <<>>
         /\ Kind(Top.node) \in kinds /\ Top.op \in ops
BY DEF IInv, PhaseOK, Going

-----------------------------------------------------------------------------
(***************************************************************************)
(* Leaves.                                                                 *)
(***************************************************************************)

\* Where a literal agrees up to its end, it starts with its FIRST set and
\* prints what it matched.
LEMMA LiteralAgrees ==
  ASSUME NEW n \in Node, Kind(n) \in Literals, input \in Text,
         NEW p \in Nat, AgreesUpTo(n, p, Len(Def[n].text))
  PROVE  LET end == p + Len(Def[n].text)
         IN /\ MayMatch(input, n, p, end)
            /\ LiteralPrint(n, p, end) = Slice(input, p, end)
<1> DEFINE text == Def[n].text
           end == p + Len(text)
<1>1. /\ text \in Text /\ Len(text) \in Nat \ {0} /\ text[1] \in Byte
      /\ Len(input) \in Nat
  BY NodeFacts, LiteralFirst, LenProperties DEF Text
<1>2. \A j \in 1 .. Len(text) : Agrees(n, p, j)
  BY DEF AgreesUpTo
<1>3. Agrees(n, p, 1) /\ Agrees(n, p, Len(text))
  BY <1>1, <1>2
<1>4. p + 1 <= Len(input) /\ end <= Len(input)
  BY <1>3 DEF Agrees
<1>5. input[p + 1] \in Byte
  BY <1>1, <1>4, TextByte
<1>6. StartsAt(input, n, p)
  <2>1. CASE Kind(n) = "lit"
    BY <2>1, <1>1, <1>3, <1>4, LiteralFirst DEF Agrees, StartsAt
  <2>2. CASE Kind(n) = "litCI"
    <3>1. Lower(input[p + 1]) = Lower(text[1])
      BY <2>2, <1>3 DEF Agrees
    <3>2. input[p + 1] \in First[n].bytes
      BY <3>1, <2>2, <1>1, <1>5, SameLetter, LiteralFirst
    <3> QED
      BY <3>2, <1>1, <1>4 DEF StartsAt
  <2> QED
    BY <2>1, <2>2 DEF Literals
<1>7. MayMatch(input, n, p, end)
  BY <1>1, <1>4, <1>6 DEF MayMatch
<1>8. LiteralPrint(n, p, end) = Slice(input, p, end)
  <2>1. CASE Kind(n) = "lit"
    <3>1. end \in Nat /\ p <= end /\ end - p = Len(text)
      BY <1>1
    <3> HIDE DEF end, text
    <3>2. /\ Slice(input, p, end) \in Text
          /\ Len(Slice(input, p, end)) = Len(text)
          /\ \A i \in 1 .. Len(text) : Slice(input, p, end)[i] = input[p + i]
      <4>1. /\ Slice(input, p, end) \in Text
            /\ Len(Slice(input, p, end)) = end - p
            /\ \A i \in 1 .. end - p : Slice(input, p, end)[i] = input[p + i]
        BY <1>4, <3>1, SliceProperties
      <4> QED
        BY <3>1, <4>1
    <3>3. \A i \in 1 .. Len(text) : text[i] = Slice(input, p, end)[i]
      BY <2>1, <1>2, <3>2 DEF Agrees, text
    <3>4. text \in Seq(Byte) /\ Slice(input, p, end) \in Seq(Byte)
      BY <1>1, <3>2 DEF Text
    <3>5. text = Slice(input, p, end)
      BY <3>2, <3>3, <3>4, SeqEqual
    <3> QED
      BY <2>1, <3>5 DEF LiteralPrint, text
  <2>2. CASE Kind(n) # "lit"
    BY <2>2 DEF LiteralPrint
  <2> QED
    BY <2>1, <2>2
<1> QED
  BY <1>7, <1>8

LEMMA LiteralMatchOK ==
  ASSUME IInv, LiteralMatch
  PROVE  IInv'
<1> DEFINE n == Top.node
           end == Top.pos + Len(Def[n].text)
           print == LiteralPrint(n, Top.pos, end)
<1>1. /\ phase # "idle" /\ stack # <<>>
      /\ Kind(n) \in Literals /\ Top.op \in Matching
  BY GoingFacts DEF LiteralMatch
<1>2. /\ Top \in FrameSet /\ n \in Node /\ input \in Text
      /\ history \in HistorySet /\ AllUnmet(input, history)
  BY <1>1, TopFacts
<1>3. Top.pos \in Nat /\ Len(Def[n].text) \in Nat /\ Def[n].text \in Text
  BY <1>1, <1>2, NodeFacts, LiteralFirst DEF FrameSet
<1>4. /\ MayMatch(input, n, Top.pos, end)
      /\ print = Slice(input, Top.pos, end)
  BY <1>1, <1>2, <1>3, LiteralAgrees DEF LiteralMatch
<1>5. end \in Nat /\ end <= Len(input)
  BY <1>3, <1>4 DEF MayMatch
<1>6. Return(Match(Top, end, print, 0)) /\ UNCHANGED history
  BY DEF LiteralMatch
<1> HIDE DEF n, end, print
<1>7. print \in Text
  BY <1>2, <1>3, <1>4, <1>5, SliceProperties
<1>8. Kind(n) # "vec"
  BY <1>1 DEF Literals
<1>9. /\ Match(Top, end, print, 0) \in Result
      /\ AnswerOK(input, Top.node, Top.op, Top.pos, Match(Top, end, print, 0))
  BY <1>1, <1>2, <1>4, <1>5, <1>7, <1>8, MatchOK DEF PrintsSlice, n
<1> QED
  BY <1>1, <1>2, <1>6, <1>9, ReturnStep

\* Where a literal agrees up to k but not up to l, its rest from k is unmet.
LEMMA RestUnmet ==
  ASSUME NEW n \in Node, Kind(n) \in Literals, input \in Text,
         NEW p \in Nat, NEW k \in Nat, NEW l \in Nat,
         l <= Len(Def[n].text), AgreesUpTo(n, p, k), ~AgreesUpTo(n, p, l)
  PROVE  LET rest == Slice(Def[n].text, k, Len(Def[n].text))
         IN Expected(n, rest) \in Expectation /\ Unmet(input, p + k, Expected(n, rest))
<1> DEFINE text == Def[n].text
           rest == Slice(text, k, Len(text))
           e == Expected(n, rest)
<1>1. text \in Text /\ Len(text) \in Nat
  BY NodeFacts, LiteralFirst
<1>2. PICK j \in 1 .. l : ~Agrees(n, p, j)
  BY DEF AgreesUpTo
<1>3. j > k /\ j \in Nat
  BY <1>2 DEF AgreesUpTo
<1>4. /\ rest \in Text /\ Len(rest) = Len(text) - k
      /\ \A i \in 1 .. Len(text) - k : rest[i] = text[k + i]
  <2>1. k <= Len(text) /\ Len(text) <= Len(text)
    BY <1>1, <1>2, <1>3
  <2>2. \A t \in Text, e2 \in Nat : k <= e2 /\ e2 <= Len(t) =>
          /\ Slice(t, k, e2) \in Text
          /\ Len(Slice(t, k, e2)) = e2 - k
          /\ \A i \in 1 .. e2 - k : Slice(t, k, e2)[i] = t[k + i]
    BY SliceProperties
  <2> HIDE DEF text
  <2> QED
    BY <1>1, <2>1, <2>2
<1>5. j - k \in 1 .. Len(rest) /\ k + (j - k) = j /\ (p + k) + (j - k) = p + j
  BY <1>1, <1>2, <1>3, <1>4
<1>6. rest[j - k] = text[j]
  BY <1>1, <1>4, <1>5
<1> HIDE DEF rest, text
<1>7. e.of = n /\ e.text = rest /\ e \in Expectation
  BY <1>4 DEF Expected, Expectation
<1>8. CASE Kind(n) = "lit"
  <2>1. e.kind = "StringEq"
    BY <1>8 DEF Expected
  <2>2. p + j > Len(input) \/ input[p + j] # text[j]
    BY <1>2, <1>3, <1>8, LenProperties DEF Agrees, Text, text
  <2> QED
    BY <1>5, <1>6, <1>7, <2>1, <2>2 DEF Unmet, rest, text
<1>9. CASE Kind(n) = "litCI"
  <2>1. e.kind = "StringEqCI"
    BY <1>9 DEF Expected
  <2>2. p + j > Len(input) \/ Lower(input[p + j]) # Lower(text[j])
    BY <1>2, <1>3, <1>9, LenProperties DEF Agrees, Text, text
  <2> QED
    BY <1>5, <1>6, <1>7, <2>1, <2>2 DEF Unmet, rest, text
<1> QED
  BY <1>7, <1>8, <1>9 DEF Literals, rest, text

LEMMA LiteralMismatchOK ==
  ASSUME IInv, LiteralMismatch
  PROVE  IInv'
<1> DEFINE n == Top.node
           text == Def[n].text
<1>1. /\ phase # "idle" /\ stack # <<>>
      /\ Kind(n) \in Literals /\ Top.op \in Matching
  BY GoingFacts DEF LiteralMismatch
<1>2. Top \in FrameSet /\ n \in Node /\ input \in Text
  BY <1>1, TopFacts
<1>3. Top.pos \in Nat /\ Len(text) \in Nat
  BY <1>1, <1>2, LiteralFirst DEF FrameSet
<1>4. PICK k \in 0 .. Len(text), l \in 0 .. Len(text) :
        /\ AgreesUpTo(n, Top.pos, k)
        /\ ~AgreesUpTo(n, Top.pos, l)
        /\ Expect(Top.pos + k, Expected(n, Slice(text, k, Len(text))))
  BY DEF LiteralMismatch
<1>5. k \in Nat /\ l \in Nat /\ l <= Len(text) /\ Top.pos + k \in Nat
  BY <1>3
<1>6. /\ Expected(n, Slice(text, k, Len(text))) \in Expectation
      /\ Unmet(input, Top.pos + k, Expected(n, Slice(text, k, Len(text))))
  BY <1>1, <1>2, <1>3, <1>4, <1>5, RestUnmet
<1>7. history' \in HistorySet /\ AllUnmet(input, history')
  BY <1>1, <1>4, <1>5, <1>6, ExpectOK
<1> QED
  BY <1>1, <1>7, ResultTypes, NothingOK, ReturnStep DEF LiteralMismatch

LEMMA CharMatchOK ==
  ASSUME IInv, CharMatch
  PROVE  IInv'
<1> DEFINE n == Top.node
<1>1. /\ phase # "idle" /\ stack # <<>>
      /\ Kind(n) = "class" /\ Top.op \in Matching
  BY GoingFacts DEF CharMatch
<1>2. /\ Top \in FrameSet /\ n \in Node /\ input \in Text /\ Len(input) \in Nat
      /\ history \in HistorySet /\ AllUnmet(input, history)
  BY <1>1, TopFacts
<1>3. Top.pos \in Nat
  BY <1>2 DEF FrameSet
<1>4. PICK end \in Top.pos + 1 .. Len(input) :
        Return(Match(Top, end, Slice(input, Top.pos, end), 0))
  BY DEF CharMatch
<1>5. end \in Nat /\ end <= Len(input) /\ end > Top.pos /\ Top.pos < Len(input)
  BY <1>2, <1>3, <1>4
<1>6. Slice(input, Top.pos, end) \in Text
  BY <1>2, <1>3, <1>5, SliceProperties
<1>7. input[Top.pos + 1] \in Byte
  BY <1>2, <1>3, <1>5, TextByte
<1>8. MayMatch(input, n, Top.pos, end)
  BY <1>1, <1>2, <1>3, <1>5, <1>7, LeafFirst DEF MayMatch, StartsAt
<1>9. /\ Match(Top, end, Slice(input, Top.pos, end), 0) \in Result
      /\ AnswerOK(input, n, Top.op, Top.pos,
                  Match(Top, end, Slice(input, Top.pos, end), 0))
  BY <1>1, <1>2, <1>5, <1>6, <1>8, MatchOK DEF PrintsSlice
<1> QED
  BY <1>1, <1>2, <1>4, <1>9, ReturnStep DEF CharMatch

LEMMA CharMismatchOK ==
  ASSUME IInv, CharMismatch
  PROVE  IInv'
<1> DEFINE e == Expected(Top.node, <<>>)
<1>1. /\ phase # "idle" /\ stack # <<>>
      /\ Kind(Top.node) = "class" /\ Top.op \in Matching
  BY GoingFacts DEF CharMismatch
<1>2. Top \in FrameSet /\ Top.node \in Node /\ Top.pos \in Nat
  BY <1>1, TopFacts DEF FrameSet
<1>3. e \in Expectation /\ e.kind = "CharClass" /\ e.of = Top.node
  BY <1>1, <1>2, EmptySeq DEF Expected, Expectation, Text
<1>4. Unmet(input, Top.pos, e)
  BY <1>3 DEF Unmet, CharMismatch, CharHere
<1>5. history' \in HistorySet /\ AllUnmet(input, history')
  BY <1>1, <1>2, <1>3, <1>4, ExpectOK DEF CharMismatch
<1> QED
  BY <1>1, <1>5, ResultTypes, NothingOK, ReturnStep DEF CharMismatch

\* A leaf that cannot start somewhere is not there.
LEMMA LeafUnmet ==
  ASSUME NEW s \in Text, NEW n \in Node, NEW p \in Nat,
         Kind(n) \in Literals \cup {"class"}, ~StartsAt(s, n, p)
  PROVE  LET e == Expected(n, Def[n].text)
         IN e \in Expectation /\ Unmet(s, p, e)
<1> DEFINE text == Def[n].text
           e == Expected(n, text)
<1>1. Len(s) \in Nat /\ text \in Text
  BY NodeFacts, LenProperties DEF Text
<1>2. e \in Expectation /\ e.of = n /\ e.text = text
  BY <1>1 DEF Expected, Expectation
<1>3. CASE Kind(n) = "class"
  <2>1. ~(p < Len(s))
    <3> SUFFICES ASSUME p < Len(s) PROVE FALSE
      OBVIOUS
    <3>1. s[p + 1] \in Byte
      BY <1>1, TextByte
    <3> QED
      BY <3>1, <1>3, LeafFirst DEF StartsAt
  <2>2. p + 1 .. Len(s) = {}
    BY <1>1, <2>1
  <2>3. e.kind = "CharClass"
    BY <1>3 DEF Expected
  <2> QED
    BY <1>2, <2>2, <2>3 DEF Unmet
<1>4. CASE Kind(n) \in Literals
  <2>1. /\ Len(text) \in Nat \ {0} /\ text[1] \in Byte
        /\ Kind(n) = "lit" => First[n].bytes = {text[1]}
        /\ Kind(n) = "litCI" => First[n].bytes = {Lower(text[1]), Upper(text[1])}
    BY <1>4, LiteralFirst
  <2>2. 1 \in 1 .. Len(text)
    BY <2>1
  <2> HIDE DEF text
  <2>3. CASE Kind(n) = "lit"
    <3>1. e.kind = "StringEq"
      BY <2>3 DEF Expected
    <3>2. p + 1 > Len(s) \/ s[p + 1] # text[1]
      BY <1>1, <2>1, <2>3 DEF StartsAt
    <3> QED
      BY <1>2, <2>2, <3>1, <3>2 DEF Unmet, text
  <2>4. CASE Kind(n) = "litCI"
    <3>1. e.kind = "StringEqCI"
      BY <2>4 DEF Expected
    <3>2. p + 1 > Len(s) \/ Lower(s[p + 1]) # Lower(text[1])
      <4> SUFFICES ASSUME ~(p + 1 > Len(s))
                   PROVE  Lower(s[p + 1]) # Lower(text[1])
        OBVIOUS
      <4>1. p < Len(s) /\ p + 1 \in 1 .. Len(s)
        BY <1>1
      <4>2. s[p + 1] \in Byte
        BY <4>1, TextByte
      <4> QED
        BY <4>1, <4>2, <2>1, <2>4, SameLetter DEF StartsAt
    <3> QED
      BY <1>2, <2>2, <3>1, <3>2 DEF Unmet, text
  <2> QED
    BY <1>4, <2>3, <2>4 DEF Literals, text
<1> QED
  BY <1>2, <1>3, <1>4

LEMMA FailLeafOK ==
  ASSUME IInv, FailLeaf
  PROVE  IInv'
<1> DEFINE n == Top.node
           e == Expected(n, Def[n].text)
<1>1. /\ phase # "idle" /\ stack # <<>>
      /\ Kind(n) \in Literals \cup {"class"} /\ Top.op \in Failing
  BY GoingFacts DEF FailLeaf
<1>2. /\ Top \in FrameSet /\ n \in Node /\ Top.pos \in Nat
      /\ FrameOK(input, Top) /\ input \in Text
  BY <1>1, TopFacts DEF FrameSet
<1>3. ~StartsAt(input, n, Top.pos)
  BY <1>1, <1>2 DEF FrameOK, FailsRightly
<1>4. e \in Expectation /\ Unmet(input, Top.pos, e)
  BY <1>1, <1>2, <1>3, LeafUnmet
<1>5. history' \in HistorySet /\ AllUnmet(input, history')
  <2> HIDE DEF e
  <2> QED
    BY <1>1, <1>2, <1>4, ExpectOK DEF FailLeaf, e
<1>6. ~First[n].nil
  BY <1>1, <1>2, LiteralFirst, LeafFirst
<1>7. Top.op = "fail"
  BY <1>1, <1>2 DEF FrameOK, Indexed, Failing, Literals
<1>8. AnswerOK(input, n, Top.op, Top.pos, Required(TRUE))
  BY <1>6, <1>7, ResultTypes DEF AnswerOK, Matching
<1> QED
  BY <1>1, <1>5, <1>8, ResultTypes, ReturnStep DEF FailLeaf

LEMMA UnitMatchOK ==
  ASSUME IInv, UnitMatch
  PROVE  IInv'
<1>1. /\ phase # "idle" /\ stack # <<>>
      /\ Kind(Top.node) = "unit" /\ Top.op \in Matching
  BY GoingFacts DEF UnitMatch
<1>2. /\ Top \in FrameSet /\ Top.node \in Node /\ Top.pos \in Nat
      /\ FrameOK(input, Top) /\ history \in HistorySet
      /\ AllUnmet(input, history)
  BY <1>1, TopFacts DEF FrameSet
<1>3. MayMatch(input, Top.node, Top.pos, Top.pos)
  BY <1>1, <1>2, LeafFirst DEF FrameOK, Located, MayMatch, Matching
<1>4. <<>> \in Text
  BY EmptySeq DEF Text
<1>5. /\ Match(Top, Top.pos, <<>>, 0) \in Result
      /\ AnswerOK(input, Top.node, Top.op, Top.pos, Match(Top, Top.pos, <<>>, 0))
  BY <1>1, <1>2, <1>3, <1>4, SliceEmpty, MatchOK DEF PrintsSlice
<1> QED
  BY <1>1, <1>2, <1>5, ReturnStep DEF UnitMatch

LEMMA FailNothingOK ==
  ASSUME IInv, FailNothing
  PROVE  IInv'
<1>1. /\ phase # "idle" /\ stack # <<>>
      /\ Kind(Top.node) \in {"unit", "not"} /\ Top.op \in Failing
  BY GoingFacts DEF FailNothing
<1>2. /\ Top.node \in Node /\ FrameOK(input, Top) /\ history \in HistorySet
      /\ AllUnmet(input, history)
  BY <1>1, TopFacts
<1>3. Top.op = "fail"
  BY <1>1, <1>2 DEF FrameOK, Indexed, Failing
<1>4. First[Top.node].nil
  BY <1>1, <1>2, LeafFirst
<1>5. AnswerOK(input, Top.node, Top.op, Top.pos, Required(FALSE))
  BY <1>3, <1>4, ResultTypes DEF AnswerOK, Matching
<1> QED
  BY <1>1, <1>2, <1>5, ResultTypes, ReturnStep DEF FailNothing

-----------------------------------------------------------------------------
(***************************************************************************)
(* Repetition.                                                             *)
(***************************************************************************)

\* A grammar that keeps its text is made of such grammars.
LEMMA LosslessKid ==
  ASSUME NEW n \in Lossless
  PROVE  /\ n \in Node
         /\ Kind(n) # "phantom"
         /\ Def[n].canon = {}
         /\ \A j \in 1 .. Len(Kids(n)) : Kids(n)[j] \in Lossless
<1>1. n \in Node
  BY ParserAssumption
<1> QED
  BY <1>1, NodeFacts, ParserAssumption

\* What a kid that matched tells the activation that asked.
LEMMA KidMatched ==
  ASSUME IInv, NEW kinds, Answered(kinds, Matching), ret.ok
  PROVE  /\ MayMatch(input, Callee(Top), Top.cur, ret.end)
         /\ ret.end \in Nat /\ ret.print \in Text /\ ret.items \in {0, 1}
         /\ KidOp(Top) = "parse" /\ Top.node \in Lossless =>
              ret.print = Slice(input, Top.cur, ret.end)
         /\ KidOp(Top) = "parse" /\ Kind(Callee(Top)) = "vec" /\ ret.items # 0
              => ret.end # Top.cur
<1>1. /\ stack # <<>> /\ HasCall(Top) /\ Top.op \in Matching
      /\ AnswerOK(input, Callee(Top), KidOp(Top), Top.cur, ret)
  BY AnsweredFacts
<1>2. Top \in FrameSet /\ ret \in Result
  BY <1>1, TopFacts
<1>3. KidOp(Top) \in Matching /\ KidIndex(Top) \in 1 .. Len(Kids(Top.node))
  BY <1>1, <1>2, CalleeFacts
<1>4. Top.node \in Lossless => Callee(Top) \in Lossless
  BY <1>3, LosslessKid DEF Callee
<1>5. ret.end \in Nat /\ ret.print \in Text /\ ret.items \in {0, 1}
  BY <1>2 DEF Result
<1> QED
  BY <1>1, <1>3, <1>4, <1>5 DEF AnswerOK, PrintsSlice

LEMMA OptionReturnOK ==
  ASSUME IInv, OptionReturn
  PROVE  IInv'
<1> DEFINE n == Top.node
           empty == Match(Top, Top.pos, <<>>, 0)
<1>1. /\ phase # "idle" /\ stack # <<>> /\ HasCall(Top)
      /\ Kind(n) = "opt" /\ Top.op \in Matching
  BY AnsweredFacts DEF OptionReturn
<1>2. /\ Top \in FrameSet /\ n \in Node /\ Top.pos \in Nat
      /\ FrameOK(input, Top) /\ ret \in Result /\ history \in HistorySet
      /\ AllUnmet(input, history)
  BY <1>1, TopFacts DEF FrameSet
<1>3. /\ Top.cur = Top.pos /\ Top.pos <= Len(input)
      /\ Callee(Top) = Kids(n)[1]
  BY <1>1, <1>2 DEF FrameOK, Located, Indexed, Callee, KidIndex
<1>4. /\ First[n].nil
      /\ First[n].bytes = First[Kids(n)[1]].bytes
  BY <1>1, <1>2, WrappedFirst DEF Wrappers
<1>5. CASE ret.ok
  <2>1. /\ MayMatch(input, Kids(n)[1], Top.pos, ret.end)
        /\ KidOp(Top) = "parse" /\ n \in Lossless =>
             ret.print = Slice(input, Top.pos, ret.end)
    BY <1>3, <1>5, KidMatched DEF OptionReturn
  <2>2. MayMatch(input, n, Top.pos, ret.end)
    BY <1>4, <2>1 DEF MayMatch, StartsAt
  <2>3. Top.op = "parse" => KidOp(Top) = "parse"
    BY <1>1 DEF KidOp, Failing
  <2>4. AnswerOK(input, n, Top.op, Top.pos, ret)
    BY <1>1, <2>1, <2>2, <2>3 DEF AnswerOK, PrintsSlice, Matching
  <2> QED
    BY <1>1, <1>2, <1>5, <2>4, ReturnStep DEF OptionReturn
<1>6. CASE ~ret.ok
  <2>1. MayMatch(input, n, Top.pos, Top.pos)
    BY <1>2, <1>3, <1>4 DEF MayMatch
  <2>2. <<>> \in Text
    BY EmptySeq DEF Text
  <2>3. empty \in Result /\ AnswerOK(input, n, Top.op, Top.pos, empty)
    BY <1>1, <1>2, <2>1, <2>2, SliceEmpty, MatchOK DEF PrintsSlice
  <2> QED
    BY <1>1, <1>2, <1>6, <2>3, ReturnStep DEF OptionReturn
<1> QED
  BY <1>5, <1>6

LEMMA VecItemOK ==
  ASSUME IInv, VecItem
  PROVE  IInv'
<1> DEFINE n == Top.node
           kid == Kids(n)[1]
           out == Top.out \o ret.print
           items == 1
           f == [Top EXCEPT !.cur = ret.end, !.out = out, !.items = items]
<1>1. /\ phase # "idle" /\ stack # <<>> /\ HasCall(Top)
      /\ Kind(n) = "vec" /\ Top.op \in Matching
  BY AnsweredFacts DEF VecItem
<1>2. /\ Top \in FrameSet /\ n \in Node /\ Top.pos \in Nat /\ Top.cur \in Nat
      /\ Top.out \in Text /\ Top.items \in {0, 1}
      /\ FrameOK(input, Top) /\ input \in Text /\ Len(input) \in Nat
  BY <1>1, TopFacts DEF FrameSet
<1>3. /\ Top.pos <= Top.cur
      /\ Callee(Top) = kid
      /\ Top.cur # Top.pos => StartsAt(input, kid, Top.pos)
  BY <1>1, <1>2 DEF FrameOK, Located, Indexed, Advanced, Callee, KidIndex
<1>4. /\ ret.ok /\ ret.end # Top.cur
      /\ MayMatch(input, kid, Top.cur, ret.end)
      /\ ret.end \in Nat /\ ret.print \in Text
      /\ KidOp(Top) = "parse" /\ n \in Lossless =>
           ret.print = Slice(input, Top.cur, ret.end)
  BY <1>3, KidMatched DEF VecItem, OneMore
<1>5. /\ ret.end > Top.cur /\ ret.end <= Len(input)
      /\ Top.cur <= ret.end /\ Top.pos <= ret.end /\ ret.end # Top.pos
      /\ StartsAt(input, kid, Top.cur)
  BY <1>2, <1>3, <1>4 DEF MayMatch
<1>6. out \in Text /\ items \in {0, 1} /\ items # 0
  BY <1>2, <1>4, ConcatProperties DEF Text
<1>7. Continue(f)
  BY DEF VecItem
<1>8. Top.op = "parse" /\ n \in Lossless =>
        out = Slice(input, Top.pos, ret.end)
  <2> SUFFICES ASSUME Top.op = "parse", n \in Lossless
               PROVE  out = Slice(input, Top.pos, ret.end)
    OBVIOUS
  <2>1. KidOp(Top) = "parse"
    BY <1>1 DEF KidOp, Failing
  <2>2. Top.out = Slice(input, Top.pos, Top.cur)
    BY <1>1, <1>2 DEF FrameOK, Built, PrintsSlice
  <2>3. \A p, q, e \in Nat : p <= q /\ q <= e /\ e <= Len(input) =>
          Slice(input, p, q) \o Slice(input, q, e) = Slice(input, p, e)
    BY <1>2, SliceJoin
  <2>4. Slice(input, Top.pos, Top.cur) \o Slice(input, Top.cur, ret.end)
          = Slice(input, Top.pos, ret.end)
    <3>1. /\ Top.pos \in Nat /\ Top.cur \in Nat /\ ret.end \in Nat
          /\ Top.pos <= Top.cur /\ Top.cur <= ret.end
          /\ ret.end <= Len(input) /\ Len(input) \in Nat
      BY <1>2, <1>3, <1>4, <1>5
    <3> QED
      BY <3>1, <2>3
  <2> QED
    BY <1>4, <2>1, <2>2, <2>4
<1> HIDE DEF out, items
<1>9. /\ f \in FrameSet /\ f.node = n /\ f.op = Top.op /\ f.pos = Top.pos
      /\ f.cur = ret.end /\ f.i = Top.i /\ f.out = out
      /\ f.items = items /\ f.all = Top.all /\ f.saved = Top.saved
  BY <1>2, <1>4, <1>6 DEF FrameSet
<1> HIDE DEF f
<1>10. Located(input, f)
  BY <1>1, <1>5, <1>9 DEF Located
<1>11. Indexed(f)
  BY <1>1, <1>2, <1>9 DEF FrameOK, Indexed
<1>12. Advanced(input, f)
  <2>1. StartsAt(input, kid, Top.pos)
    BY <1>3, <1>5
  <2>2. Top.all
    BY <1>1, <1>2 DEF FrameOK, Advanced
  <2> QED
    BY <1>1, <1>5, <1>9, <2>1, <2>2 DEF Advanced, Matching, Failing
<1>13. Built(input, f)
  BY <1>8, <1>9 DEF Built, PrintsSlice
<1>14. FailsRightly(input, f) /\ AllUnmet(input, f.saved)
  BY <1>2, <1>9 DEF FrameOK, FailsRightly
<1>15. FrameOK(input, f)
  BY <1>10, <1>11, <1>12, <1>13, <1>14 DEF FrameOK
<1> QED
  BY <1>1, <1>7, <1>9, <1>15, ContinueStep

LEMMA VecEndOK ==
  ASSUME IInv, VecEnd
  PROVE  IInv'
<1> DEFINE n == Top.node
<1>1. /\ phase # "idle" /\ stack # <<>> /\ HasCall(Top)
      /\ Kind(n) = "vec" /\ Top.op \in Matching
  BY AnsweredFacts DEF VecEnd
<1>2. /\ Top \in FrameSet /\ n \in Node /\ Top.pos \in Nat /\ Top.cur \in Nat
      /\ Top.out \in Text /\ Top.items \in {0, 1} /\ FrameOK(input, Top)
      /\ history \in HistorySet /\ AllUnmet(input, history)
  BY <1>1, TopFacts DEF FrameSet
<1>3. /\ First[n].nil
      /\ First[n].bytes = First[Kids(n)[1]].bytes
  BY <1>1, <1>2, WrappedFirst DEF Wrappers
<1>4. MayMatch(input, n, Top.pos, Top.cur)
  BY <1>1, <1>2, <1>3 DEF FrameOK, Located, Advanced, MayMatch, StartsAt
<1>5. PrintsSlice(input, n, Top.op, Top.out, Top.pos, Top.cur)
  BY <1>1, <1>2 DEF FrameOK, Built
<1>6. Top.items # 0 => Top.cur # Top.pos
  BY <1>1, <1>2 DEF FrameOK, Advanced
<1>7. /\ Match(Top, Top.cur, Top.out, Top.items) \in Result
      /\ AnswerOK(input, n, Top.op, Top.pos,
                  Match(Top, Top.cur, Top.out, Top.items))
  BY <1>1, <1>2, <1>4, <1>5, <1>6, MatchOK
<1> QED
  BY <1>1, <1>2, <1>7, ReturnStep DEF VecEnd

LEMMA Vec1ReturnOK ==
  ASSUME IInv, Vec1Return
  PROVE  IInv'
<1> DEFINE n == Top.node
           vec == Kids(n)[2]
           r == Match(Top, ret.end, ret.print, 0)
<1>1. /\ phase # "idle" /\ stack # <<>> /\ HasCall(Top)
      /\ Kind(n) = "vec1" /\ Top.op \in Matching
  BY AnsweredFacts DEF Vec1Return
<1>2. /\ Top \in FrameSet /\ n \in Node /\ Top.pos \in Nat
      /\ FrameOK(input, Top)
      /\ history \in HistorySet /\ AllUnmet(input, history)
  BY <1>1, TopFacts DEF FrameSet
<1>3. Top.cur = Top.pos /\ Callee(Top) = vec
  BY <1>1, <1>2 DEF FrameOK, Located, Callee, KidIndex
<1>4. /\ vec \in Node /\ Kind(vec) = "vec" /\ Kids(vec)[1] = Kids(n)[1]
  BY <1>1, <1>2, NodeFacts DEF WellFormed
<1>5. First[n].bytes = First[vec].bytes
  BY <1>1, <1>2, <1>4, WrappedFirst DEF Wrappers
<1>6. /\ MayMatch(input, vec, Top.pos, ret.end)
      /\ ret.end \in Nat /\ ret.print \in Text
      /\ KidOp(Top) = "parse" /\ n \in Lossless =>
           ret.print = Slice(input, Top.pos, ret.end)
      /\ KidOp(Top) = "parse" /\ ret.items # 0 => ret.end # Top.pos
  BY <1>3, <1>4, KidMatched DEF Vec1Return
<1>7. CASE NoItem(Top, ret)
  BY <1>1, <1>2, <1>7, ResultTypes, NothingOK, ReturnStep DEF Vec1Return
<1>8. CASE ~NoItem(Top, ret)
  <2>1. Top.op = "parse" => KidOp(Top) = "parse"
    BY <1>1 DEF KidOp, Failing
  <2>2. ret.end # Top.pos
    BY <1>6, <1>8, <2>1 DEF NoItem
  <2>3. MayMatch(input, n, Top.pos, ret.end)
    BY <1>5, <1>6, <2>2 DEF MayMatch, StartsAt
  <2>4. PrintsSlice(input, n, Top.op, ret.print, Top.pos, ret.end)
    BY <1>6, <2>1 DEF PrintsSlice
  <2>5. r \in Result /\ AnswerOK(input, n, Top.op, Top.pos, r)
    BY <1>1, <1>2, <1>6, <2>3, <2>4, MatchOK
  <2> QED
    BY <1>1, <1>2, <1>8, <2>5, ReturnStep DEF Vec1Return
<1> QED
  BY <1>7, <1>8

-----------------------------------------------------------------------------
(***************************************************************************)
(* Sequence.                                                               *)
(***************************************************************************)

\* One field more.
LEMMA FieldsAndOne ==
  ASSUME NEW s, NEW kids, NEW i \in Nat \ {0}, NEW p \in Nat, NEW q \in Nat,
         NEW e \in Nat, p <= q, q <= e,
         FieldsMayMatch(s, kids, i, p, q), MayMatch(s, kids[i], q, e)
  PROVE  FieldsMayMatch(s, kids, i + 1, p, e)
<1>1. \A j \in 1 .. (i + 1) - 1 : j \in 1 .. i - 1 \/ j = i
  OBVIOUS
<1>2. i \in 1 .. (i + 1) - 1 /\ \A j \in 1 .. i - 1 : j \in 1 .. (i + 1) - 1
  OBVIOUS
<1>3. ASSUME e = p
      PROVE  \A j \in 1 .. (i + 1) - 1 : First[kids[j]].nil
  <2>1. q = p /\ e = q
    BY <1>3
  <2> QED
    BY <1>1, <2>1 DEF FieldsMayMatch, MayMatch
<1>4. ASSUME e > p
      PROVE  \E j \in 1 .. (i + 1) - 1 :
               /\ StartsAt(s, kids[j], p)
               /\ \A l \in 1 .. j - 1 : First[kids[l]].nil
  <2>1. CASE q > p
    BY <1>2, <2>1 DEF FieldsMayMatch
  <2>2. CASE ~(q > p)
    <3>1. q = p /\ e > q
      BY <1>4, <2>2
    <3>2. StartsAt(s, kids[i], p) /\ \A l \in 1 .. i - 1 : First[kids[l]].nil
      BY <3>1 DEF FieldsMayMatch, MayMatch
    <3> QED
      BY <1>2, <3>2
  <2> QED
    BY <2>1, <2>2
<1> QED
  BY <1>3, <1>4 DEF FieldsMayMatch

\* All fields together are a match of the sequence.
LEMMA FieldsMatch ==
  ASSUME NEW s, NEW n \in Node, Kind(n) = "seq", NEW p \in Nat, NEW e \in Nat,
         p <= e, e <= Len(s),
         FieldsMayMatch(s, Kids(n), Len(Kids(n)) + 1, p, e)
  PROVE  MayMatch(s, n, p, e)
<1> DEFINE kids == Kids(n)
<1>1. Len(kids) \in Nat
  BY NodeFacts
<1>2. (Len(kids) + 1) - 1 = Len(kids)
  BY <1>1
<1>3. e = p => First[n].nil
  BY <1>2, SequenceFirst DEF FieldsMayMatch
<1>4. ASSUME e > p
      PROVE  StartsAt(s, n, p)
  <2>1. PICK j \in 1 .. Len(kids) :
               /\ StartsAt(s, kids[j], p)
               /\ \A l \in 1 .. j - 1 : First[kids[l]].nil
    BY <1>2, <1>4 DEF FieldsMayMatch
  <2>2. First[kids[j]].bytes \subseteq First[n].bytes
    BY <2>1, SequenceFirst
  <2> QED
    BY <2>1, <2>2 DEF StartsAt
<1> QED
  BY <1>3, <1>4 DEF MayMatch

LEMMA NextFieldOK ==
  ASSUME IInv, NextField
  PROVE  IInv'
<1> DEFINE n == Top.node
           kid == Kids(n)[Top.i]
           out == Top.out \o ret.print
           next == Top.i + 1
           f == [Top EXCEPT !.cur = ret.end, !.out = out, !.i = next]
<1>1. /\ phase # "idle" /\ stack # <<>> /\ HasCall(Top)
      /\ Kind(n) = "seq" /\ Top.op \in Matching
  BY AnsweredFacts DEF NextField
<1>2. /\ Top \in FrameSet /\ n \in Node /\ Top.pos \in Nat /\ Top.cur \in Nat
      /\ Top.out \in Text /\ Top.i \in Nat
      /\ FrameOK(input, Top) /\ input \in Text /\ Len(input) \in Nat
  BY <1>1, TopFacts DEF FrameSet
<1>3. /\ Top.pos <= Top.cur
      /\ Callee(Top) = kid
      /\ Len(Kids(n)) \in Nat
      /\ Top.i \in 1 .. Len(Kids(n))
      /\ FieldsMayMatch(input, Kids(n), Top.i, Top.pos, Top.cur)
  <2>1. Callee(Top) = kid /\ KidIndex(Top) = Top.i
    BY <1>1 DEF Callee, KidIndex
  <2>2. Top.i \in 1 .. Len(Kids(n))
    BY <1>1, <1>2, <2>1, CalleeFacts
  <2> QED
    BY <1>1, <1>2, <2>1, <2>2, NodeFacts DEF FrameOK, Located, Advanced
<1>4. /\ MayMatch(input, kid, Top.cur, ret.end)
      /\ ret.end \in Nat /\ ret.print \in Text
      /\ KidOp(Top) = "parse" /\ n \in Lossless =>
           ret.print = Slice(input, Top.cur, ret.end)
  BY <1>3, KidMatched DEF NextField
<1>5. /\ ret.end <= Len(input)
      /\ Top.cur <= ret.end /\ Top.pos <= ret.end
  BY <1>2, <1>3, <1>4 DEF MayMatch
<1>6. out \in Text /\ next \in Nat /\ next \in 1 .. Len(Kids(n)) + 1
  BY <1>2, <1>3, <1>4, ConcatProperties DEF Text
<1>7. Continue(f)
  BY DEF NextField
<1>8. Top.op = "parse" /\ n \in Lossless =>
        out = Slice(input, Top.pos, ret.end)
  <2> SUFFICES ASSUME Top.op = "parse", n \in Lossless
               PROVE  out = Slice(input, Top.pos, ret.end)
    OBVIOUS
  <2>1. KidOp(Top) = "parse"
    BY <1>1 DEF KidOp, Failing
  <2>2. Top.out = Slice(input, Top.pos, Top.cur)
    BY <1>1, <1>2 DEF FrameOK, Built, PrintsSlice
  <2>3. \A p, q, e \in Nat : p <= q /\ q <= e /\ e <= Len(input) =>
          Slice(input, p, q) \o Slice(input, q, e) = Slice(input, p, e)
    BY <1>2, SliceJoin
  <2>4. Slice(input, Top.pos, Top.cur) \o Slice(input, Top.cur, ret.end)
          = Slice(input, Top.pos, ret.end)
    <3>1. /\ Top.pos \in Nat /\ Top.cur \in Nat /\ ret.end \in Nat
          /\ Top.pos <= Top.cur /\ Top.cur <= ret.end
          /\ ret.end <= Len(input) /\ Len(input) \in Nat
      BY <1>2, <1>3, <1>4, <1>5
    <3> QED
      BY <3>1, <2>3
  <2> QED
    BY <1>4, <2>1, <2>2, <2>4
<1>9. FieldsMayMatch(input, Kids(n), next, Top.pos, ret.end)
  <2>1. Top.i \in Nat \ {0}
    BY <1>2, <1>3
  <2> QED
    BY <1>2, <1>3, <1>4, <1>5, <2>1, FieldsAndOne
<1> HIDE DEF out, next
<1>10. /\ f \in FrameSet /\ f.node = n /\ f.op = Top.op /\ f.pos = Top.pos
       /\ f.cur = ret.end /\ f.i = next /\ f.out = out
       /\ f.items = Top.items /\ f.all = Top.all /\ f.saved = Top.saved
  BY <1>2, <1>4, <1>6 DEF FrameSet
<1> HIDE DEF f
<1>11. Located(input, f)
  BY <1>1, <1>5, <1>10 DEF Located
<1>12. Indexed(f)
  <2>1. Top.op # "miss"
    BY <1>1 DEF Matching
  <2> QED
    BY <1>1, <1>6, <1>10, <2>1 DEF Indexed
<1>13. Advanced(input, f)
  <2>1. Top.all
    BY <1>1, <1>2 DEF FrameOK, Advanced
  <2> QED
    BY <1>1, <1>9, <1>10, <2>1 DEF Advanced, Matching, Failing
<1>14. Built(input, f)
  BY <1>8, <1>10 DEF Built, PrintsSlice
<1>15. FailsRightly(input, f) /\ AllUnmet(input, f.saved)
  BY <1>2, <1>10 DEF FrameOK, FailsRightly
<1>16. FrameOK(input, f)
  BY <1>11, <1>12, <1>13, <1>14, <1>15 DEF FrameOK
<1> QED
  BY <1>1, <1>7, <1>10, <1>16, ContinueStep

LEMMA FieldFailedOK ==
  ASSUME IInv, FieldFailed
  PROVE  IInv'
<1>1. phase # "idle" /\ stack # <<>> /\ Top.op \in Matching
  BY AnsweredFacts DEF FieldFailed
<1>2. history \in HistorySet /\ AllUnmet(input, history)
  BY <1>1, TopFacts
<1> QED
  BY <1>1, <1>2, ResultTypes, NothingOK, ReturnStep DEF FieldFailed

LEMMA FieldsParsedOK ==
  ASSUME IInv, FieldsParsed
  PROVE  IInv'
<1> DEFINE n == Top.node
<1>1. /\ phase # "idle" /\ stack # <<>> /\ ~HasCall(Top)
      /\ Kind(n) = "seq" /\ Top.op \in Matching
  BY GoingFacts DEF FieldsParsed
<1>2. /\ Top \in FrameSet /\ n \in Node /\ Top.pos \in Nat /\ Top.cur \in Nat
      /\ Top.out \in Text /\ FrameOK(input, Top)
      /\ history \in HistorySet /\ AllUnmet(input, history)
  BY <1>1, TopFacts DEF FrameSet
<1>3. Top.i = Len(Kids(n)) + 1
  <2>1. KidIndex(Top) = Top.i /\ Top.i \notin DOMAIN Kids(n)
    BY <1>1 DEF KidIndex, HasCall
  <2>2. Top.i \in 1 .. Len(Kids(n)) + 1
    BY <1>1, <1>2 DEF FrameOK, Indexed
  <2> QED
    BY <1>2, <2>1, <2>2, NodeFacts
<1>4. /\ Top.pos <= Top.cur /\ Top.cur <= Len(input)
      /\ FieldsMayMatch(input, Kids(n), Len(Kids(n)) + 1, Top.pos, Top.cur)
  BY <1>1, <1>2, <1>3 DEF FrameOK, Located, Advanced
<1>5. MayMatch(input, n, Top.pos, Top.cur)
  BY <1>1, <1>2, <1>4, FieldsMatch
<1>6. PrintsSlice(input, n, Top.op, Top.out, Top.pos, Top.cur)
  BY <1>1, <1>2 DEF FrameOK, Built
<1>7. /\ Match(Top, Top.cur, Top.out, 0) \in Result
      /\ AnswerOK(input, n, Top.op, Top.pos, Match(Top, Top.cur, Top.out, 0))
  BY <1>1, <1>2, <1>5, <1>6, MatchOK
<1> QED
  BY <1>1, <1>2, <1>7, ReturnStep DEF FieldsParsed

\* A verdict says the user's code rejected the text.
LEMMA VerdictUnmet ==
  ASSUME IInv, stack # <<>>, NEW end \in Nat, end <= Len(input), NEW pos
  PROVE  /\ Verdict("Valid", end) \in Expectation
         /\ Verdict("GrammarFrom", end) \in Expectation
         /\ Invalid(Top.node, Slice(input, Top.pos, end)) =>
              Unmet(input, pos, Verdict("Valid", end))
         /\ Unconvertible(Top.node, Slice(input, Top.pos, end)) =>
              Unmet(input, pos, Verdict("GrammarFrom", end))
<1>1. Top.node \in Node /\ Top.pos \in Nat /\ input \in Text
  BY TopFacts DEF FrameSet
<1>2. Slice(input, Top.pos, end) \in Text
  BY <1>1, SliceProperties
<1> QED
  BY <1>1, <1>2 DEF Verdict, Expectation, Invalid, Validates, Unconvertible,
       Converts, Unmet

LEMMA FieldsRejectedOK ==
  ASSUME IInv, FieldsRejected
  PROVE  IInv'
<1> DEFINE e == Verdict("Valid", Top.cur)
<1>1. phase # "idle" /\ stack # <<>> /\ Top.op \in Matching
  BY GoingFacts DEF FieldsRejected
<1>2. Top.cur \in Nat /\ Top.cur <= Len(input)
  BY <1>1, TopFacts DEF FrameSet, FrameOK, Located
<1>3. e \in Expectation /\ Unmet(input, Top.cur, e)
  BY <1>1, <1>2, VerdictUnmet DEF FieldsRejected
<1> HIDE DEF e
<1>4. Expect(Top.cur, e)
  BY DEF FieldsRejected, e
<1>5. history' \in HistorySet /\ AllUnmet(input, history')
  BY <1>1, <1>2, <1>3, <1>4, ExpectOK
<1> QED
  BY <1>1, <1>5, ResultTypes, NothingOK, ReturnStep DEF FieldsRejected

-----------------------------------------------------------------------------
(***************************************************************************)
(* Alternation.                                                            *)
(***************************************************************************)

LEMMA DispatchHitOK ==
  ASSUME IInv, DispatchHit
  PROVE  IInv'
<1> DEFINE n == Top.node
<1>1. /\ phase # "idle" /\ stack # <<>>
      /\ Kind(n) = "alt" /\ Top.op \in Matching
  BY GoingFacts DEF DispatchHit
<1>2. /\ Top \in FrameSet /\ n \in Node /\ FrameOK(input, Top)
      /\ Len(Kids(n)) \in Nat
  BY <1>1, TopFacts, NodeFacts DEF FrameSet
<1>3. PICK k \in DOMAIN Kids(n) : Continue([Top EXCEPT !.i = k])
  BY DEF DispatchHit
<1> DEFINE f == [Top EXCEPT !.i = k]
<1>4. k \in 1 .. Len(Kids(n)) /\ k \in Nat
  BY <1>2, <1>3, NodeFacts
<1>5. /\ f \in FrameSet /\ f.node = n /\ f.op = Top.op /\ f.pos = Top.pos
      /\ f.cur = Top.cur /\ f.i = k /\ f.out = Top.out
      /\ f.items = Top.items /\ f.all = Top.all /\ f.saved = Top.saved
  BY <1>2, <1>4 DEF FrameSet
<1> HIDE DEF f
<1>6. Located(input, f) /\ Built(input, f) /\ FailsRightly(input, f)
      /\ AllUnmet(input, f.saved)
  BY <1>1, <1>2, <1>5 DEF FrameOK, Located, Built, FailsRightly
<1>7. Indexed(f)
  BY <1>1, <1>4, <1>5 DEF Indexed, Matching, Failing
<1>8. Advanced(input, f)
  BY <1>1, <1>2, <1>5 DEF FrameOK, Advanced, Matching, Failing
<1>9. FrameOK(input, f)
  BY <1>6, <1>7, <1>8 DEF FrameOK
<1> QED
  BY <1>1, <1>3, <1>5, <1>9, ContinueStep DEF f

LEMMA DispatchMissOK ==
  ASSUME IInv, DispatchMiss
  PROVE  IInv'
<1> DEFINE n == Top.node
           f == [Top EXCEPT !.op = "miss", !.i = 1]
<1>1. /\ phase # "idle" /\ stack # <<>>
      /\ Kind(n) = "alt" /\ Top.op \in Matching
  BY GoingFacts DEF DispatchMiss
<1>2. /\ Top \in FrameSet /\ n \in Node /\ FrameOK(input, Top)
      /\ Len(Kids(n)) \in Nat /\ Len(Kids(n)) >= 1
  BY <1>1, TopFacts, NodeFacts DEF FrameSet, WellFormed
<1>3. /\ f \in FrameSet /\ f.node = n /\ f.op = "miss" /\ f.pos = Top.pos
      /\ f.cur = Top.cur /\ f.i = 1 /\ f.out = Top.out
      /\ f.items = Top.items /\ f.all = Top.all /\ f.saved = Top.saved
  BY <1>2 DEF FrameSet, Failing
<1>4. Continue(f)
  BY DEF DispatchMiss
<1> HIDE DEF f
<1>5. ~StartsAt(input, n, Top.pos)
  <2>1. \A j \in 1 .. Len(Kids(n)) : ~StartsAt(input, Kids(n)[j], Top.pos)
    BY <1>2, NodeFacts DEF DispatchMiss, MayStart, StartsAt
  <2> QED
    BY <1>1, <1>2, <2>1, AlternationFirst DEF StartsAt
<1>6. FailsRightly(input, f)
  BY <1>3, <1>5 DEF FailsRightly
<1>7. Located(input, f) /\ Built(input, f) /\ AllUnmet(input, f.saved)
  BY <1>1, <1>2, <1>3 DEF FrameOK, Located, Built
<1>8. Indexed(f)
  BY <1>1, <1>2, <1>3 DEF Indexed
<1>9. Advanced(input, f)
  BY <1>1, <1>2, <1>3 DEF FrameOK, Advanced, Matching, Failing
<1>10. FrameOK(input, f)
  BY <1>6, <1>7, <1>8, <1>9 DEF FrameOK
<1> QED
  BY <1>1, <1>3, <1>4, <1>10, ContinueStep

LEMMA VariantMatchedOK ==
  ASSUME IInv, VariantMatched
  PROVE  IInv'
<1> DEFINE n == Top.node
           kid == Callee(Top)
<1>1. /\ phase # "idle" /\ stack # <<>> /\ HasCall(Top)
      /\ Kind(n) = "alt" /\ Top.op \in Matching
  BY AnsweredFacts DEF VariantMatched
<1>2. /\ Top \in FrameSet /\ n \in Node /\ FrameOK(input, Top)
      /\ ret \in Result /\ history \in HistorySet /\ AllUnmet(input, history)
  BY <1>1, TopFacts
<1>3. Top.cur = Top.pos
  BY <1>1, <1>2 DEF FrameOK, Located
<1>4. /\ MayMatch(input, kid, Top.pos, ret.end)
      /\ KidOp(Top) = "parse" /\ n \in Lossless =>
           ret.print = Slice(input, Top.pos, ret.end)
  BY <1>3, KidMatched DEF VariantMatched
<1>5. PICK j \in 1 .. Len(Kids(n)) : kid = Kids(n)[j]
  BY <1>1, <1>2, CalleeFacts DEF Callee
<1>6. MayMatch(input, n, Top.pos, ret.end)
  <2>1. First[Kids(n)[j]].bytes \subseteq First[n].bytes
    BY <1>1, <1>2, AlternationFirst
  <2>2. First[Kids(n)[j]].nil => First[n].nil
    BY <1>1, <1>2, AlternationFirst
  <2> QED
    BY <1>4, <1>5, <2>1, <2>2 DEF MayMatch, StartsAt
<1>7. Top.op = "parse" => KidOp(Top) = "parse"
  BY <1>1 DEF KidOp, Failing
<1>8. AnswerOK(input, n, Top.op, Top.pos, ret)
  BY <1>1, <1>4, <1>6, <1>7 DEF AnswerOK, PrintsSlice, Matching
<1> QED
  BY <1>1, <1>2, <1>8, ReturnStep DEF VariantMatched

LEMMA NextVariantOK ==
  ASSUME IInv, NextVariant
  PROVE  IInv'
<1> DEFINE n == Top.node
           next == Top.i + 1
           f == [Top EXCEPT !.i = next]
<1>1. /\ phase # "idle" /\ stack # <<>>
      /\ Kind(n) = "alt" /\ Top.op \in Matching
  BY AnsweredFacts DEF NextVariant
<1>2. /\ Top \in FrameSet /\ n \in Node /\ FrameOK(input, Top)
      /\ Top.i \in Nat /\ Len(Kids(n)) \in Nat
  BY <1>1, TopFacts, NodeFacts DEF FrameSet
<1>3. next \in 0 .. Len(Kids(n)) /\ next \in Nat
  BY <1>2 DEF NextVariant
<1>4. Continue(f)
  BY DEF NextVariant
<1> HIDE DEF next
<1>5. /\ f \in FrameSet /\ f.node = n /\ f.op = Top.op /\ f.pos = Top.pos
      /\ f.cur = Top.cur /\ f.i = next /\ f.out = Top.out
      /\ f.items = Top.items /\ f.all = Top.all /\ f.saved = Top.saved
  BY <1>2, <1>3 DEF FrameSet
<1> HIDE DEF f
<1>6. Located(input, f) /\ Built(input, f) /\ FailsRightly(input, f)
      /\ AllUnmet(input, f.saved)
  BY <1>1, <1>2, <1>5 DEF FrameOK, Located, Built, FailsRightly
<1>7. Indexed(f)
  BY <1>1, <1>3, <1>5 DEF Indexed, Matching, Failing
<1>8. Advanced(input, f)
  BY <1>1, <1>2, <1>5 DEF FrameOK, Advanced, Matching, Failing
<1>9. FrameOK(input, f)
  BY <1>6, <1>7, <1>8 DEF FrameOK
<1> QED
  BY <1>1, <1>4, <1>5, <1>9, ContinueStep

LEMMA NoVariantOK ==
  ASSUME IInv, NoVariant
  PROVE  IInv'
<1>1. phase # "idle" /\ stack # <<>> /\ Top.op \in Matching
  BY AnsweredFacts DEF NoVariant
<1>2. history \in HistorySet /\ AllUnmet(input, history)
  BY <1>1, TopFacts
<1> QED
  BY <1>1, <1>2, ResultTypes, NothingOK, ReturnStep DEF NoVariant

-----------------------------------------------------------------------------
(***************************************************************************)
(* Lookahead, wrappers and conversions.                                    *)
(***************************************************************************)

LEMMA ProbeReturnOK ==
  ASSUME IInv, ProbeReturn
  PROVE  IInv'
<1> DEFINE empty == Match(Top, Top.pos, <<>>, 0)
<1>1. /\ phase # "idle" /\ stack # <<>>
      /\ Kind(Top.node) = "not" /\ Top.op \in Matching
  BY AnsweredFacts DEF ProbeReturn
<1>2. /\ Top \in FrameSet /\ Top.node \in Node /\ Top.pos \in Nat
      /\ FrameOK(input, Top)
  BY <1>1, TopFacts DEF FrameSet
<1>3. history' \in HistorySet /\ AllUnmet(input, history')
  BY <1>2 DEF FrameSet, FrameOK, ProbeReturn
<1>4. CASE ret.ok
  BY <1>1, <1>3, <1>4, ResultTypes, NothingOK, ReturnStep DEF ProbeReturn
<1>5. CASE ~ret.ok
  <2>1. MayMatch(input, Top.node, Top.pos, Top.pos)
    BY <1>1, <1>2, LeafFirst DEF FrameOK, Located, MayMatch
  <2>2. <<>> \in Text
    BY EmptySeq DEF Text
  <2>3. empty \in Result /\ AnswerOK(input, Top.node, Top.op, Top.pos, empty)
    BY <1>1, <1>2, <2>1, <2>2, SliceEmpty, MatchOK DEF PrintsSlice
  <2> QED
    BY <1>1, <1>3, <1>5, <2>3, ReturnStep DEF ProbeReturn
<1> QED
  BY <1>4, <1>5

\* A grammar made of one other may match where that one matched.
LEMMA WrappedMayMatch ==
  ASSUME IInv, NEW kinds,
         kinds \subseteq {"box", "raw", "phantom"} \cup Conversions,
         Answered(kinds, Matching), ret.ok
  PROVE  /\ MayMatch(input, Top.node, Top.pos, ret.end)
         /\ ret.end \in Nat /\ ret.end <= Len(input)
         /\ ret.print \in Text /\ Slice(input, Top.pos, ret.end) \in Text
         /\ KidOp(Top) = "parse" /\ Top.node \in Lossless =>
              ret.print = Slice(input, Top.pos, ret.end)
<1> DEFINE n == Top.node
<1>1. /\ phase # "idle" /\ stack # <<>>
      /\ Kind(n) \in {"box", "raw", "phantom"} \cup Conversions
  BY AnsweredFacts
<1>2. /\ Top \in FrameSet /\ n \in Node /\ FrameOK(input, Top)
      /\ input \in Text /\ Top.pos \in Nat
  BY <1>1, TopFacts DEF FrameSet
<1>3. /\ Kind(n) \notin {"seq", "alt", "vec1", "vec", "opt"}
      /\ Kind(n) \in (Wrappers \cup Conversions \cup {"vec1"}) \ {"not"}
  BY <1>1 DEF Wrappers, Conversions
<1>4. Top.cur = Top.pos /\ Callee(Top) = Kids(n)[1]
  BY <1>2, <1>3 DEF FrameOK, Located, Indexed, Callee, KidIndex
<1>5. /\ MayMatch(input, Kids(n)[1], Top.pos, ret.end)
      /\ ret.end \in Nat /\ ret.print \in Text
      /\ KidOp(Top) = "parse" /\ n \in Lossless =>
           ret.print = Slice(input, Top.pos, ret.end)
  BY <1>4, KidMatched
<1>6. /\ First[n].bytes = First[Kids(n)[1]].bytes
      /\ First[Kids(n)[1]].nil => First[n].nil
  BY <1>2, <1>3, WrappedFirst
<1>7. MayMatch(input, n, Top.pos, ret.end) /\ ret.end <= Len(input)
  BY <1>5, <1>6 DEF MayMatch, StartsAt
<1> QED
  BY <1>2, <1>5, <1>7, SliceProperties

LEMMA UnwrapOK ==
  ASSUME IInv, Unwrap
  PROVE  IInv'
<1> DEFINE n == Top.node
           print == WrapperPrint(Top, ret)
<1>1. /\ phase # "idle" /\ stack # <<>>
      /\ Kind(n) \in {"box", "raw", "phantom"} /\ Top.op \in Matching
  BY AnsweredFacts DEF Unwrap
<1>2. /\ Top \in FrameSet /\ n \in Node
      /\ history \in HistorySet /\ AllUnmet(input, history)
  BY <1>1, TopFacts
<1>3. CASE ret.ok
  <2>1. /\ MayMatch(input, n, Top.pos, ret.end) /\ ret.end \in Nat
        /\ ret.print \in Text /\ Slice(input, Top.pos, ret.end) \in Text
        /\ KidOp(Top) = "parse" /\ n \in Lossless =>
             ret.print = Slice(input, Top.pos, ret.end)
    BY <1>3, WrappedMayMatch DEF Unwrap
  <2>2. /\ Kind(n) = "raw" => print = Slice(input, Top.pos, ret.end)
        /\ Kind(n) = "phantom" => print = <<>>
        /\ Kind(n) = "box" => print = ret.print
    BY DEF WrapperPrint
  <2>3. print \in Text
    BY <1>1, <2>1, <2>2, EmptySeq DEF Text
  <2>4. ASSUME Top.op = "parse", n \in Lossless
        PROVE  print = Slice(input, Top.pos, ret.end)
    <3>1. Kind(n) # "phantom"
      BY <2>4, LosslessKid
    <3>2. Kind(n) = "box" => KidOp(Top) = "parse"
      BY <2>4 DEF KidOp, Failing
    <3> QED
      BY <1>1, <2>1, <2>2, <2>4, <3>1, <3>2
  <2>5. Kind(n) # "vec"
    BY <1>1
  <2> HIDE DEF print
  <2>6. /\ Match(Top, ret.end, print, 0) \in Result
        /\ AnswerOK(input, n, Top.op, Top.pos, Match(Top, ret.end, print, 0))
    BY <1>1, <1>2, <2>1, <2>3, <2>4, <2>5, MatchOK DEF PrintsSlice
  <2> QED
    BY <1>1, <1>2, <1>3, <2>6, ReturnStep DEF Unwrap, print
<1>4. CASE ~ret.ok
  BY <1>1, <1>2, <1>4, ResultTypes, NothingOK, ReturnStep DEF Unwrap
<1> QED
  BY <1>3, <1>4

LEMMA ConvertOK ==
  ASSUME IInv, Convert
  PROVE  IInv'
<1> DEFINE n == Top.node
           print == ConvertPrint(Top, ret)
           slice == Slice(input, Top.pos, ret.end)
           source == IF Kind(n) = "fromStr" THEN slice ELSE ret.print
<1>1. /\ phase # "idle" /\ stack # <<>>
      /\ Kind(n) \in Conversions /\ Top.op \in Matching
  BY AnsweredFacts DEF Convert
<1>2. /\ Top \in FrameSet /\ n \in Node
      /\ history \in HistorySet /\ AllUnmet(input, history)
  BY <1>1, TopFacts
<1>3. /\ MayMatch(input, n, Top.pos, ret.end) /\ ret.end \in Nat
      /\ ret.print \in Text /\ slice \in Text
      /\ KidOp(Top) = "parse" /\ n \in Lossless => ret.print = slice
  BY WrappedMayMatch DEF Convert
<1>4. source \in Text /\ print = Printed(n, source)
  BY <1>3 DEF ConvertPrint
<1>5. print \in Text
  <2>1. Def[n].canon \subseteq Text \X Text
    BY <1>2, NodeFacts DEF DefSet
  <2> HIDE DEF source
  <2>2. CASE \E c \in Def[n].canon : c[1] = source
    <3> DEFINE c == CHOOSE c \in Def[n].canon : c[1] = source
    <3>1. c \in Def[n].canon
      BY <2>2
    <3>2. print = c[2]
      BY <1>4, <2>2 DEF Printed
    <3> HIDE DEF c
    <3> QED
      BY <2>1, <3>1, <3>2
  <2>3. CASE ~(\E c \in Def[n].canon : c[1] = source)
    BY <1>4, <2>3 DEF Printed
  <2> QED
    BY <2>2, <2>3
<1>6. ASSUME Top.op = "parse", n \in Lossless
      PROVE  print = slice
  <2>1. print = source
    BY <1>4, <1>6, LosslessKid DEF Printed
  <2>2. Kind(n) # "fromStr" => KidOp(Top) = "parse"
    BY <1>1, <1>6 DEF KidOp, Failing, Conversions
  <2> QED
    BY <1>3, <1>6, <2>1, <2>2
<1>7. Kind(n) # "vec"
  BY <1>1 DEF Conversions
<1> HIDE DEF print
<1>8. /\ Match(Top, ret.end, print, 0) \in Result
      /\ AnswerOK(input, n, Top.op, Top.pos, Match(Top, ret.end, print, 0))
  BY <1>1, <1>2, <1>3, <1>5, <1>6, <1>7, MatchOK DEF PrintsSlice
<1> QED
  BY <1>1, <1>2, <1>8, ReturnStep DEF Convert, print

LEMMA ConvertRejectedOK ==
  ASSUME IInv, ConvertRejected
  PROVE  IInv'
<1>1. phase # "idle" /\ stack # <<>> /\ Top.op \in Matching
  BY AnsweredFacts DEF ConvertRejected
<1>2. ret.end \in Nat /\ ret.end <= Len(input)
  BY WrappedMayMatch DEF ConvertRejected
<1> DEFINE failed == Verdict("GrammarFrom", ret.end)
           invalid == Verdict("Valid", ret.end)
<1>3. /\ failed \in Expectation /\ invalid \in Expectation
      /\ \/ Unmet(input, ret.end, failed) /\ Expect(ret.end, failed)
         \/ Unmet(input, ret.end, invalid) /\ Expect(ret.end, invalid)
  BY <1>1, <1>2, VerdictUnmet DEF ConvertRejected, ConvertSource
<1> HIDE DEF failed, invalid
<1>4. history' \in HistorySet /\ AllUnmet(input, history')
  BY <1>1, <1>2, <1>3, ExpectOK
<1> QED
  BY <1>1, <1>4, ResultTypes, NothingOK, ReturnStep DEF ConvertRejected

LEMMA SourceFailedOK ==
  ASSUME IInv, SourceFailed
  PROVE  IInv'
<1>1. phase # "idle" /\ stack # <<>> /\ Top.op \in Matching
  BY AnsweredFacts DEF SourceFailed
<1>2. history \in HistorySet /\ AllUnmet(input, history)
  BY <1>1, TopFacts
<1> QED
  BY <1>1, <1>2, ResultTypes, NothingOK, ReturnStep DEF SourceFailed

-----------------------------------------------------------------------------
(***************************************************************************)
(* fail_at.                                                                *)
(***************************************************************************)

\* What a kid's fail_at tells: whether the kid is required.
LEMMA KidFailed ==
  ASSUME IInv, NEW kinds, Answered(kinds, Failing)
  PROVE  /\ phase # "idle" /\ stack # <<>>
         /\ Kind(Top.node) \in kinds /\ Top.op \in Failing
         /\ Top \in FrameSet /\ Top.node \in Node /\ Top.i \in Nat
         /\ Top.i \in 1 .. Len(Kids(Top.node))
         /\ Len(Kids(Top.node)) \in Nat
         /\ ret \in Result
         /\ ret.ok <=> ~First[Kids(Top.node)[Top.i]].nil
<1>1. /\ phase # "idle" /\ stack # <<>> /\ HasCall(Top)
      /\ Kind(Top.node) \in kinds /\ Top.op \in Failing
      /\ AnswerOK(input, Callee(Top), KidOp(Top), Top.cur, ret)
  BY AnsweredFacts
<1>2. Top \in FrameSet /\ Top.node \in Node /\ Top.i \in Nat /\ ret \in Result
  BY <1>1, TopFacts DEF FrameSet
<1>3. KidIndex(Top) = Top.i
  BY <1>1 DEF KidIndex, Matching, Failing
<1>4. Top.i \in 1 .. Len(Kids(Top.node)) /\ KidOp(Top) = "fail"
  BY <1>1, <1>2, <1>3, CalleeFacts
<1>5. ret.ok <=> ~First[Kids(Top.node)[Top.i]].nil
  BY <1>1, <1>3, <1>4 DEF AnswerOK, Callee
<1> QED
  BY <1>1, <1>2, <1>4, <1>5, NodeFacts

\* The two kids of a Vec1 are required and not required.
LEMMA Vec1First ==
  ASSUME NEW n \in Node, Kind(n) = "vec1"
  PROVE  /\ Len(Kids(n)) = 2
         /\ First[n].nil <=> First[Kids(n)[1]].nil
         /\ First[Kids(n)[2]].nil
<1>1. /\ Len(Kids(n)) = 2
      /\ Kids(n)[2] \in Node /\ Kind(Kids(n)[2]) = "vec"
  BY NodeFacts DEF WellFormed
<1>2. First[n].nil <=> First[Kids(n)[1]].nil
  BY WrappedFirst
<1>3. First[Kids(n)[2]].nil
  BY <1>1, WrappedFirst DEF Wrappers
<1> QED
  BY <1>1, <1>2, <1>3

LEMMA FailFieldOK ==
  ASSUME IInv, FailField
  PROVE  IInv'
<1> DEFINE n == Top.node
           next == Top.i + 1
           f == [Top EXCEPT !.i = next]
<1>1. /\ phase # "idle" /\ stack # <<>>
      /\ Kind(n) \in {"seq", "vec1"} /\ Top.op \in Failing
      /\ Top \in FrameSet /\ n \in Node /\ Top.i \in Nat
      /\ Top.i \in 1 .. Len(Kids(n)) /\ Len(Kids(n)) \in Nat
      /\ ret \in Result
      /\ ret.ok <=> ~First[Kids(n)[Top.i]].nil
  BY KidFailed DEF FailField
<1>2. /\ FrameOK(input, Top) /\ history \in HistorySet
      /\ AllUnmet(input, history)
  BY <1>1, TopFacts
<1>3. Top.op = "fail"
  BY <1>1, <1>2 DEF FrameOK, Indexed, Failing
<1>4. CASE ret.ok
  <2>1. Kind(n) = "vec1" => Top.i = 1
    BY <1>1, <1>4, Vec1First
  <2>2. Kind(n) = "vec1" => ~First[n].nil
    BY <1>1, <1>4, <2>1, Vec1First
  <2>3. ~First[n].nil
    BY <1>1, <1>4, <2>2, SequenceFirst
  <2>4. AnswerOK(input, n, Top.op, Top.pos, ret)
    BY <1>3, <1>4, <2>3 DEF AnswerOK, Matching
  <2> QED
    BY <1>1, <1>2, <1>4, <2>4, ReturnStep DEF FailField
<1>5. CASE ~ret.ok
  <2>1. Continue(f)
    BY <1>5 DEF FailField
  <2>2. next \in Nat /\ next \in 1 .. Len(Kids(n)) + 1
    BY <1>1
  <2>3. \A j \in 1 .. next - 1 : First[Kids(n)[j]].nil
    <3>1. \A j \in 1 .. Top.i - 1 : First[Kids(n)[j]].nil
      BY <1>1, <1>2 DEF FrameOK, Advanced
    <3>2. \A j \in 1 .. next - 1 : j \in 1 .. Top.i - 1 \/ j = Top.i
      BY <1>1
    <3> QED
      BY <1>1, <1>5, <3>1, <3>2
  <2> HIDE DEF next
  <2>4. /\ f \in FrameSet /\ f.node = n /\ f.op = Top.op /\ f.pos = Top.pos
        /\ f.cur = Top.cur /\ f.i = next /\ f.out = Top.out
        /\ f.items = Top.items /\ f.all = Top.all /\ f.saved = Top.saved
    BY <1>1, <2>2 DEF FrameSet
  <2> HIDE DEF f
  <2>5. Located(input, f) /\ Built(input, f) /\ FailsRightly(input, f)
        /\ AllUnmet(input, f.saved)
    BY <1>2, <2>4 DEF FrameOK, Located, Built, FailsRightly
  <2>6. Indexed(f)
    BY <1>1, <1>3, <2>2, <2>4 DEF Indexed, Matching
  <2>7. Advanced(input, f)
    BY <1>1, <1>3, <2>3, <2>4 DEF Advanced, Matching
  <2>8. FrameOK(input, f)
    BY <2>5, <2>6, <2>7 DEF FrameOK
  <2> QED
    BY <1>1, <2>1, <2>4, <2>8, ContinueStep
<1> QED
  BY <1>4, <1>5

LEMMA FailFieldsEndOK ==
  ASSUME IInv, FailFieldsEnd
  PROVE  IInv'
<1> DEFINE n == Top.node
<1>1. /\ phase # "idle" /\ stack # <<>> /\ ~HasCall(Top)
      /\ Kind(n) \in {"seq", "vec1"} /\ Top.op \in Failing
  BY GoingFacts DEF FailFieldsEnd
<1>2. /\ Top \in FrameSet /\ n \in Node /\ FrameOK(input, Top)
      /\ history \in HistorySet /\ AllUnmet(input, history)
      /\ Len(Kids(n)) \in Nat
  BY <1>1, TopFacts, NodeFacts
<1>3. Top.op = "fail"
  BY <1>1, <1>2 DEF FrameOK, Indexed, Failing
<1>4. Top.i = Len(Kids(n)) + 1
  <2>1. KidIndex(Top) = Top.i /\ Top.i \notin DOMAIN Kids(n)
    BY <1>1, <1>3 DEF KidIndex, HasCall, Matching
  <2>2. Top.i \in 1 .. Len(Kids(n)) + 1
    BY <1>1, <1>2 DEF FrameOK, Indexed
  <2> QED
    BY <1>2, <2>1, <2>2, NodeFacts
<1>5. \A j \in 1 .. Len(Kids(n)) : First[Kids(n)[j]].nil
  <2>1. Top.i - 1 = Len(Kids(n))
    BY <1>2, <1>4
  <2> QED
    BY <1>1, <1>2, <2>1 DEF FrameOK, Advanced
<1>6. First[n].nil
  <2>1. CASE Kind(n) = "seq"
    BY <1>2, <1>5, <2>1, SequenceFirst
  <2>2. CASE Kind(n) = "vec1"
    BY <1>2, <1>5, <2>2, Vec1First
  <2> QED
    BY <1>1, <2>1, <2>2
<1>7. AnswerOK(input, n, Top.op, Top.pos, Required(FALSE))
  BY <1>3, <1>6, ResultTypes DEF AnswerOK, Matching
<1> QED
  BY <1>1, <1>2, <1>7, ResultTypes, ReturnStep DEF FailFieldsEnd

\* After another variant's verdict, `all` is about that variant too.
LEMMA OneVariantMore ==
  ASSUME IInv, Answered({"alt"}, Failing)
  PROVE  StillRequired(Top, ret) <=>
           \A j \in 1 .. Top.i : ~First[Kids(Top.node)[j]].nil
<1> DEFINE kids == Kids(Top.node)
<1>1. /\ stack # <<>> /\ Kind(Top.node) = "alt" /\ Top.op \in Failing
      /\ Top.i \in Nat /\ Top.i \in 1 .. Len(kids)
      /\ ret.ok <=> ~First[kids[Top.i]].nil
  BY KidFailed
<1>2. Top.all <=> \A j \in 1 .. Top.i - 1 : ~First[kids[j]].nil
  BY <1>1, TopFacts DEF FrameOK, Advanced
<1>3. \A j \in 1 .. Top.i : j \in 1 .. Top.i - 1 \/ j = Top.i
  BY <1>1
<1>4. \A j \in 1 .. Top.i - 1 : j \in 1 .. Top.i
  BY <1>1
<1>5. Top.i \in 1 .. Top.i
  BY <1>1
<1> QED
  BY <1>1, <1>2, <1>3, <1>4, <1>5 DEF StillRequired

LEMMA FailVariantOK ==
  ASSUME IInv, FailVariant
  PROVE  IInv'
<1> DEFINE n == Top.node
           next == Top.i + 1
           all == StillRequired(Top, ret)
           f == [Top EXCEPT !.i = next, !.all = all]
<1>1. /\ phase # "idle" /\ stack # <<>>
      /\ Kind(n) = "alt" /\ Top.op \in Failing
      /\ Top \in FrameSet /\ n \in Node /\ Top.i \in Nat
      /\ Len(Kids(n)) \in Nat /\ ret \in Result
  BY KidFailed DEF FailVariant
<1>2. FrameOK(input, Top)
  BY <1>1, TopFacts
<1>3. Continue(f)
  BY DEF FailVariant
<1>4. next \in Nat /\ next \in 0 .. Len(Kids(n)) /\ next # 0 /\ next - 1 = Top.i
  BY <1>1 DEF FailVariant
<1>5. all <=> \A j \in 1 .. next - 1 : ~First[Kids(n)[j]].nil
  <2>1. all <=> \A j \in 1 .. Top.i : ~First[Kids(n)[j]].nil
    BY OneVariantMore DEF FailVariant
  <2> QED
    BY <1>4, <2>1
<1>6. all \in BOOLEAN
  BY <1>1 DEF StillRequired, FrameSet, Result
<1> HIDE DEF next, all
<1>7. /\ f \in FrameSet /\ f.node = n /\ f.op = Top.op /\ f.pos = Top.pos
      /\ f.cur = Top.cur /\ f.i = next /\ f.out = Top.out
      /\ f.items = Top.items /\ f.all = all /\ f.saved = Top.saved
  BY <1>1, <1>4, <1>6 DEF FrameSet
<1> HIDE DEF f
<1>8. Located(input, f) /\ Built(input, f) /\ FailsRightly(input, f)
      /\ AllUnmet(input, f.saved)
  BY <1>2, <1>7 DEF FrameOK, Located, Built, FailsRightly
<1>9. Indexed(f)
  BY <1>1, <1>4, <1>7 DEF Indexed
<1>10. Advanced(input, f)
  BY <1>1, <1>5, <1>6, <1>7 DEF Advanced, Matching, Failing
<1>11. FrameOK(input, f)
  BY <1>8, <1>9, <1>10 DEF FrameOK
<1> QED
  BY <1>1, <1>3, <1>7, <1>11, ContinueStep

LEMMA FailVariantsEndOK ==
  ASSUME IInv, FailVariantsEnd
  PROVE  IInv'
<1> DEFINE n == Top.node
           all == StillRequired(Top, ret)
<1>1. /\ phase # "idle" /\ stack # <<>>
      /\ Kind(n) = "alt" /\ Top.op \in Failing
      /\ Top \in FrameSet /\ n \in Node /\ ret \in Result
  BY KidFailed DEF FailVariantsEnd
<1>2. history \in HistorySet /\ AllUnmet(input, history)
  BY <1>1, TopFacts
<1>3. CASE Top.op = "miss"
  <2>1. AnswerOK(input, n, Top.op, Top.pos, Nothing)
    BY <1>3 DEF AnswerOK, Nothing, Matching
  <2> QED
    BY <1>1, <1>2, <1>3, <2>1, ResultTypes, ReturnStep DEF FailVariantsEnd
<1>4. CASE Top.op = "fail"
  <2>1. all <=> \A j \in 1 .. Len(Kids(n)) : ~First[Kids(n)[j]].nil
    BY OneVariantMore DEF FailVariantsEnd
  <2>2. First[n].nil <=> \E j \in 1 .. Len(Kids(n)) : First[Kids(n)[j]].nil
    BY <1>1, AlternationFirst
  <2>3. all <=> ~First[n].nil
    BY <2>1, <2>2
  <2>4. all \in BOOLEAN
    BY <1>1 DEF StillRequired, FrameSet, Result
  <2> HIDE DEF all
  <2>5. Required(all) \in Result /\ Required(all).ok = all
    BY <2>4, ResultTypes
  <2>6. AnswerOK(input, n, Top.op, Top.pos, Required(all))
    BY <1>4, <2>3, <2>4, <2>5 DEF AnswerOK, Matching
  <2>7. Return(Required(all)) /\ UNCHANGED history
    BY <1>4 DEF FailVariantsEnd, all
  <2> QED
    BY <1>1, <1>2, <2>5, <2>6, <2>7, ReturnStep
<1> QED
  BY <1>1, <1>3, <1>4 DEF Failing

LEMMA FailWrappedOK ==
  ASSUME IInv, FailWrapped
  PROVE  IInv'
<1> DEFINE n == Top.node
           kid == Kids(n)[1]
<1>1. /\ phase # "idle" /\ stack # <<>>
      /\ Kind(n) \in Wrappers \cup Conversions /\ Top.op \in Failing
      /\ n \in Node /\ ret \in Result
      /\ ret.ok <=> ~First[Kids(n)[Top.i]].nil
  BY KidFailed DEF FailWrapped
<1>2. /\ FrameOK(input, Top) /\ history \in HistorySet
      /\ AllUnmet(input, history)
  BY <1>1, TopFacts
<1>3. Top.op = "fail" /\ Top.i = 1
  BY <1>1, <1>2 DEF FrameOK, Indexed, Failing, Wrappers, Conversions
<1>4. Kind(n) # "not"
  <2>1. HasCall(Top)
    BY AnsweredFacts DEF FailWrapped
  <2> QED
    BY <1>1, <2>1 DEF HasCall
<1>5. First[n].nil <=> (Kind(n) \in {"opt", "vec"} \/ First[kid].nil)
  BY <1>1, <1>4, WrappedFirst
<1>6. CASE Kind(n) \in {"opt", "vec"}
  <2>1. AnswerOK(input, n, Top.op, Top.pos, Required(FALSE))
    BY <1>3, <1>5, <1>6, ResultTypes DEF AnswerOK, Matching
  <2> QED
    BY <1>1, <1>2, <1>6, <2>1, ResultTypes, ReturnStep DEF FailWrapped
<1>7. CASE Kind(n) \notin {"opt", "vec"}
  <2>1. AnswerOK(input, n, Top.op, Top.pos, ret)
    BY <1>1, <1>3, <1>5, <1>7 DEF AnswerOK, Matching
  <2> QED
    BY <1>1, <1>2, <1>7, <2>1, ReturnStep DEF FailWrapped
<1> QED
  BY <1>6, <1>7

-----------------------------------------------------------------------------
(***************************************************************************)
(* The entry point's answer, and the whole.                                *)
(***************************************************************************)

\* Turning every context around keeps an error an error.
LEMMA IntoErrorType ==
  ASSUME NEW h \in HistorySet
  PROVE  IntoError(h) \in HistorySet
<1> DEFINE turned(t) == [h.traces[t] EXCEPT !.context = Reverse(h.traces[t].context)]
           traces == [t \in DOMAIN h.traces |-> turned(t)]
<1>1. h.pos \in Nat /\ h.traces \in Seq(Trace)
  BY DEF HistorySet
<1>2. Len(h.traces) \in Nat /\ DOMAIN h.traces = 1 .. Len(h.traces)
  BY <1>1, LenProperties
<1>3. ASSUME NEW t \in 1 .. Len(h.traces)
      PROVE  turned(t) \in Trace
  <2> DEFINE c == h.traces[t].context
             back == Reverse(c)
  <2>1. h.traces[t] \in Trace
    BY <1>1, <1>3, ElementOfSeq
  <2>2. c \in Seq(RuleFrame)
    BY <2>1 DEF Trace, Context
  <2> HIDE DEF c
  <2>3. Len(c) \in Nat /\ \A i \in 1 .. Len(c) : c[i] \in RuleFrame
    BY <2>2, LenProperties, ElementOfSeq
  <2>4. back = [i \in 1 .. Len(c) |-> c[(Len(c) - i) + 1]]
    BY DEF Reverse
  <2>5. \A i \in 1 .. Len(c) : (Len(c) - i) + 1 \in 1 .. Len(c)
    BY <2>3
  <2>6. \A i \in 1 .. Len(c) : c[(Len(c) - i) + 1] \in RuleFrame
    BY <2>3, <2>5
  <2>7. back \in [1 .. Len(c) -> RuleFrame]
    BY <2>4, <2>6
  <2> HIDE DEF back
  <2>8. back \in Context
    BY <2>3, <2>7, SeqDef DEF Context
  <2>9. turned(t) = [h.traces[t] EXCEPT !.context = back]
    BY DEF back, c
  <2> HIDE DEF turned
  <2> QED
    BY <2>1, <2>8, <2>9 DEF Trace
<1>4. traces \in [1 .. Len(h.traces) -> Trace]
  <2> HIDE DEF turned
  <2> QED
    BY <1>2, <1>3
<1>5. IntoError(h) = [pos |-> h.pos, traces |-> traces]
  BY DEF IntoError
<1> HIDE DEF traces
<1>6. traces \in Seq(Trace)
  BY <1>2, <1>4, SeqDef
<1> QED
  BY <1>1, <1>5, <1>6 DEF HistorySet

LEMMA FinishOK ==
  ASSUME IInv, Finish
  PROVE  IInv'
<1> DEFINE o == [entry |-> Entry,
                 ok    |-> Accepted(Entry, ret),
                 end   |-> ret.end,
                 print |-> ret.print,
                 error |-> IntoError(history)]
           Outcome == [entry : Entries, ok : BOOLEAN, end : Nat, print : Text,
                       error : HistorySet]
<1>1. /\ outcomes \in Seq(Outcome) /\ ret \in Result /\ history \in HistorySet
      /\ Len(outcomes) < Len(Schedule)
  BY DEF IInv, TypeOK, PhaseOK, Finish
<1>2. Entry \in Entries
  <2>1. Len(outcomes) \in Nat /\ Len(Schedule) \in Nat
    BY <1>1, ParserAssumption, LenProperties
  <2>2. Len(outcomes) + 1 \in 1 .. Len(Schedule)
    BY <1>1, <2>1
  <2> QED
    BY <2>2, ParserAssumption, ElementOfSeq DEF Entry
<1>3. IntoError(history) \in HistorySet
  BY <1>1, IntoErrorType
<1>4. Accepted(Entry, ret) \in BOOLEAN /\ ret.end \in Nat /\ ret.print \in Text
  BY <1>1 DEF Accepted, Result
<1>5. o \in Outcome
  BY <1>2, <1>3, <1>4
<1>6. outcomes' = Append(outcomes, o)
  BY DEF Finish
<1> HIDE DEF o
<1>7. outcomes' \in Seq(Outcome)
  <2> HIDE DEF Outcome
  <2>1. Append(outcomes, o) \in Seq(Outcome)
    BY <1>1, <1>5, AppendProperties
  <2> QED
    BY <1>6, <2>1
<1>8. TypeOK'
  BY <1>7 DEF IInv, TypeOK, Finish
<1>9. PhaseOK' /\ ReturnOK' /\ TracesUnmet'
  BY DEF IInv, PhaseOK, ReturnOK, TracesUnmet, Finish
<1>10. StackOK'
  <2>1. stack' = <<>> /\ Len(stack') = 0
    BY EmptySeq DEF Finish
  <2>2. 1 .. 0 = {} /\ 1 .. 0 - 1 = {}
    OBVIOUS
  <2> QED
    BY <2>1, <2>2 DEF StackOK
<1> QED
  BY <1>8, <1>9, <1>10 DEF IInv

\* It holds before the first call.
LEMMA InitOK == Init => IInv
<1> SUFFICES ASSUME Init PROVE IInv
  OBVIOUS
<1>1. Len(stack) = 0 /\ stack \in Seq(FrameSet) /\ 1 .. 0 = {} /\ 1 .. 0 - 1 = {}
  BY EmptySeq DEF Init
<1>2. EmptyHistory \in HistorySet /\ AllUnmet(input, EmptyHistory)
  BY EmptySeq DEF EmptyHistory, HistorySet, AllUnmet
<1>3. TypeOK
  BY <1>1, <1>2, ResultTypes, EmptySeq DEF TypeOK, Init
<1>4. StackOK
  BY <1>1 DEF StackOK, Init
<1> QED
  BY <1>2, <1>3, <1>4 DEF IInv, PhaseOK, ReturnOK, TracesUnmet, Init

\* Every step keeps it.
LEMMA NextOK == IInv /\ [Next]_vars => IInv'
<1> SUFFICES ASSUME IInv, [Next]_vars PROVE IInv'
  OBVIOUS
<1>1. CASE Begin
  BY <1>1, BeginOK
<1>2. CASE Finish
  BY <1>2, FinishOK
<1>3. CASE Call
  BY <1>3, CallOK
<1>4. CASE Probe
  BY <1>4, ProbeOK
<1>5. CASE Leaf
  BY <1>5, LiteralMatchOK, LiteralMismatchOK, CharMatchOK, CharMismatchOK,
     FailLeafOK, UnitMatchOK, FailNothingOK DEF Leaf
<1>6. CASE Repetition
  BY <1>6, OptionReturnOK, VecItemOK, VecEndOK, Vec1ReturnOK DEF Repetition
<1>7. CASE Sequence
  BY <1>7, NextFieldOK, FieldFailedOK, FieldsParsedOK, FieldsRejectedOK
     DEF Sequence
<1>8. CASE Alternation
  BY <1>8, DispatchHitOK, DispatchMissOK, VariantMatchedOK, NextVariantOK,
     NoVariantOK DEF Alternation
<1>9. CASE Wrapped
  BY <1>9, ProbeReturnOK, UnwrapOK, ConvertOK, ConvertRejectedOK,
     SourceFailedOK DEF Wrapped
<1>10. CASE Fail
  BY <1>10, FailFieldOK, FailFieldsEndOK, FailVariantOK, FailVariantsEndOK,
     FailWrappedOK DEF Fail
<1>11. CASE UNCHANGED vars
  BY <1>11 DEF vars, IInv, TypeOK, PhaseOK, StackOK, ReturnOK, TracesUnmet,
     Entry, AskedNode, AskedPos, AskedOp, Top
<1> QED
  BY <1>1, <1>2, <1>3, <1>4, <1>5, <1>6, <1>7, <1>8, <1>9, <1>10, <1>11
     DEF Next, Done

\* The invariant of every parse, scan, parse_prefix and scan_prefix.
THEOREM Invariance == Spec => []IInv
<1> QED
  BY InitOK, NextOK, PTL DEF Spec

-----------------------------------------------------------------------------
(***************************************************************************)
(* What follows for the parser.                                            *)
(***************************************************************************)

\* What an answer to a parse_at or scan_at call says.
LEMMA AnswerFacts ==
  ASSUME IInv, phase = "return", AskedOp \in Matching, ret.ok
  PROVE  /\ MayMatch(input, AskedNode, AskedPos, ret.end)
         /\ PrintsSlice(input, AskedNode, AskedOp, ret.print, AskedPos, ret.end)
         /\ AskedPos \in Nat /\ ret.end \in Nat /\ Len(input) \in Nat
<1>1. AskedPos \in Nat
  BY TopFacts DEF AskedPos, FrameSet
<1>2. ret.end \in Nat /\ Len(input) \in Nat
  BY ParserAssumption, LenProperties DEF IInv, TypeOK, Result, Text
<1> QED
  BY <1>1, <1>2 DEF IInv, ReturnOK, AnswerOK

\* Every variable has its type in every state.
THEOREM TypeCorrect == Spec => []TypeOK
<1>1. IInv => TypeOK
  BY DEF IInv
<1> QED
  BY <1>1, Invariance, PTL

\* Whatever matches may start where it matched, so an enum's dispatch table
\* (derive lib.rs:822-853) never skips the variant that would have matched.
THEOREM DispatchSkipsNoMatch == Spec => []FirstSound
<1>1. IInv => FirstSound
  <2> SUFFICES ASSUME IInv, phase = "return", AskedOp \in Matching, ret.ok
               PROVE  MayStart(AskedNode, AskedPos)
    BY DEF FirstSound
  <2> QED
    BY AnswerFacts DEF MayMatch, MayStart, StartsAt
<1> QED
  BY <1>1, Invariance, PTL

\* Only grammars whose FIRST set has nil match the empty text.
THEOREM EmptyMatchIsNullable == Spec => []NilSound
<1>1. IInv => NilSound
  BY AnswerFacts DEF MayMatch, NilSound
<1> QED
  BY <1>1, Invariance, PTL

\* fail_at answers what its documentation says (grammar.rs:180-190): true
\* exactly for the grammars that are not nullable.
THEOREM FailAtIsRequired == Spec => []RequiredIffNotNullable
<1>1. IInv => RequiredIffNotNullable
  BY DEF IInv, ReturnOK, AnswerOK, RequiredIffNotNullable
<1> QED
  BY <1>1, Invariance, PTL

\* Activations nest inside the input and only move forward.
THEOREM ActivationsNest == Spec => []PositionsNest
<1>1. IInv => PositionsNest
  <2> SUFFICES ASSUME IInv PROVE PositionsNest
    OBVIOUS
  <2>1. ASSUME NEW k \in 1 .. Len(stack)
        PROVE  /\ stack[k].pos <= stack[k].cur
               /\ stack[k].cur <= Len(input)
               /\ k > 1 => stack[k].pos = stack[k - 1].cur
    <3>1. FrameOK(input, stack[k])
      BY <2>1 DEF IInv, StackOK
    <3>2. ASSUME k > 1 PROVE stack[k].pos = stack[k - 1].cur
      <4>1. Len(stack) \in Nat
        BY LenProperties DEF IInv, TypeOK
      <4>2. k - 1 \in 1 .. Len(stack) - 1 /\ (k - 1) + 1 = k
        BY <2>1, <3>2, <4>1
      <4>3. Waits(stack[k - 1], stack[(k - 1) + 1])
        BY <4>2 DEF IInv, StackOK
      <4> QED
        BY <4>2, <4>3 DEF Waits, Runs
    <3> QED
      BY <3>1, <3>2 DEF FrameOK, Located
  <2>2. ASSUME phase = "return", AskedOp \in Matching, ret.ok
        PROVE  AskedPos <= ret.end /\ ret.end <= Len(input)
    BY <2>2, AnswerFacts DEF MayMatch
  <2> QED
    BY <2>1, <2>2 DEF PositionsNest
<1> QED
  BY <1>1, Invariance, PTL

\* Every expectation an error reports is one the input does not meet, also
\* those fail_at reports without looking at the input (state.rs:211-221).
THEOREM ReportsAreTrue == Spec => []TracesUnmet
<1>1. IInv => TracesUnmet
  BY DEF IInv
<1> QED
  BY <1>1, Invariance, PTL

\* A parsed value prints as the text it was parsed from, whatever the
\* grammar is made of, PhantomData and renormalising conversions apart.
THEOREM PrintingRoundTrips == Spec => []PrintsBack
<1>1. IInv => PrintsBack
  <2> SUFFICES ASSUME IInv, phase = "return", AskedOp = "parse", ret.ok,
                      AskedNode \in Lossless
               PROVE  ret.print = Slice(input, AskedPos, ret.end)
    BY DEF PrintsBack
  <2>1. AskedOp \in Matching
    BY DEF Matching
  <2> QED
    BY <2>1, AnswerFacts DEF PrintsSlice
<1> QED
  BY <1>1, Invariance, PTL
=============================================================================
