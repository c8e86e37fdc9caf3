--------------------------- MODULE ParserInvariant ---------------------------
(***************************************************************************)
(* Why the parser's safety properties hold: what is true of every          *)
(* activation while it runs, and of every answer, in terms of the grammar  *)
(* alone.  The properties of Parser are about the last answer; this is the *)
(* inductive invariant behind them.                                        *)
(***************************************************************************)
EXTENDS Parser

\* The byte at p may start n.
StartsAt(s, n, p) == p < Len(s) /\ s[p + 1] \in First[n].bytes

\* n may match s from p to e: a match that consumes begins with a byte of the
\* FIRST set, one that does not is of a nullable grammar.
MayMatch(s, n, p, e) ==
  /\ p <= e
  /\ e <= Len(s)
  /\ e = p => First[n].nil
  /\ e > p => StartsAt(s, n, p)

PrintsSlice(s, n, op, print, p, e) ==
  op = "parse" /\ n \in Lossless => print = Slice(s, p, e)

\* r may answer operation op of n at p.
AnswerOK(s, n, op, p, r) ==
  /\ op = "fail" => (r.ok <=> ~First[n].nil)
  /\ op = "miss" => ~r.ok
  /\ op \in Matching /\ r.ok =>
       /\ MayMatch(s, n, p, r.end)
       /\ PrintsSlice(s, n, op, r.print, p, r.end)
       /\ op = "parse" /\ Kind(n) = "vec" /\ r.items # 0 => r.end # p

-----------------------------------------------------------------------------
\* The first i - 1 kids may match s from p to e, one after the other.
FieldsMayMatch(s, kids, i, p, e) ==
  /\ e = p => \A j \in 1 .. i - 1 : First[kids[j]].nil
  /\ e > p => \E j \in 1 .. i - 1 :
                /\ StartsAt(s, kids[j], p)
                /\ \A l \in 1 .. j - 1 : First[kids[l]].nil

Located(s, f) ==
  /\ f.pos <= f.cur
  /\ f.cur <= Len(s)
  /\ f.cur # f.pos => Kind(f.node) \in {"seq", "vec"} /\ f.op \in Matching

\* Which kid it is at.
Indexed(f) ==
  LET kind == Kind(f.node)
      last == Len(Kids(f.node))
  IN /\ kind \notin {"seq", "vec1", "alt"} => f.i = 1
     /\ kind = "vec1" /\ f.op \in Matching => f.i = 1
     /\ kind \in {"seq", "vec1"} => f.i \in 1 .. last + 1
     /\ kind = "alt" => f.i \in 0 .. last
     /\ kind = "alt" /\ f.op \in Failing => f.i # 0
     /\ f.op = "miss" => kind = "alt"

\* What the kids before that one did.
Advanced(s, f) ==
  LET kids == Kids(f.node)
  IN /\ Kind(f.node) = "seq" /\ f.op \in Matching =>
          FieldsMayMatch(s, kids, f.i, f.pos, f.cur)
     /\ Kind(f.node) \in {"seq", "vec1"} /\ f.op \in Failing =>
          \A j \in 1 .. f.i - 1 : First[kids[j]].nil
     /\ Kind(f.node) = "alt" /\ f.op \in Failing =>
          (f.all <=> \A j \in 1 .. f.i - 1 : ~First[kids[j]].nil)
     /\ f.op \in Matching => f.all
     /\ Kind(f.node) = "vec" =>
          /\ f.cur # f.pos => StartsAt(s, kids[1], f.pos)
          /\ f.items # 0 => f.cur # f.pos

\* What it has built so far prints what it has consumed so far.
Built(s, f) ==
  Kind(f.node) \in {"seq", "vec"} /\ f.op \in Matching =>
    PrintsSlice(s, f.node, f.op, f.out, f.pos, f.cur)

\* fail_at only runs where the grammar cannot start.
FailsRightly(s, f) == f.op \in Failing => ~StartsAt(s, f.node, f.pos)

FrameOK(s, f) ==
  /\ Located(s, f)
  /\ Indexed(f)
  /\ Advanced(s, f)
  /\ Built(s, f)
  /\ FailsRightly(s, f)
  /\ AllUnmet(s, f.saved)

-----------------------------------------------------------------------------
\* f is an activation of op of n at p; a dispatching enum that misses goes on
\* as another operation.
Runs(f, n, op, p) ==
  /\ f.node = n
  /\ f.op # op => f.op = "miss" /\ op \in Matching
  /\ f.pos = p

\* f waits for g.
Waits(f, g) ==
  /\ HasCall(f)
  /\ Runs(g, Callee(f), KidOp(f), f.cur)

StackOK ==
  /\ \A k \in 1..Len(stack) : FrameOK(input, stack[k])
  /\ \A k \in 1 .. Len(stack) - 1 : Waits(stack[k], stack[k + 1])
  /\ stack # <<>> => Runs(stack[1], root, EntryOp(Entry), 0)

PhaseOK ==
  /\ phase = "idle" => stack = <<>>
  /\ phase = "call" => stack # <<>>
  /\ phase # "idle" => Len(outcomes) < Len(Schedule)
  /\ phase = "return" /\ stack # <<>> => HasCall(Top)

ReturnOK ==
  phase = "return" => AnswerOK(input, AskedNode, AskedOp, AskedPos, ret)

\* The inductive invariant.
IInv == TypeOK /\ PhaseOK /\ StackOK /\ ReturnOK /\ TracesUnmet

-----------------------------------------------------------------------------
(***************************************************************************)
(* Why nothing panics, and why the rules of a trace enclose its failure.   *)
(***************************************************************************)

\* c are rules around p, the innermost first, as a Context collects them.
Encloses(c, p) ==
  /\ ~AllNodes => Len(c) <= 1
  /\ \A j \in 1..Len(c) : c[j].pos <= p
  /\ \A j \in 2..Len(c) : c[j].pos <= c[j - 1].pos

HistorySafe(s, h) ==
  /\ IsBoundary(s, h.pos)
  /\ \A t \in 1..Len(h.traces) : Encloses(h.traces[t].context, h.pos)

FrameSafe(s, f) ==
  /\ IsBoundary(s, f.pos)
  /\ IsBoundary(s, f.cur)
  /\ Encloses(f.ctx, f.pos)
  /\ HistorySafe(s, f.saved)

\* A match ends between characters.
AnswerSafe(s, op, r) == op \in Matching /\ r.ok => IsBoundary(s, r.end)

\* Inductive together with IInv.
SafetyInv ==
  /\ \A k \in 1..Len(stack) : FrameSafe(input, stack[k])
  /\ phase = "return" => AnswerSafe(input, AskedOp, ret)
  /\ HistorySafe(input, history)
  /\ ContextNested
=============================================================================
