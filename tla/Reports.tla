------------------------------- MODULE Reports -------------------------------
(***************************************************************************)
(* What grammars leave in an error report, as a table: the failures that   *)
(* one run of a grammar at a position of a text records, if it starts with *)
(* an empty History.  A report can be put together from the reports of the *)
(* kids, whatever was recorded before and whatever rules are around: that  *)
(* is what makes scan, which builds nothing, fail with the error of parse. *)
(* The invariant says what every activation has left to report.            *)
(***************************************************************************)
EXTENDS Meaning

CONSTANTS
  Leaves(_, _, _, _),        \* Leaves(n, mode, s, p): what n leaves at p in s
  LeavesFrom(_, _, _, _, _)  \* LeavesFrom(n, mode, i, s, p): its kids from the i-th on

\* parse_at and scan_at leave the same; fail_at, and an enum's miss, do not.
Modes == {"match", "fail"}
Mode(op) == IF op \in Failing THEN "fail" ELSE "match"

-----------------------------------------------------------------------------
(***************************************************************************)
(* Histories as a monoid that contexts act on.                             *)
(***************************************************************************)

\* g, and what h records after it.
Joined(g, h) ==
  IF g.pos < h.pos THEN h
  ELSE IF g.pos > h.pos THEN g
  ELSE [pos |-> g.pos, traces |-> g.traces \o h.traces]

\* The rules of `inner`, entered inside those of `outer`.
Nest(inner, outer) ==
  IF AllNodes THEN inner \o outer
  ELSE IF inner = <<>> THEN outer ELSE inner

InContext(ctx, h) ==
  [pos |-> h.pos,
   traces |-> [t \in 1..Len(h.traces) |->
                 [context |-> Nest(h.traces[t].context, ctx),
                  expectation |-> h.traces[t].expectation]]]

\* One failure, outside any rule.
Single(pos, e) ==
  [pos |-> pos, traces |-> << [context |-> <<>>, expectation |-> e] >>]

\* The rule n enters at p, if it is one.
Own(n, p) == Context_(n, p, <<>>)

-----------------------------------------------------------------------------
(***************************************************************************)
(* The table.                                                              *)
(***************************************************************************)

\* The first k bytes of the literal n are at p in s.
SpellsUpTo(n, s, p, k) ==
  LET text == Def[n].text
      Same(b, c) == IF Kind(n) = "litCI" THEN Lower(b) = Lower(c) ELSE b = c
  IN \A j \in 1..k : p + j <= Len(s) /\ Same(s[p + j], text[j])

\* Where the first character of the literal begins that is not at p in s.
Departs(n, s, p) ==
  LET text == Def[n].text
  IN {k \in 0..Len(text) : \E l \in 0..Len(text) :
        IsChar(text, k, l) /\ SpellsUpTo(n, s, p, k) /\ ~SpellsUpTo(n, s, p, l)}

LeafLeaves(n, s, p) ==
  IF Kind(n) = "class"
  THEN IF CharEnds(n, s, p) = {} THEN Single(p, Expected(n, <<>>)) ELSE EmptyHistory
  ELSE IF Departs(n, s, p) = {} THEN EmptyHistory
       ELSE LET k == Min(Departs(n, s, p))
                text == Def[n].text
            IN Single(p + k, Expected(n, Slice(text, k, Len(text))))

\* What the user's code adds to what n read at p, which is r.
Rejection(n, s, p, r) ==
  LET t == Slice(s, p, r.end)
      Says(kind) == Single(r.end, [kind |-> kind, of |-> n, text |-> t])
  IN IF ~r.ok THEN EmptyHistory
     ELSE IF Kind(n) \in {"fromStr", "tryFrom"} /\ ~Converts(n, t)
     THEN Says("GrammarFrom")
     ELSE IF Def[n].checked /\ ~Validates(n, t) THEN Says("Valid")
     ELSE EmptyHistory

CanStart(s, n, p) == First[n].nil \/ StartsAt(s, n, p)

\* The variants of n that may start at p.
Starters(n, s, p) == {j \in 1..Len(Kids(n)) : CanStart(s, Kids(n)[j], p)}

\* n goes through its kids, one after the other.
Branches(n, mode) ==
  \/ Kind(n) \in {"seq", "alt"}
  \/ Kind(n) = "vec1" /\ mode = "fail"

\* After its i-th kid, run at p, n goes on: to the next field if this one
\* matched, to the next variant if it did not; and failing, to the next field if
\* this one was not required, and to every variant.
GoesOn(n, mode, i, s, p) ==
  IF Kind(n) = "alt" THEN mode = "fail" \/ ~Reads(Kids(n)[i], s, p).ok
  ELSE IF mode = "fail" THEN First[Kids(n)[i]].nil
  ELSE Reads(Kids(n)[i], s, p).ok

GoesOnAt(n, mode, i, s, p) ==
  IF Kind(n) = "seq" /\ mode = "match" THEN Reads(Kids(n)[i], s, p).end ELSE p

\* The kid a dispatching enum begins with, and how it runs it.
BeginsWith(n, mode, s, p) ==
  IF mode = "match" /\ Dispatches(n, "parse") /\ Starters(n, s, p) # {}
  THEN Min(Starters(n, s, p)) ELSE 1

BeginsAs(n, mode, s, p) ==
  IF Dispatches(n, "parse") /\ Starters(n, s, p) = {} THEN "fail" ELSE mode

\* The kid whose reports are those of n.
Forwarded(n) == Kids(n)[IF Kind(n) = "vec1" THEN 2 ELSE 1]

\* A Vec that has read an item at p goes on.
ReadsItem(n, mode, s, p) ==
  LET r == Reads(Kids(n)[1], s, p)
  IN Kind(n) = "vec" /\ mode = "match" /\ r.ok /\ r.end # p

\* What n leaves: `branches` is what the kids it goes through leave, `told` what
\* the one kid it calls reports, `items` what it leaves after a first item.
LeavesGiven(n, mode, s, p, branches, told, items) ==
  CASE Kind(n) \in Literals \cup {"class"} ->
         IF mode = "fail" THEN Single(p, Expected(n, Def[n].text))
         ELSE LeafLeaves(n, s, p)
    [] Kind(n) \in {"unit", "not"} -> EmptyHistory
    [] Kind(n) = "seq" /\ mode = "match" ->
         Joined(branches, Rejection(n, s, p, Rest(n, 1, s, p)))
    [] Branches(n, mode) /\ ~(Kind(n) = "seq" /\ mode = "match") -> branches
    [] Kind(n) = "vec" -> IF ReadsItem(n, mode, s, p) THEN Joined(told, items) ELSE told
    [] Kind(n) \in Conversions /\ mode = "match" ->
         Joined(told, Rejection(n, s, p, Reads(Kids(n)[1], s, p)))
    [] OTHER -> told

\* What n reports, the rule it enters around it.
Told(n, mode, s, p) == InContext(Own(n, p), Leaves(n, mode, s, p))

LeavesAt(n, mode, s, p) ==
  LeavesGiven(n, mode, s, p,
    LeavesFrom(n, BeginsAs(n, mode, s, p), BeginsWith(n, mode, s, p), s, p),
    Told(Forwarded(n), mode, s, p),
    Leaves(n, mode, s, Reads(Kids(n)[1], s, p).end))

AfterKid(n, mode, i, s, p) ==
  IF GoesOn(n, mode, i, s, p)
  THEN LeavesFrom(n, mode, i + 1, s, GoesOnAt(n, mode, i, s, p))
  ELSE EmptyHistory

LeavesFromAt(n, mode, i, s, p) ==
  IF i > Len(Kids(n)) THEN EmptyHistory
  ELSE Joined(Told(Kids(n)[i], mode, s, p), AfterKid(n, mode, i, s, p))

ASSUME ReportsAssumption ==
  \A s \in Inputs : \A n \in Node : \A mode \in Modes : \A p \in 0..Len(s) :
    /\ Leaves(n, mode, s, p) \in HistorySet
    /\ Leaves(n, mode, s, p) = LeavesAt(n, mode, s, p)
    /\ Branches(n, mode) => \A i \in 1 .. Len(Kids(n)) + 1 :
         /\ LeavesFrom(n, mode, i, s, p) \in HistorySet
         /\ LeavesFrom(n, mode, i, s, p) = LeavesFromAt(n, mode, i, s, p)

-----------------------------------------------------------------------------
(***************************************************************************)
(* What is still to be reported.                                           *)
(***************************************************************************)

Rejects(s, f) == Rejection(f.node, s, f.pos, Rest(f.node, 1, s, f.pos))

\* By f, which goes on.
LeftHere(s, f) ==
  LET n == f.node
      mode == Mode(f.op)
  IN IF Kind(n) = "seq" /\ mode = "match"
     THEN Joined(LeavesFrom(n, mode, f.i, s, f.cur), Rejects(s, f))
     ELSE IF Branches(n, mode) /\ f.i # 0 THEN LeavesFrom(n, mode, f.i, s, f.cur)
     ELSE Leaves(n, mode, s, f.cur)

\* By f, once the kid it waits for has answered.
LeftAfter(s, f) ==
  LET n == f.node
      mode == Mode(f.op)
      r == Reads(Kids(n)[1], s, f.cur)
  IN CASE Kind(n) = "seq" /\ mode = "match" ->
            Joined(AfterKid(n, mode, f.i, s, f.cur), Rejects(s, f))
       [] Branches(n, mode) /\ ~(Kind(n) = "seq" /\ mode = "match") ->
            AfterKid(n, mode, f.i, s, f.cur)
       [] ReadsItem(n, mode, s, f.cur) -> Leaves(n, mode, s, r.end)
       [] Kind(n) \in Conversions /\ mode = "match" -> Rejection(n, s, f.pos, r)
       [] OTHER -> EmptyHistory

\* The reports h[1], h[2], .. in the order in which they are made: last first.
AllJoined(h) ==
  LET upTo[k \in 0..Len(h)] ==
        IF k = 0 THEN EmptyHistory ELSE Joined(h[k], upTo[k - 1])
  IN upTo[Len(h)]

\* By the first k of activations st, which all wait.
Owed(s, st, k) ==
  AllJoined([j \in 1..k |-> InContext(st[j].ctx, LeftAfter(s, st[j]))])

\* By all activations.
ToCome ==
  IF phase = "call"
  THEN Joined(InContext(Top.ctx, LeftHere(input, Top)),
              Owed(input, stack, Len(stack) - 1))
  ELSE Owed(input, stack, Len(stack))

\* The k-th activation is a lookahead that waits for its kid.
Probing(k) ==
  /\ Kind(stack[k].node) = "not"
  /\ stack[k].op \in Matching
  /\ k < Len(stack) \/ phase = "return"

Outermost(k) == Probing(k) /\ \A j \in 1 .. k - 1 : ~Probing(j)

\* What the root reports, whichever entry point runs it.
Report == Told(root, "match", input, 0)

\* Only an enum that dispatches starts at none of its kids.
BegunRightly ==
  \A k \in 1..Len(stack) : stack[k].i = 0 => Dispatches(stack[k].node, "parse")

\* Inside of lookaheads nothing counts but what the outermost of them set aside.
SetAside ==
  \A k \in 1..Len(stack) :
    Outermost(k) => Joined(stack[k].saved, Owed(input, stack, k)) = Report

\* Outside, what is recorded and what is still to come is the report of the root.
Recorded ==
  phase # "idle" /\ (\A k \in 1..Len(stack) : ~Probing(k)) =>
    Joined(history, ToCome) = Report

Reported == \A o \in DOMAIN outcomes : outcomes[o].error = IntoError(Report)

\* Inductive together with IInv and ReadsInv.
ReportsInv == BegunRightly /\ SetAside /\ Recorded /\ Reported
=============================================================================
