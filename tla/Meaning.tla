------------------------------- MODULE Meaning -------------------------------
(***************************************************************************)
(* What grammars mean, as a table: whether and where a grammar that starts *)
(* at a position of a text ends, and what its value prints as.  As First   *)
(* solves the equations of FIRST sets, the table solves those of ordered   *)
(* choice; without left recursion they have exactly one solution, the      *)
(* answers of Peg.  A table can be reasoned about, a recursive definition  *)
(* cannot.  Its invariant says what every activation has left to read.     *)
(***************************************************************************)
EXTENDS Depth

CONSTANTS
  Reads(_, _, _),   \* Reads(n, s, p): what n reads of s at p
  Rest(_, _, _, _)  \* Rest(n, i, s, p): what its fields read there, from the i-th on

Read(end, print) == [ok |-> TRUE, end |-> end, print |-> print]
Unread == [ok |-> FALSE, end |-> 0, print |-> <<>>]
Found  == [ok : {TRUE}, end : Nat, print : Text] \cup {Unread}

\* What was printed so far, and then r.
After(print, r) == IF r.ok THEN Read(r.end, print \o r.print) ELSE Unread

-----------------------------------------------------------------------------
\* The literal n is at p in s.
Spells(n, s, p) ==
  LET text == Def[n].text
      Same(b, c) == IF Kind(n) = "litCI" THEN Lower(b) = Lower(c) ELSE b = c
  IN /\ p + Len(text) <= Len(s)
     /\ \A j \in 1..Len(text) : Same(s[p + j], text[j])

\* Where a character of class n at p ends.
CharEnds(n, s, p) ==
  {e \in p + 1 .. Len(s) : IsChar(s, p, e) /\ Slice(s, p, e) \in Def[n].chars}

\* The user's code refuses the text t.
Refuses(n, t) ==
  \/ Kind(n) \in {"fromStr", "tryFrom"} /\ ~Converts(n, t)
  \/ Def[n].checked /\ ~Validates(n, t)

\* r, which prints as `print`, unless the user's code refuses it.
Approved(n, s, p, r, print) ==
  IF r.ok /\ ~Refuses(n, Slice(s, p, r.end)) THEN Read(r.end, print) ELSE Unread

\* The variants of n that read something at p.
Fitting(n, s, p) == {j \in 1..Len(Kids(n)) : Reads(Kids(n)[j], s, p).ok}

\* What n reads of s at p, in terms of what its kids read.
ReadsAt(n, s, p) ==
  LET kid == Reads(Kids(n)[1], s, p)
  IN CASE Kind(n) \in Literals ->
            LET end == p + Len(Def[n].text)
            IN IF Spells(n, s, p)
               THEN Read(end, IF Kind(n) = "lit" THEN Def[n].text ELSE Slice(s, p, end))
               ELSE Unread
       [] Kind(n) = "class" ->
            IF CharEnds(n, s, p) = {} THEN Unread
            ELSE LET end == CHOOSE e \in CharEnds(n, s, p) : TRUE
                 IN Read(end, Slice(s, p, end))
       [] Kind(n) = "unit" -> Read(p, <<>>)
       [] Kind(n) = "opt"  -> IF kid.ok THEN kid ELSE Read(p, <<>>)
       [] Kind(n) = "vec"  ->
            IF kid.ok /\ kid.end # p THEN After(kid.print, Reads(n, s, kid.end))
            ELSE Read(p, <<>>)
       [] Kind(n) = "vec1" ->
            LET items == Reads(Kids(n)[2], s, p)
            IN IF items.end = p THEN Unread ELSE items
       [] Kind(n) = "seq" -> Approved(n, s, p, Rest(n, 1, s, p), Rest(n, 1, s, p).print)
       [] Kind(n) = "alt" ->
            IF Fitting(n, s, p) = {} THEN Unread
            ELSE Reads(Kids(n)[Min(Fitting(n, s, p))], s, p)
       [] Kind(n) = "not"     -> IF kid.ok THEN Unread ELSE Read(p, <<>>)
       [] Kind(n) = "box"     -> kid
       [] Kind(n) = "raw"     -> IF kid.ok THEN Read(kid.end, Slice(s, p, kid.end)) ELSE Unread
       [] Kind(n) = "phantom" -> IF kid.ok THEN Read(kid.end, <<>>) ELSE Unread
       [] Kind(n) = "fromStr" -> Approved(n, s, p, kid, Printed(n, Slice(s, p, kid.end)))
       [] OTHER               -> Approved(n, s, p, kid, Printed(n, kid.print))

\* What the fields of n from the i-th on read of s at p.
RestAt(n, i, s, p) ==
  IF i > Len(Kids(n)) THEN Read(p, <<>>)
  ELSE LET r == Reads(Kids(n)[i], s, p)
       IN IF r.ok THEN After(r.print, Rest(n, i + 1, s, r.end)) ELSE Unread

ASSUME MeaningAssumption ==
  \A s \in Inputs : \A n \in Node : \A p \in 0..Len(s) :
    /\ Reads(n, s, p) \in Found
    /\ Reads(n, s, p) = ReadsAt(n, s, p)
    /\ Kind(n) = "seq" => \A i \in 1 .. Len(Kids(n)) + 1 :
         /\ Rest(n, i, s, p) \in Found
         /\ Rest(n, i, s, p) = RestAt(n, i, s, p)

-----------------------------------------------------------------------------
(***************************************************************************)
(* The contract of the parser.                                             *)
(***************************************************************************)

\* The meaning of a root.
RootReads(n, s) == Reads(n, s, 0)

Promise == INSTANCE AtomicParser WITH
  Meant <- RootReads,
  answers <- [i \in DOMAIN outcomes |->
                [ok |-> outcomes[i].ok, end |-> outcomes[i].end,
                 print |-> outcomes[i].print]]

\* Each call is answered once, with what the table says of the root.
KeepsPromise == Promise!Safety

-----------------------------------------------------------------------------
(***************************************************************************)
(* Why it is kept.                                                         *)
(***************************************************************************)

\* f read the beginning of `whole` and has `rest` left to read.
Continues(f, whole, rest) ==
  /\ whole.ok = rest.ok
  /\ whole.end = rest.end
  /\ f.op = "parse" => whole = After(f.out, rest)

FrameMeans(s, f, whole) ==
  LET kind == Kind(f.node)
  IN /\ f.op = "miss" => ~whole.ok
     /\ kind = "seq" /\ f.op \in Matching =>
          Continues(f, Rest(f.node, 1, s, f.pos), Rest(f.node, f.i, s, f.cur))
     /\ kind = "vec" /\ f.op \in Matching =>
          /\ Continues(f, whole, Reads(f.node, s, f.cur))
          /\ f.items = 0 <=> f.cur = f.pos
     /\ kind = "alt" /\ f.op \in Matching =>
          \A j \in 1 .. f.i - 1 : ~Reads(Kids(f.node)[j], s, f.pos).ok

AnswerMeans(n, op, p, r, m) ==
  op \in Matching =>
    /\ r.ok = m.ok
    /\ r.end = m.end
    /\ r.print = IF op = "parse" THEN m.print ELSE <<>>
    /\ op = "parse" /\ Kind(n) = "vec" => (r.items = 0 <=> r.end = p)

AnswersAs(o, m) == o.ok = m.ok /\ o.end = m.end /\ o.print = m.print

\* Every call that was answered was answered with the meaning of the root.
AnsweredAsMeant ==
  \A o \in DOMAIN outcomes :
    AnswersAs(outcomes[o],
      Promise!MeaningOf(RootReads(root, input), input, outcomes[o].entry))

Whole == {"parse", "scan"}

\* Whatever the entry point, and whether or not it builds a value, the root
\* reads as far; and with the same demand on the rest it gives the same verdict.
VerdictsAgree ==
  \A i, j \in DOMAIN outcomes :
    /\ outcomes[i].end = outcomes[j].end
    /\ (outcomes[i].entry \in Whole <=> outcomes[j].entry \in Whole) =>
         outcomes[i].ok = outcomes[j].ok

\* Inductive together with IInv.
ReadsInv ==
  /\ \A k \in 1..Len(stack) :
       FrameMeans(input, stack[k], Reads(stack[k].node, input, stack[k].pos))
  /\ phase = "return" =>
       AnswerMeans(AskedNode, AskedOp, AskedPos, ret, Reads(AskedNode, input, AskedPos))
  /\ AnsweredAsMeant
=============================================================================
