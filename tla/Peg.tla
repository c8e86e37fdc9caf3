--------------------------------- MODULE Peg --------------------------------
(***************************************************************************)
(* What a grammar means, whatever the parser does to find out: ordered     *)
(* choice without dispatch tables, one reading instead of separate parse,  *)
(* scan and fail operations, and a log of every failed expectation instead *)
(* of a history that forgets.  The parser is checked against it.           *)
(***************************************************************************)
EXTENDS History

\* An answer: whether and where n matches s at p, what the value prints as,
\* and the expectations that failed on the way, as <<pos, context, what>>.
Hit(end, print, log) == [ok |-> TRUE, end |-> end, print |-> print, log |-> log]
Miss(log) == [ok |-> FALSE, end |-> 0, print |-> <<>>, log |-> log]

\* The rule names n adds to the failures inside it.
Inside(n, p, ctx) ==
  IF Kind(n) \in {"seq", "alt"} /\ ~Def[n].inline
  THEN EnterRule(ctx, Def[n].name, p) ELSE ctx

Same(n, b, c) == IF Kind(n) = "litCI" THEN Lower(b) = Lower(c) ELSE b = c

\* How many bytes of the literal's characters s has at p.
Common(n, s, p) ==
  LET text == Def[n].text
  IN CHOOSE k \in 0..Len(text) :
       LET Fits(m) == /\ IsBoundary(text, m)
                      /\ p + m <= Len(s)
                      /\ \A j \in 1..m : Same(n, s[p + j], text[j])
       IN Fits(k) /\ \A m \in k + 1 .. Len(text) : ~Fits(m)

Literal(n, s, p, ctx) ==
  LET text == Def[n].text
      k == Common(n, s, p)
  IN IF k = Len(text)
     THEN Hit(p + k, IF Kind(n) = "lit" THEN text ELSE Slice(s, p, p + k), <<>>)
     ELSE Miss(<< <<p + k, ctx, Expected(n, Slice(text, k, Len(text)))>> >>)

Class(n, s, p, ctx) ==
  LET ends == {e \in p + 1 .. Len(s) : /\ IsChar(s, p, e)
                                       /\ Slice(s, p, e) \in Def[n].chars}
  IN IF ends = {} THEN Miss(<< <<p, ctx, Expected(n, <<>>)>> >>)
     ELSE LET e == CHOOSE e \in ends : TRUE IN Hit(e, Slice(s, p, e), <<>>)

\* r, printed as `print`, unless the user's code rejects what was matched.
Judged(n, s, p, ctx, r, print) ==
  LET t == Slice(s, p, r.end)
      Reject(kind) ==
        Miss(Append(r.log, <<r.end, ctx, [kind |-> kind, of |-> n, text |-> t]>>))
  IN IF ~r.ok THEN r
     ELSE IF Kind(n) \in {"fromStr", "tryFrom"} /\ ~Converts(n, t)
     THEN Reject("GrammarFrom")
     ELSE IF Def[n].checked /\ ~Validates(n, t) THEN Reject("Valid")
     ELSE [r EXCEPT !.print = print]

\* What a wrapper or conversion makes of its kid's answer.
Around(n, s, p, ctx, kid) ==
  CASE Kind(n) = "opt"     -> IF kid.ok THEN kid ELSE Hit(p, <<>>, kid.log)
    [] Kind(n) = "not"     -> IF kid.ok THEN Miss(<<>>) ELSE Hit(p, <<>>, <<>>)
    [] Kind(n) = "box"     -> kid
    [] Kind(n) = "raw"     -> IF kid.ok THEN [kid EXCEPT !.print = Slice(s, p, kid.end)]
                              ELSE kid
    [] Kind(n) = "phantom" -> [kid EXCEPT !.print = <<>>]
    [] Kind(n) = "fromStr" ->
         Judged(n, s, p, ctx, kid, Printed(n, Slice(s, p, kid.end)))
    [] OTHER -> Judged(n, s, p, ctx, kid, Printed(n, kid.print))

\* r, and after it or after its failure what is read then.
AndThen(r, more) ==
  [more EXCEPT !.print = IF more.ok THEN r.print \o @ ELSE @, !.log = r.log \o @]

RECURSIVE Reading(_, _, _, _), Fields(_, _, _, _), Variants(_, _, _, _),
          Items(_, _, _, _)

Reading(n, s, p, ctx) ==
  LET inner == Inside(n, p, ctx)
  IN CASE Kind(n) \in Literals -> Literal(n, s, p, inner)
       [] Kind(n) = "class"    -> Class(n, s, p, inner)
       [] Kind(n) = "unit"     -> Hit(p, <<>>, <<>>)
       [] Kind(n) = "vec"      -> Items(Kids(n)[1], s, p, inner)
       [] Kind(n) = "vec1"     ->
            LET NotNone(r) == IF r.end = p THEN Miss(r.log) ELSE r
            IN NotNone(Items(Kids(n)[1], s, p, inner))
       [] Kind(n) = "seq"      ->
            LET Whole(r) == Judged(n, s, p, inner, r, r.print)
            IN Whole(Fields(Kids(n), s, p, inner))
       [] Kind(n) = "alt"      -> Variants(Kids(n), s, p, inner)
       [] OTHER -> Around(n, s, p, inner, Reading(Kids(n)[1], s, p, inner))

Fields(kids, s, p, ctx) ==
  LET Onwards(r) ==
        IF r.ok THEN AndThen(r, Fields(Tail(kids), s, r.end, ctx)) ELSE r
  IN IF kids = <<>> THEN Hit(p, <<>>, <<>>)
     ELSE Onwards(Reading(Head(kids), s, p, ctx))

Variants(kids, s, p, ctx) ==
  LET OrElse(r) ==
        IF r.ok THEN r ELSE AndThen(r, Variants(Tail(kids), s, p, ctx))
  IN IF kids = <<>> THEN Miss(<<>>)
     ELSE OrElse(Reading(Head(kids), s, p, ctx))

Items(kid, s, p, ctx) ==
  LET Onwards(r) ==
        IF ~r.ok \/ r.end = p THEN Hit(p, <<>>, r.log)
        ELSE AndThen(r, Items(kid, s, r.end, ctx))
  IN Onwards(Reading(kid, s, p, ctx))

-----------------------------------------------------------------------------
\* The expectations of a log that failed furthest.
Deepest(log) ==
  LET positions == {log[i][1] : i \in DOMAIN log}
      pos == Max(positions \cup {0})
      last == SelectSeq(log, LAMBDA e : e[1] = pos)
  IN [pos |-> pos,
      traces |-> [i \in DOMAIN last |-> [context |-> last[i][2],
                                         expectation |-> last[i][3]]]]

BestError(r) == IntoError(Deepest(r.log))
=============================================================================
