----------------------------- MODULE MCConstructs -----------------------------
(***************************************************************************)
(* The parser on the grammars that put the constructs together.            *)
(***************************************************************************)
EXTENDS ConstructGrammars, Presentation, Meaning

MCDef   == Table
MCNode  == DOMAIN Table
Firsts  == Solve(MCNode, FirstOf, 12)
MCFirst == Firsts
Keeping == ClosedUnder(Table, KeepsText, 12)
MCLossless == Keeping

\* How many calls nest before anything is consumed, at most.
Ranks ==
  LET Kid(n) == {Kids(n)[j] : j \in {i \in 1..Len(Kids(n)) : LeftKid(n, i)}}
      rank[k \in 0..12] ==
        IF k = 0 THEN Explicit([n \in MCNode |-> 0])
        ELSE LET below == rank[k - 1]
             IN Explicit([n \in MCNode |->
                            Max({0} \cup {below[kid] + 1 : kid \in Kid(n)})])
  IN rank[12]
MCLeftRank == Ranks

\* None of these reaches an enum of four variants.
PlainRoots == {"Value", "Many", "Some", "Unseen", "Accents", "Words", "Ahead"}
MCRoots == PlainRoots \cup {"InBig"}

MCInputs == Texts

\* The meaning is what Peg reads, without the failures on the way.  What lies
\* ahead is read alike wherever it stands.
Remains(s, p) == Slice(s, p, Len(s))
Remainders   == UNION {{Remains(s, p) : p \in 0..Len(s)} : s \in MCInputs}
FieldsFrom   == {<<n, i>> \in MCNode \X (1..6) :
                   Kind(n) = "seq" /\ i <= Len(Kids(n)) + 1}
At(r, p)     == [ok |-> r.ok, end |-> IF r.ok THEN r.end + p ELSE 0, print |-> r.print]
ReadTable ==
  Explicit([t \in Remainders |->
    Explicit([n \in MCNode |-> At(Reading(n, t, 0, <<>>), 0)])])
RestTable ==
  Explicit([t \in Remainders |->
    Explicit([f \in FieldsFrom |->
      At(Fields(SubSeq(Kids(f[1]), f[2], Len(Kids(f[1]))), t, 0, <<>>), 0)])])
MCReads(n, s, p) ==
  LET t == Remains(s, p)
  IN At(ReadTable[t][n], p)
MCRest(n, i, s, p) ==
  LET t == Remains(s, p)
  IN At(RestTable[t][<<n, i>>], p)

\* Structs and enums that are not inline, and conversions but VecSep.  Some is
\* not listed: Vec1 of what may be empty is shown as T { T }, which matches
\* nothing, and the parser does not.
MCHidden == {}
MCRules  == {n \in MCNode : \/ Kind(n) \in {"seq", "alt"} /\ ~Def[n].inline
                            \/ Kind(n) \in {"fromStr", "tryFrom"}
                            \/ n = "Checked"}
MCListed == (PlainRoots \cap MCRules) \ {"Some"}

MCSchedule == <<"parse", "scan">>
=============================================================================
