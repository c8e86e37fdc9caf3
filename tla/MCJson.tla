------------------------------- MODULE MCJson -------------------------------
(***************************************************************************)
(* The two JSON grammars of the examples against each other, and against   *)
(* the definition they refer to.                                           *)
(***************************************************************************)
EXTENDS JsonGrammars, Parser, Peg

\* The nodes of a table, beside those of another.
Beside(name, table) ==
  [n \in {name} \X DOMAIN table |->
     [table[n[2]] EXCEPT !.kids = [j \in DOMAIN @ |-> <<name, @[j]>>]]]

Both    == Beside("json", JsonTable) @@ Beside("json_optimized", JsonOptimizedTable)
MCDef   == Both
MCNode  == DOMAIN Both
Firsts  == Solve(MCNode, FirstOf, 14)
MCFirst == Firsts

Plain     == <<"json", "Json">>
Optimized == <<"json_optimized", "Json">>

PlainRoot     == {Plain}
OptimizedRoot == {Optimized}
Empty_        == {}
ScanOnly      == <<"scan">>

Words(tokens, n) == TextsUpTo({Code[t] : t \in tokens}, n)

NumberTexts == Words({"-", "0", "1", ".", "e", "+"}, 4)

\* Numbers; strings, with escapes and quotes in them; lists and objects of
\* null, with space.
MCInputs ==
  NumberTexts
    \cup {Code["quote"] \o t \o Code["quote"] :
            t \in TextsUpTo({Code["\\"], Code["\\"] \o Code["u"], Code["1"],
                             Code["e"], Code["quote"]}, 4)}
    \cup Words({"[", "]", "{", "}", ",", "null", "sp"}, 4)
    \cup {Code["{"] \o t \o Code["}"] :
            t \in TextsUpTo({Code["quote"] \o Code["quote"] \o Code[":"],
                             Code["null"], Code["nl"], Code[","]}, 5)}

-----------------------------------------------------------------------------
\* What json.rs means, read once.
PlainReadings == [s \in Inputs |-> Reading(Plain, s, 0, <<>>)] @@ <<>>

\* "Same language as json, hand-tuned for parse throughput"
\* (json_optimized.rs:7): a scan of the one accepts what the other means.
SameLanguage ==
  \A o \in DOMAIN outcomes :
    outcomes[o].ok <=> /\ PlainReadings[input].ok
                       /\ PlainReadings[input].end = Len(input)

\* A number of json.org: integer, fraction, exponent.
IsDigits(t) == t # <<>> /\ \A j \in DOMAIN t : t[j] \in 48..57
IsInteger(t) ==
  LET u == IF t # <<>> /\ t[1] = 45 THEN Tail(t) ELSE t
  IN IsDigits(u) /\ (u[1] = 48 => Len(u) = 1)
IsFraction(t) == t = <<>> \/ (t[1] = 46 /\ IsDigits(Tail(t)))
IsExponent(t) ==
  \/ t = <<>>
  \/ /\ t[1] \in {69, 101}
     /\ \/ IsDigits(Tail(t))
        \/ /\ Len(t) > 1
           /\ t[2] \in {43, 45}
           /\ IsDigits(SubSeq(t, 3, Len(t)))
IsNumber(t) ==
  \E i \in 0..Len(t) : \E j \in i..Len(t) :
    /\ IsInteger(Slice(t, 0, i))
    /\ IsFraction(Slice(t, i, j))
    /\ IsExponent(Slice(t, j, Len(t)))

\* "grammar per json.org" (json.rs:1), on numbers.
PerJsonOrg ==
  input \in NumberTexts =>
    \A o \in DOMAIN outcomes : outcomes[o].ok <=> IsNumber(input)
=============================================================================
