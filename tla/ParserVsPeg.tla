---------------------------- MODULE ParserVsPeg -----------------------------
(***************************************************************************)
(* The parser against the meaning of its grammars.                         *)
(***************************************************************************)
EXTENDS ParserInvariant, Peg

\* What each grammar means on each input, read once.
Readings == [n \in Roots, s \in Inputs |-> Reading(n, s, 0, <<>>)] @@ <<>>

Meant(n, s) == Readings[n, s]

Contract == INSTANCE AtomicParser WITH
  answers <- [i \in DOMAIN outcomes |->
                [ok |-> outcomes[i].ok, end |-> outcomes[i].end,
                 print |-> outcomes[i].print]]

\* Dispatch tables, Vec's early exit, separate scan and parse: none of it
\* shows.  Each call is answered, once, with what the grammar means as a PEG.
ImplementsPeg == Contract!Spec

\* The error of a failed call is the one an ordered choice that tries every
\* alternative would leave.
Failed == {o \in DOMAIN outcomes : ~outcomes[o].ok}
ErrorIsBest ==
  phase = "idle" => \A o \in Failed :
    outcomes[o].error = BestError(Readings[root, input])

\* What Display tells the user was expected at byte N is not there: no rule it
\* names could be read from there on, but as nothing at all, unless the grammar
\* did match and only the end of the input is missing.
ShownIsMissing ==
  phase = "idle" => \A o \in Failed :
    Readings[root, input].ok \/
      \A n \in Node :
        /\ ~Def[n].inline
        /\ <<"rule", Def[n].name>> \in Shown(outcomes[o].error)
        => LET p == outcomes[o].error.pos
               r == Reading(n, input, p, <<>>)
           IN r.ok => r.end = p

\* With dispatch tables the error may leave alternatives out (see
\* EveryAlternativeReported), but it invents none: it is at most as deep, and
\* at the same depth reports only what an ordered choice would.
ErrorWithinBest ==
  phase = "idle" => \A o \in Failed :
    LET best == BestError(Readings[root, input])
        error == outcomes[o].error
    IN /\ error.pos <= best.pos
       /\ error.pos = best.pos => ToSet(error.traces) \subseteq ToSet(best.traces)

\* "Fixed enum dispatch silently dropping earlier variants' failed-match
\* traces, reporting only the last variant's expectation" (CHANGELOG.md:165):
\* whatever an ordered choice would report, the error reports.
EveryAlternativeReported ==
  phase = "idle" => \A o \in Failed :
    LET best == BestError(Readings[root, input])
        error == outcomes[o].error
    IN best.pos = error.pos => ToSet(best.traces) \subseteq ToSet(error.traces)

\* "The deepest byte offset the parser reached before giving up"
\* (state.rs:361): at least as far as the root had matched.
DeepestOffsetReported ==
  \A o \in Failed : outcomes[o].error.pos >= outcomes[o].end
=============================================================================
