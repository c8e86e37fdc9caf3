---------------------------- MODULE AtomicParser ----------------------------
(***************************************************************************)
(* What tygr promises its caller: each call is answered, at once and once, *)
(* with what the grammar means on the input.                               *)
(***************************************************************************)
EXTENDS Naturals, Sequences

CONSTANTS
  Inputs, Roots, Schedule,
  Meant(_, _)  \* Meant(n, s): what grammar n reads at the start of s

VARIABLES input, root, answers

vars == <<input, root, answers>>

\* What an entry point answers, if the root reads r at the start of s.
MeaningOf(r, s, entry) ==
  [ok |-> r.ok /\ (entry \in {"parse", "scan"} => r.end = Len(s)),
   end |-> r.end,
   print |-> IF entry \in {"parse", "parse_prefix"} THEN r.print ELSE <<>>]

Init ==
  /\ input \in Inputs
  /\ root \in Roots
  /\ answers = <<>>

Answer ==
  /\ Len(answers) < Len(Schedule)
  /\ answers' = Append(answers,
       MeaningOf(Meant(root, input), input, Schedule[Len(answers) + 1]))
  /\ UNCHANGED <<input, root>>

Safety == Init /\ [][Answer]_vars
Spec == Safety /\ WF_vars(Answer)
=============================================================================
