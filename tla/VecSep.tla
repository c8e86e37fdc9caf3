------------------------------- MODULE VecSep -------------------------------
(***************************************************************************)
(* VecSep<T, S> between its parsing and its printing.  What is parsed is a *)
(* VecSepSource, T { S T }; From takes it apart into two vectors, and      *)
(* print_to puts them together again by zipping them.  The loops are the   *)
(* actions; what stands for T and S does not matter.                       *)
(***************************************************************************)
EXTENDS Integers, Sequences

CONSTANTS Item, Sep

SepItem == [sep : Sep, item : Item]

VARIABLES
  head, rest,    \* the VecSepSource: an item, and SepItems
  items, seps,   \* the VecSep
  phase,         \* "from", "print"
  zipped,        \* how many pairs of the zip were printed
  printed        \* what was printed

vars == <<head, rest, items, seps, phase, zipped, printed>>

Init ==
  /\ head \in Item
  /\ rest \in Seq(SepItem)
  /\ items = <<head>>
  /\ seps = <<>>
  /\ phase = "from"
  /\ zipped = 0
  /\ printed = <<>>

\* From::from, for each sep_item of rest: seps has taken all before it.
Take ==
  /\ phase = "from"
  /\ Len(seps) < Len(rest)
  /\ seps' = Append(seps, rest[Len(seps) + 1].sep)
  /\ items' = Append(items, rest[Len(seps) + 1].item)
  /\ UNCHANGED <<head, rest, phase, zipped, printed>>

\* print_to: the first item, which the iterator over items is then past.
PrintFirst ==
  /\ phase = "from"
  /\ Len(seps) = Len(rest)
  /\ phase' = "print"
  /\ printed' = IF items = <<>> THEN <<>> ELSE <<items[1]>>
  /\ UNCHANGED <<head, rest, items, seps, zipped>>

\* The zip of seps with the items after the first ends with the shorter.
InZip == zipped < Len(seps) /\ zipped + 1 < Len(items)

PrintPair ==
  /\ phase = "print"
  /\ InZip
  /\ LET k == zipped + 1
     IN printed' = printed \o <<seps[k], items[k + 1]>>
  /\ zipped' = zipped + 1
  /\ UNCHANGED <<head, rest, items, seps, phase>>

Next == Take \/ PrintFirst \/ PrintPair

Spec == Init /\ [][Next]_vars

-----------------------------------------------------------------------------
\* seps has "always exactly one fewer than items" (lib.rs:284) once From is
\* done, so first() and last() find an item, and into_item_sep loses only the
\* last one.
OneMoreItem == Len(items) = Len(seps) + 1

\* What is printed is the source, piece by piece, up to where the zip is.
PrintsInOrder ==
  phase = "print" =>
    /\ Len(printed) = 2 * zipped + 1
    /\ printed[1] = head
    /\ \A j \in 1..zipped : /\ printed[2 * j] = rest[j].sep
                            /\ printed[2 * j + 1] = rest[j].item

\* The zip, which would drop what one vector has too many, drops nothing.
PrintsAll == phase = "print" /\ ~InZip => zipped = Len(rest)

\* A VecSep prints its source: every piece, in its order, and to the end.
PrintsSource == PrintsInOrder /\ PrintsAll
=============================================================================
