------------------------------ MODULE FirstSets ------------------------------
(***************************************************************************)
(* FIRST sets, as what the types of first.rs denote: the bytes a grammar   *)
(* can start with, and whether it is nullable.  FirstAlgebra has the types *)
(* themselves.                                                             *)
(***************************************************************************)
EXTENDS Utf8

FirstSet == [bytes : SUBSET Byte, nil : BOOLEAN]

EmptyFirst == [bytes |-> {}, nil |-> TRUE]
AnyChar    == [bytes |-> Byte, nil |-> FALSE]

CharFirst(b)   == [bytes |-> {b}, nil |-> FALSE]
CharFirstCI(b) == [bytes |-> {Lower(b), Upper(b)}, nil |-> FALSE]

\* Bug: Option's and Vec's FIRST set is that of the item.
BugNullable(f) == f

Nullable(f) == [f EXCEPT !.nil = TRUE]

\* Bug: only the first field counts.
BugConcatFirst(kids, F) ==
  [bytes |-> UNION {F[kids[j]].bytes : j \in DOMAIN kids \cap {1}},
   nil   |-> \A j \in DOMAIN kids : F[kids[j]].nil]

\* Concat chains from EmptyFirst: a field counts while all before it are
\* nullable.
ConcatFirst(kids, F) ==
  [bytes |-> UNION {F[kids[j]].bytes : j \in
               {j \in DOMAIN kids : \A l \in 1 .. j - 1 : F[kids[l]].nil}},
   nil   |-> \A j \in DOMAIN kids : F[kids[j]].nil]

\* Bug: only the first variant counts.
BugUnionFirst(kids, F) == F[kids[1]]

\* Union of the variants.
UnionFirst(kids, F) ==
  [bytes |-> UNION {F[kids[j]].bytes : j \in DOMAIN kids},
   nil   |-> \E j \in DOMAIN kids : F[kids[j]].nil]
=============================================================================
