------------------------------ MODULE Grammar -------------------------------
(***************************************************************************)
(* The grammars of tygr.  In the library a grammar is a Rust type: the     *)
(* type's `impl Grammar` decides how it parses and its associated type     *)
(* `First` which bytes it can start with.  Here a grammar is a node of a   *)
(* (possibly cyclic) graph: Def[n] says which `impl` node n has and which  *)
(* grammars it is built from, First[n] is its FIRST set.                   *)
(***************************************************************************)
EXTENDS FirstSets

CONSTANTS
  Node,    \* the grammars: types that implement Grammar, enum variants too
  Def,     \* Def[n]: which impl node n has, and its parameters
  First    \* First[n]: <N as Grammar>::First

(***************************************************************************)
(* One kind per `impl Grammar`, those that only forward to another merged: *)
(*   lit, litCI  StringEq!("..") and StringEqCI!("..")                     *)
(*   class       CharOf<M>                                                 *)
(*   unit        ()                                                        *)
(*   opt, vec, vec1   Option<T>, Vec<T>, and Vec1<T> with the Vec<T> it    *)
(*               calls as its second kid                                   *)
(*   box         Box<T> and Range<T>: the same call, forwarded             *)
(*   raw         Raw<T>, and so StringOf and StringOf1                     *)
(*   phantom     PhantomData<T>                                            *)
(*   not         NotFollowedBy<T>; FollowedBy<T> is two of them            *)
(*   seq         tuples, derived structs and the fields of an enum variant *)
(*   alt         derived enums and Either                                  *)
(*   fromStr, from, tryFrom   the three conversion derives                 *)
(***************************************************************************)
Literals    == {"lit", "litCI"}
Wrappers    == {"opt", "vec", "box", "raw", "phantom", "not"}
Conversions == {"fromStr", "from", "tryFrom"}
Kinds == Literals \cup {"class", "unit", "vec1", "seq", "alt"}
           \cup Wrappers \cup Conversions

\* name: GrammarRule::NAME; inline: no rule frame is pushed for the node
\* (`hidden` implies it); checked: #[grammar(validated)].  The user's code is
\* given by what it decides on a matched text: the texts that validate, and
\* that from_str or try_from, reject, and those GrammarFrom::print_to prints
\* back differently.
DefSet == [kind : Kinds, kids : Seq(Node), text : Text,
           chars : SUBSET Text, name : STRING,
           inline : BOOLEAN, checked : BOOLEAN,
           invalid : SUBSET Text, unconvertible : SUBSET Text,
           canon : SUBSET (Text \X Text)]

Kind(n) == Def[n].kind
Kids(n) == Def[n].kids

Validates(n, t) == t \notin Def[n].invalid
Converts(n, t)  == t \notin Def[n].unconvertible

Printed(n, t) ==
  IF \E c \in Def[n].canon : c[1] = t
  THEN (CHOOSE c \in Def[n].canon : c[1] = t)[2]
  ELSE t

\* What each impl, macro or derive requires of its parameters: literals are
\* not empty (the macros reject "") and strings of Rust, an enum has a variant.
WellFormed(n) ==
  /\ Kind(n) \in Literals => /\ Kids(n) = <<>>
                             /\ Def[n].text # <<>> /\ IsUtf8(Def[n].text)
  /\ Kind(n) \in {"class", "unit"} => Kids(n) = <<>>
  /\ Kind(n) \in Wrappers \cup Conversions => Len(Kids(n)) = 1
  /\ Kind(n) = "vec1" => /\ Len(Kids(n)) = 2
                         /\ Kind(Kids(n)[2]) = "vec"
                         /\ Kids(Kids(n)[2]) = <<Kids(n)[1]>>
  /\ Kind(n) = "alt" => Len(Kids(n)) >= 1

-----------------------------------------------------------------------------
\* `type First` of each impl, in terms of the FIRST sets F of the kids.
FirstOf(n, F) ==
  CASE Kind(n) = "lit"              -> CharFirst(Def[n].text[1])
    [] Kind(n) = "litCI"            -> CharFirstCI(Def[n].text[1])
    [] Kind(n) = "class"            -> AnyChar
    [] Kind(n) \in {"unit", "not"}  -> EmptyFirst
    [] Kind(n) \in {"opt", "vec"}   -> Nullable(F[Kids(n)[1]])
    [] Kind(n) = "seq"              -> ConcatFirst(Kids(n), F)
    [] Kind(n) = "alt"              -> UnionFirst(Kids(n), F)
    [] OTHER                        -> F[Kids(n)[1]]

-----------------------------------------------------------------------------
(***************************************************************************)
(* The Rust compiler solves the equations between the First types; any     *)
(* solution of them is an admissible table.                                *)
(***************************************************************************)
ASSUME GrammarAssumption ==
  /\ Def \in [Node -> DefSet]
  /\ First \in [Node -> FirstSet]
  /\ \A n \in Node : WellFormed(n) /\ First[n] = FirstOf(n, First)
=============================================================================
