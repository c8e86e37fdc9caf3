--------------------------- MODULE MCFirstAlgebra ---------------------------
(***************************************************************************)
(* FIRST types joined in every order: a byte, two of them, both cases of a *)
(* letter, any byte, none, and each of these nullable.                     *)
(***************************************************************************)
EXTENDS FirstAlgebra

MCByteSets ==
  {NeverType, AnyCharType, BytesType({97}), BytesType({98, 66}), BytesType({195})}
MCPool == MCByteSets \cup {Optional(b) : b \in MCByteSets}

\* A letter, a digit and an accented letter.
MCChar == {<<97>>, <<49>>, <<195, 169>>}
=============================================================================
