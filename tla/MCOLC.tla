-------------------------------- MODULE MCOLC --------------------------------
(***************************************************************************)
(* The index on every text of up to five characters, of every UTF-8 length.*)
(***************************************************************************)
EXTENDS OLCInvariant, SequencesExt

A == <<97>>
EAcute == <<195, 169>>
Ping == <<229, 185, 179>>
Grin == <<240, 159, 152, 128>>

Characters == {<<Newline>>, A, EAcute, Ping, Grin}

MCInputs == {FlattenSeq(t) : t \in BoundedSeq(Characters, 5)}
==============================================================================
