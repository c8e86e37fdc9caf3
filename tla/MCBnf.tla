-------------------------------- MODULE MCBnf --------------------------------
(***************************************************************************)
(* Every expression of up to MaxSize nodes over two leaves and two texts.  *)
(***************************************************************************)
EXTENDS BnfBuilder

MCLeaves       == {"A", "B"}
MCRequirements == {"be x", "be y"}
=============================================================================
