CONSTANTS
  Node <- MCNode
  Def <- MCDef
  First <- MCFirst
  AllNodes = FALSE
  Inputs <- MCInputs
  Roots <- MCRoots
  Schedule <- MCSchedule
  Lossless <- MCLossless
SPECIFICATION Spec
INVARIANTS
  FirstSound
  NilSound
  ErrorWithinBest
PROPERTY
  ImplementsPeg
