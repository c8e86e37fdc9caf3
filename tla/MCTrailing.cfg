CONSTANTS
  Node <- MCNode
  Def <- MCDef
  First <- MCFirst
  AllNodes = FALSE
  Inputs <- MCInputs
  Roots <- LiteralRoot
  Schedule <- ParseOnly
  Lossless <- MCLossless
SPECIFICATION Spec
INVARIANT
  DeepestOffsetReported
