CONSTANTS
  Node <- MCNode
  Def <- MCDef
  First <- MCFirst
  AllNodes = FALSE
  Inputs <- MCInputs
  Roots <- DispatchRoot
  Schedule <- PrefixOnly
  Lossless <- MCLossless
SPECIFICATION Spec
INVARIANT
  EveryAlternativeReported
