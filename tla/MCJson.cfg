CONSTANTS
  Node <- MCNode
  Def <- MCDef
  First <- MCFirst
  AllNodes = FALSE
  Inputs <- MCInputs
  Roots <- OptimizedRoot
  Schedule <- ScanOnly
  Lossless <- Empty_
SPECIFICATION Spec
INVARIANT SameLanguage
