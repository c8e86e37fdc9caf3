CONSTANTS
  Node <- MCNode
  Def <- MCDef
  First <- MCFirst
  AllNodes = FALSE
  Inputs <- NumberTexts
  Roots <- PlainRoot
  Schedule <- ScanOnly
  Lossless <- Empty_
SPECIFICATION Spec
INVARIANT PerJsonOrg
