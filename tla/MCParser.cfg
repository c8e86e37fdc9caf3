CONSTANTS
  Node <- MCNode
  Def <- MCDef
  First <- MCFirst
  AllNodes = FALSE
  Inputs <- MCInputs
  Roots <- MCRoots
  Schedule <- MCSchedule
  Lossless <- MCLossless
SPECIFICATION Spec
INVARIANTS
  RequiredIffNotNullable
  TracesUnmet
  ShownIsMissing
  PrintsBack
  ScanAgreesWithParse
  ErrorsAgree
PROPERTY
  ImplementsPeg
