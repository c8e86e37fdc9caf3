CONSTANTS
  Node <- MCNode
  Def <- MCDef
  First <- MCFirst
  AllNodes = TRUE
  Inputs <- MCInputs
  Roots <- PlainRoots
  Schedule <- MCSchedule
  Lossless <- MCLossless
  Hidden <- MCHidden
  Rules <- MCRules
  Listed <- MCListed
  LeftRank <- MCLeftRank
  Reads <- MCReads
  Rest <- MCRest
SPECIFICATION Spec
INVARIANTS
  ErrorIsBest
  ReadsAsParsed
PROPERTY EveryCallReturns
