CONSTANTS
  Node <- MCNode
  Def <- MCDef
  First <- MCFirst
  AllNodes = TRUE
  Inputs <- MCInputs
  Roots <- MCRoots
  Schedule <- MCSchedule
  Lossless <- MCLossless
  Hidden <- MCHidden
  Rules <- MCRules
  Listed <- MCListed
  LeftRank <- MCLeftRank
  Reads <- MCReads
  Rest <- MCRest
  Leaves <- MCLeaves
  LeavesFrom <- MCLeavesFrom
SPECIFICATION Spec
INVARIANTS
  TypeOK
  IInv
  SafetyInv
  ReadsInv
  ReportsInv
  PositionsNest
  ReentersFurtherOn
  NeverPanics
  ContextNested
PROPERTY KeepsPromise
