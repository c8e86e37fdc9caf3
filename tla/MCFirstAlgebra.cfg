CONSTANTS
  Pool <- MCPool
  Char <- MCChar
  MaxParts = 4
SPECIFICATION Spec
INVARIANTS
  TypesHaveImpls
  DenotesFirst
CHECK_DEADLOCK FALSE
