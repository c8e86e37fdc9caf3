CONSTANTS
  Leaves <- MCLeaves
  Requirements <- MCRequirements
  MaxSize = 6
  AllHidden = FALSE
SPECIFICATION Spec
INVARIANTS
  Canonical
  ReadsBack
  FootnotesMatch
CHECK_DEADLOCK FALSE
