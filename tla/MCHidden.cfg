CONSTANTS
  Leaves <- MCLeaves
  Requirements <- MCRequirements
  MaxSize = 6
  AllHidden = TRUE
SPECIFICATION Spec
INVARIANT EntirelyHiddenVanishes
CHECK_DEADLOCK FALSE
