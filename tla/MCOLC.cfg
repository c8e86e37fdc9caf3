CONSTANT
  Inputs <- MCInputs
SPECIFICATION Spec
INVARIANTS
  TypeOK
  IndexInv
  IndexSorted
  AgreesWithReference
  RoundTrips
CHECK_DEADLOCK FALSE
