SPECIFICATION Spec
CONSTANTS
  MaxSelections = 3
  Limit = 2
  MaxNumber = 4
  MaxDocument = 8
INVARIANTS
  NothingCutOff
  RefusedForCause
  WorkBounded
