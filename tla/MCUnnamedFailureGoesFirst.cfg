SPECIFICATION Spec
CONSTANTS
  StandardLists <- Lists
  MaxStandards = 2
  MaxPublished = 2
  MaxEntries = 1
INVARIANTS
  UnnamedFailureGoesFirst
