SPECIFICATION ServiceSpec
CONSTANTS
  Request = {r1, r2}
  MaxConcurrent = 1
  MaxFiles = 0
  Plans <- OnePlan
INVARIANTS
  ResourcesBounded
PROPERTIES
  EveryRequestAnswered
  ImplementsSlots
