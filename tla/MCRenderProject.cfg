SPECIFICATION Spec
CONSTANTS
  Request = {r1}
  MaxFiles = 2
  Plans <- AllPlans
INVARIANTS
  TypstEndsFirst
  TreeRemoved
  DocumentIsWhole
  NoCrashBlamedOnCaller
PROPERTIES
  RenderEnds
