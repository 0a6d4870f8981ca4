CONSTANTS
  MaxBody = 3
  MaxSize = 7
  MaxChunks = 4
SPECIFICATION Spec
INVARIANTS
  AnsweredOnce
  RefusalForRefused
  BufferBounded
PROPERTIES
  EveryRequestAnswered
