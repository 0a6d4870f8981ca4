SPECIFICATION Spec
CONSTANTS
  Name <- Names
  Unsafe <- UnsafeSet
  Folded <- Fold
  Candidates <- Keys
  MaxDepth = 3
  MaxKeys = 3
  MaxFileBytes = 4
  MaxStringBytes = 4
  MaxMessage = 2
  EntryName = "~main.typ"
  Character <- Characters
  Value <- Values
  Depth <- Heights
  Requests <- Some
INVARIANTS
  EachFileKept
  RefusedForCause
  LimitIsOnContent
  DataReadsBack
  PathLeadsToString
