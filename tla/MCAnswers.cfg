SPECIFICATION Spec
CONSTANTS
  StandardLists <- Lists
  MaxStandards = 2
  MaxPublished = 2
  MaxEntries = 1
  MaxKeys = 3
  MaxInlineFiles = 2
INVARIANTS
  MirrorAgrees
  OneErrorReported
  CountersAgree
  BlameAgrees
