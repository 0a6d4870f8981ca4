SPECIFICATION Spec
CONSTANTS
  v1 = v1
  v2 = v2
  Run = {r1, r2}
  Commit = {c1, c2}
  Version <- Versions
  VersionOf <- Same1
  MaxFailures = 2
  NoCommit = NoCommit
  NoRun = NoRun
INVARIANTS
  ReleaseIsWhole
PROPERTIES
  CompletedIsNoOp
  RetryCompletes
