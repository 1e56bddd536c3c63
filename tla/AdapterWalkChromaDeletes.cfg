CONSTANTS
  Id <- MCId
  Backend = {"chroma"}
  BatchSize = 2
  Rows0 = 4
  MaxWrites = 1
  MaxWalks = 1
  Deleting = {"chroma"}
  None = None
SPECIFICATION Spec
INVARIANTS NoneMissed
CHECK_DEADLOCK FALSE
