CONSTANTS
  Auditor = {a1, a2}
  Id = {"r1"}
  Hash = {"h1"}
  Key = {"mk", "old"}
  Trusted = {"mk"}
  Collection = {"docs", "other"}
  Label = "docs"
  Options <- MCOptionsPair
  PageSize = 1
  MayRepeat = TRUE
  MaxWalk = 2
  MaxRuns = 3
  MaxWrites = 1
  Torn = Torn
  None = None
SPECIFICATION Spec
INVARIANT ManifestMatchesStore
SYMMETRY AuditorSymmetry
CHECK_DEADLOCK FALSE
