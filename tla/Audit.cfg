CONSTANTS
  Auditor = {a1}
  Id = {"r1", "r2"}
  Hash = {"h1"}
  Key = {"mk", "old"}
  Trusted = {"mk"}
  Collection = {"docs", "other"}
  Label = "docs"
  Options <- MCOptions
  PageSize = 2
  MayRepeat = FALSE
  MaxWalk = 2
  MaxRuns = 2
  MaxWrites = 2
  Torn = Torn
  None = None
SPECIFICATION FairSpec
INVARIANTS TypeOK SummaryAddsUp ManifestMatchesStore NoFalseAlarm
PROPERTIES ManifestCoversCollection PromiseKept Terminates
CHECK_DEADLOCK FALSE
