CONSTANTS
  Value = {"x"}
  NonFinite <- MCNonFinite
  Grid <- MCGrid
  Round <- MCRound
  Text = {"t"}
  Nfc <- MCNfc
  Unhashable <- MCUnhashable
  Key = {old, new, next}
  Kid = {old, new, next}
  Model = {"m"}
  Name = {"r1"}
  BadTs = BadTs
  NaiveTs = NaiveTs
  None = None
  Second = 2
  MaxTime = 8
  MaxPins = 1
  MaxLeaks = 1
  First = old
  old = old
  new = new
  next = next
  KeyOf <- MCKeyOf
  WholeFrom = TRUE
  Forms <- MCForms
  NoExtra <- MCNoExtra
  TheText = "t"
  TheDigest <- MCDigest
  TheModel = "m"
SPECIFICATION Spec
SYMMETRY KidSymmetry
INVARIANTS TypeOK HistoryVerifies StolenKeyStopped IngestedInWindowVerifies
PROPERTY ExpiredStaysExpired
CHECK_DEADLOCK FALSE
