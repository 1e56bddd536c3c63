CONSTANTS
  Value <- MCValue
  NonFinite <- MCNonFinite
  NaN = {"nan"}
  Grid <- MCGrid
  Round <- MCRound
  Text = {"t"}
  Nfc <- MCNfc
  Unhashable = {}
  Key = {"key"}
  Kid = {"k1"}
  Model = {"m"}
  Name = {"r1"}
  BadTs = BadTs
  NaiveTs = NaiveTs
  None = None
  Setup <- MCSetup
  Input <- MCInputs
  Raised = Raised
  TheKid = "k1"
  TheKey = "key"
  TheModel = "m"
  TheText = "t"
  MaxRewrites = 2
SPECIFICATION Spec
INVARIANTS TypeOK NoHiddenBits HonestRowVerifies
CHECK_DEADLOCK FALSE
