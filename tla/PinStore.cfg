CONSTANTS
  Value <- MCValue
  NonFinite <- MCNonFinite
  Grid <- MCGrid
  Round <- MCRound
  Text <- MCText
  Nfc <- MCNfc
  Unhashable <- MCUnhashable
  honest = honest
  rogue = rogue
  HonestKey = honest
  Key = {honest, rogue}
  Kid = {"k1", "k2"}
  Honest = "k1"
  Model = {"m"}
  Id = {"r1", "r2"}
  Name = {"r1", "r2", "c1"}
  BadTs = BadTs
  NaiveTs = NaiveTs
  None = None
  Worker = {w1, w2}
  Input <- MCInput
  NativeWidth = "f32"
  Edited <- MCEdited
  Policy <- MCPolicy
  MaxSigned = 2
  MaxEdits = 1
SPECIFICATION Spec
SYMMETRY WorkerSymmetry
INVARIANTS TypeOK VerifiedWasSigned HonestRowVerifies
PROPERTY IngestVerifies
CHECK_DEADLOCK FALSE
