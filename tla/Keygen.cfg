CONSTANTS
  Proc = {g1, g2, g3}
  Size = 2
  NoFile = NoFile
SPECIFICATION KeygenSpec
INVARIANTS KeygenTypeOK PairMatches DonePairMatches OwnPinNotRefused
PROPERTY NoKeyReplaced
SYMMETRY MCSymmetry
CHECK_DEADLOCK FALSE
