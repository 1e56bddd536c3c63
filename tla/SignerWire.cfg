CONSTANTS
  Str <- MCStr
  Empty = ""
  Nfc <- MCNfc
  Unsafe = {"control"}
  Surrogates = {"surrogate"}
  Stamp = {"iso", "year 999"}
  Instant = {"iso"}
  Points <- MCPoints
  Bytes <- MCBytes
  Escaped <- MCEscaped
  RecordId = "vectorpin.record_id"
  Request <- MCRequestDistinct
  MaxKid = 3
  MaxModel = 3
  MaxKey = 3
  MaxValue = 3
  MaxEntries = 2
  MaxDim = 3
  MaxPin = 19
  MaxEdits = 1
  Wrong = Wrong
  Null = Null
  None = None
SPECIFICATION Spec
INVARIANTS TypeOK ParsedCanonicalizes OnlyEmptyFieldsVary HonestPinVerifies
CHECK_DEADLOCK FALSE
