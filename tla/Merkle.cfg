CONSTANTS
  Walk <- MCWalk
  Id = {1, 2, 3, 4, 5, 6, 7}
  Hash = {"h", ""}
  MaxLen = 3
SPECIFICATION Spec
INVARIANTS TypeOK RootNamesTheCollection OrderIsImmaterial
CHECK_DEADLOCK FALSE
