CONSTANTS
  Parts = {"vector"}
  null = null
  Vec = {v, w}
  VecBuffer = {b1, b2, b3}
  Vals = {1}
  Default = 0
  Raw = 2
  Ranges <- MCRanges
  SizeofT = 32
  MaxItems = 3
  Key = {"a", "b", "c", "d"}
  MapVal = {0, 1}
  MapDefault = 0
  Hash <- MCHash
  InitialSize = 2
  MaxEntries = 3
  Str = {v, w}
  StrBuffer = {b1, b2, b3}
  Char = {"a", "NUL"}
  NUL = "NUL"
  Texts <- MCTexts
  MaxSize = 3
  OwnAppend = FALSE
  Ptr = {v, w}
  Object = {b1, b2, b3}
SYMMETRY Symmetric
SPECIFICATION Spec
PROPERTIES InsertKeepsTail
CHECK_DEADLOCK FALSE
