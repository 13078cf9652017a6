CONSTANTS
  Texts <- MCTexts
  Newline = "nl"
  ItemSizes = {1, 2}
  Capacity = 2
  NUL = "NUL"
  Piece = 2
  Formatted <- MCFormatted
  Sizes <- MCSizes
  Canary = "canary"
  Memory = 6
SPECIFICATION Spec
INVARIANTS NeverAborts CountIsTrue PrintedInOrder BufferHoldsText
PROPERTIES CallsReturn
CHECK_DEADLOCK FALSE
