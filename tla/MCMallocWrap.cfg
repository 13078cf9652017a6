CONSTANTS
  Word = 32
  Align = 2
  Header = 2
  HeapTop = 11
  Sizes = {0, 1, 29}
  Nums = {1}
  Byte = {b0, b1}
  Zero = b0
  Junk = b1
  MaxLive = 2
SPECIFICATION Spec
INVARIANTS RuntimeContract
CHECK_DEADLOCK FALSE
