CONSTANTS
  Word = 32
  Align = 2
  Header = 2
  HeapTop = 11
  Sizes = {0, 1, 2, 3}
  Nums = {0, 1, 2, 11}
  Byte = {b0, b1}
  Zero = b0
  Junk = b1
  MaxLive = 2
SPECIFICATION Spec
INVARIANTS TypeOK Aligned BlockInRegion NoLeak RuntimeContract
PROPERTIES CallocClears ImplementsHeap
CHECK_DEADLOCK FALSE
