CONSTANTS
  Parts = {"poll"}
  kMaxPciBars = 4
  SizeWord = 16
  Unsigned = 12
  BarSize = 6
  ConfigSize = 4
  Offsets = {0, 2, 3, 4, 6, 11, 12, 14}
  NumHandles = 3
  Locations = {"p", "q", "r", "s"}
  MaxDevices = 2
  Impls = {"efi"}
  Bit = {0, 1}
  Timeouts = {3}
  PollWord = 25
  MaxTime = 3
  Fields <- MCFields
  Other = 9
  Width <- MCWidth
  Limit <- MCLimit
  LocatorWord = 16
  Devices <- MCDevices
  Numbers <- MCNumbers
  Poison = 165
  Size = 4
SPECIFICATION Spec
INVARIANTS NotBeforeTimeout
CHECK_DEADLOCK FALSE
