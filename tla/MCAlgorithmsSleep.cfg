CONSTANTS
  Parts = {"sleep"}
  Years = {1970, 1999, 2000, 2001, 2004, 2038, 2100}
  Months = {2, 3, 4, 5, 6, 7, 8, 9, 10, 11, 12}
  Days = {1, 28, 29, 30, 31}
  TimesOfDay <- MCTimesOfDay
  Zones <- MCZones
  UNSPECIFIED = 2047
  Numerals <- MCNumerals
  Bases = {0, 1, 2, 10, 16}
  Word = 16
  Strs = {1, 2}
  Texts <- MCTexts
  Delims = {","}
  NUL = "NUL"
  Top = 6
  Bytes = {0, 65, 97, 200}
  Sought <- MCSought
  MaxLen = 3
  MaxCalls = 3
  USECS = 4
  Seconds <- MCSeconds
  Micros <- MCMicros
SPECIFICATION Spec
INVARIANTS LeftTold
CHECK_DEADLOCK FALSE
