CONSTANTS
  MaxGroups = 3
  Filled = {0, 5, 8}
  LastLengths = {1, 8}
  Sources <- MCSources
  Junk = {0}
  MaxRun = 256
  OutSizes = {64}
SPECIFICATION Spec
INVARIANTS PackFits
CHECK_DEADLOCK FALSE
