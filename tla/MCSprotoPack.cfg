CONSTANTS
  MaxGroups = 4
  Filled = {0, 5, 6, 7, 8}
  LastLengths = {1, 6, 8}
  Sources <- MCSources
  Junk = {0, 238}
  MaxRun = 3
  OutSizes = {4, 64}
SPECIFICATION Spec
INVARIANTS InBuffer StreamSound RoundTrip
CHECK_DEADLOCK FALSE
