CONSTANTS
  MaxReg = 5
  Frame = 4
  Params = 1
  MaxLen = 2
  OpsUsed = {"MOV", "USETV", "TGETV", "TSETV", "KNIL", "CAT", "CALL", "CALLM", "CALLT", "ITERC", "ITERL", "VARG", "TSETM", "RET", "FORL"}
  Programs <- MCPrograms
SPECIFICATION Spec
CHECK_DEADLOCK FALSE
INVARIANT FrameCovers
