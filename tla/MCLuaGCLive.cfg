CONSTANTS
  Tables = {t1}
  Udata = {u1}
  Strings = {}
  Closures = {}
  Upvals = {}
  Threads = {main}
  Main = main
  Nil = nil
  Num = num
  Slots = {1, 2}
  Keys = {u1}
  Modes = {"", "k"}
  BaseMts = {t1}
  FullCalls = FALSE
SPECIFICATION FairSpec
PROPERTIES EventuallyFreed EventuallyFinalized
