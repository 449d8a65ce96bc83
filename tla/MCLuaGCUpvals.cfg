CONSTANTS
  Tables = {}
  Udata = {}
  Strings = {}
  Closures = {c1}
  Upvals = {v1, v2}
  Threads = {main, co}
  Main = main
  Nil = nil
  Num = num
  Slots = {1, 2}
  Keys = {num}
  Modes = {""}
  BaseMts = {}
  FullCalls = TRUE
SPECIFICATION Spec
INVARIANTS TriColour OpenUpvalsSound
