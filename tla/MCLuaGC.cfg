CONSTANTS
  Tables = {t1}
  Udata = {u1}
  Strings = {s1}
  Closures = {}
  Upvals = {}
  Threads = {main}
  Main = main
  Nil = nil
  Num = num
  Slots = {a, b}
  Keys = {u1, s1}
  Modes = {"", "v", "k"}
  BaseMts = {}
  FullCalls = FALSE
SYMMETRY SlotSymmetry
SPECIFICATION Spec
INVARIANTS NoDangling SweepSafe TriColour ListsSound
PROPERTIES FinalizeOnce FinalizeOnlyGarbage
