SPECIFICATION Spec
CONSTANTS
  Main = main
  c1 = c1
  c2 = c2
  Coros = {c1, c2}
  Handlers = {"function"}
  MaxCCalls = 4
  ErrRoom = 1
  MaxCalls = 3
  BasicCI = 3
  MaxSaved = 2
  Overfull = {c1}
  MaxDeep <- MCDeep
INVARIANT InitialState
