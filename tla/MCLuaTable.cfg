CONSTANTS
  a = a
  c = c
  Ints = {1, 2, 3}
  Strings = {a}
  Objects = {c}
  Values <- MCValues
  Nil = nil
  Hash <- MCHash
  NewSizes = {0, 2}
  MaxBits = 3
  MaxInt = 3
SPECIFICATION Spec
INVARIANTS ChainsSound RoomForAll KeyFound ArrayFits LengthIsBorder
PROPERTIES IsAMap
