CONSTANTS
  Kind <- MCKind
  OutLen = 2
  BufSize = 2
  StepSize = 2
  Word = 16
  Room = 1
  Counts = {2}
  Limits <- MCLimits
  Waits <- MCWaits
  Horizon = 1
SPECIFICATION FairSpec
INVARIANTS BufferSound SendExact WaitsBounded SelectHonest
PROPERTIES TimeoutHonest AnswersTheStream CallsReturn
