CONSTANTS
  N = 4
  OutSlots = 2
  Cins = {12}
  MsgBytes = 2
  Ids = 3
  Passes = 3
SPECIFICATION LiveSpec
INVARIANT TypeOK
INVARIANT NoOverrun
INVARIANT NothingStale
PROPERTY WireExact
PROPERTY StepByOvertaking
PROPERTY FetchedInOrder
PROPERTY CatchesUp
