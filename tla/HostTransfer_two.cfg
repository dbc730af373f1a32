CONSTANTS
  N = 2
  Kinds <- TwoEndpoints
  Slots = 2
  Depth = 2
  Retries = 1
  Interval = 1
  Ids = 2
  Quota = 2
SPECIFICATION LiveSpec
INVARIANT TypeOK
INVARIANT OneEventEach
INVARIANT WaitExplained
PROPERTY Served
