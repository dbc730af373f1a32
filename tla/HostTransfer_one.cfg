CONSTANTS
  N = 1
  Kinds <- OneEndpoint
  Slots = 4
  Depth = 1
  Retries = 2
  Interval = 1
  Ids = 4
  Quota = 1
SPECIFICATION LiveSpec
INVARIANT InOrder
PROPERTY LinksKept
PROPERTY EachHeard
