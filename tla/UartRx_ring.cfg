CONSTANTS
  Byte = {0, 1}
  Zero = 0
  N = 4
  W = 8
  HwDepth = 2
SPECIFICATION LiveSpec
INVARIANT TypeOK
INVARIANT RingAligned
PROPERTY FifoSpec
PROPERTY StrandedRecovered
