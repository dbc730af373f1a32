CONSTANTS
  Event <- SysExEvents
  Batch = 2
  N = 8
  W = 16
SPECIFICATION Spec
PROPERTY NeverFlushed
