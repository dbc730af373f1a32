SPECIFICATION Spec
CONSTANTS
  Devices <- DevPlain
  CommandTries = 3
  EnumTries = 3
  OutOfMemory = FALSE
  Faulty <- Commands
  MaxFaults = 3
  MaxCuts = 0
INVARIANT TriesGranted
CHECK_DEADLOCK TRUE
