SPECIFICATION Spec
CONSTANTS
  Devices <- DevAny
  CommandTries = 2
  EnumTries = 2
  OutOfMemory = TRUE
  Faulty <- OneEach
  MaxFaults = 4
  MaxCuts = 1
INVARIANTS TypeOK AttachNotLost DetachNotLost AllConfigsRead GivenUpLate
PROPERTIES KeepsPromise ForgetsDevice FindsDevice
CHECK_DEADLOCK TRUE
