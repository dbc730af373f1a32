CONSTANTS
  Event <- MixedEvents
  Batch = 2
  N = 8
  W = 16
SPECIFICATION Spec
INVARIANT TypeOK
INVARIANT GroupsAligned
INVARIANT HeardExactly
