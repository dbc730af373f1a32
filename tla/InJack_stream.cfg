CONSTANTS
  Channel = {128, 145, 194}
  Data = {0, 1}
  Features <- AllFeatures
SPECIFICATION LiveSpec
INVARIANT TypeOK
INVARIANT PacketPerMessage
INVARIANT MessageExact
INVARIANT SysExExact
INVARIANT WritesInPacket
PROPERTY LegalConsumed
