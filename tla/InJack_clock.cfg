CONSTANTS
  Channel = {128, 145, 194}
  Data = {0, 1}
  Features = {"realtime"}
SPECIFICATION LiveSpec
PROPERTY ByteConsumed
