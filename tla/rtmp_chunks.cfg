SPECIFICATION ChunksSpec
CONSTANTS
  MediaStreams = {4, 6}
  ControlStream = 2
  FirstSize = 1
  NextSize = 2
  Lengths = {1, 3}
  Steps = {1}
  MaxMessages = 3
  MaxWire = 3
INVARIANTS TimestampsAsSent
CHECK_DEADLOCK FALSE
