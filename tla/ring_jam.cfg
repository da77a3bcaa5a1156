SPECIFICATION Spec
CONSTANTS
  CapacityFrames = 3
  CapacityBytes = 5
  Kinds = {"key", "idr", "delta", "audio"}
  Sizes = {1, 2}
  MaxSeq = 5
PROPERTIES PushReturns
CHECK_DEADLOCK FALSE
