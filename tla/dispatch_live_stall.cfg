SPECIFICATION DSpec
CONSTANTS
  CapacityFrames = 3
  CapacityBytes = 9
  Kinds = {"key", "delta", "audio"}
  Sizes = {1}
  MaxSeq = 4
  Policies = {"LiveCoalesce"}
  MaxBatch = 2
  WebRtcLag = 1
  PrimeLag = 1
  MaxResets = 1

PROPERTIES LiveCatchesUp
CHECK_DEADLOCK FALSE
