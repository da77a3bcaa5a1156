SPECIFICATION DSpec
CONSTANTS
  CapacityFrames = 5
  CapacityBytes = 9
  Kinds = {"key", "delta"}
  Sizes = {1}
  MaxSeq = 5
  Policies = {"LiveCoalesce"}
  MaxBatch = 2
  WebRtcLag = 1
  PrimeLag = 1
  MaxResets = 0
INVARIANTS DecoderSafe

CHECK_DEADLOCK FALSE
