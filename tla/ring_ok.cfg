SPECIFICATION Spec
CONSTANTS
  CapacityFrames = 3
  CapacityBytes = 5
  Kinds = {"key", "idr", "delta", "audio"}
  Sizes = {1, 2}
  MaxSeq = 6
INVARIANTS TypeOK BytesExact MemoryBounded KeyTailKept LateJoinServed IndexesAgree
PROPERTIES KeepsGopHeads PushReturnsOrJams
CHECK_DEADLOCK FALSE
