SPECIFICATION Spec
CONSTANTS
  Rtmp = {r1, r2}
  WebRtc = {w1}
  Nobody = Nobody
  MaxHubs = 1
INVARIANTS SlotHeld NoDeadHolder NoForeignMedia IdleUnpublished
PROPERTIES StatusHeals
CHECK_DEADLOCK FALSE
