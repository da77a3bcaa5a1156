SPECIFICATION Spec
CONSTANTS
  Rtmp = {r1, r2}
  WebRtc = {}
  Nobody = Nobody
  MaxHubs = 1
INVARIANTS ParameterSetsKept
CHECK_DEADLOCK FALSE
