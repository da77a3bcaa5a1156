SPECIFICATION Spec
CONSTANTS
  Rtmp = {r1}
  WebRtc = {w1}
  Nobody = Nobody
  MaxHubs = 2
INVARIANT TypeOK
PROPERTY LeaseSpec
CHECK_DEADLOCK FALSE
