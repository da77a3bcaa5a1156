SPECIFICATION Spec
CONSTANTS
  c1 = c1
  r1 = r1
  w1 = w1
  p1 = p1
  s1 = s1
  s2 = s2
  Nobody = Nobody
  Streams = {s1, s2}
  Actors <- MCActors
  Rtsp = {c1}
  Rtmp = {r1}
  Sockets = {w1}
  Pullers = {p1}
  MaxPublish = 2
  Casts <- MCCasts
PROPERTY UdpSetupIngests
