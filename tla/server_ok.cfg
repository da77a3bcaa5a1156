SPECIFICATION WholeSpec
CONSTANTS
  c1 = c1
  r1 = r1
  w1 = w1
  p1 = p1
  s1 = s1
  s2 = s2
  Nobody = Nobody
  Streams = {s1, s2}
  Actors <- MCActors
  Rtsp = {c1}
  Rtmp = {r1}
  Sockets = {w1}
  Pullers = {p1}
  MaxPublish = 2
  Casts <- MCCasts
  MediaStreams = {4, 6}
  ControlStream = 2
  FirstSize = 1
  NextSize = 2
  Lengths = {1, 3}
  Steps = {1}
  MaxMessages = 3
  MaxWire = 3
  AccessUnits <- TwoUnits
  FirstSeq = 65532
  Copies = 2
  Lateness = 2
  Losses = 7
  Target = 500
  WindowSize = 1
  Ticks = {450, 900}
  MaxFrames = 5
  MaxSounds = 1
  MaxSnaps = 1
  VideoTicks <- FilmSteps
  VideoRate = 90000
  AudioTicks <- SoundSteps
  AudioRate = 48000
  MaxTags = 10
  Tracks = {0, 1}
  MaxBatchLen = 2
  MaxSent = 4
INVARIANTS TypeOK NoDeadHolder OffAir SenderOnlyWhilePlaying
INVARIANTS MessagesAsSent UnitsIntact PlaylistTrue DriftBounded PusherWire
PROPERTIES LeaseSpec
CHECK_DEADLOCK FALSE
