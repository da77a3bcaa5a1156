SPECIFICATION Spec
CONSTANTS
  v1 = v1
  q1 = q1
  reaper = reaper
  o1 = o1
  o2 = o2
  a1 = a1
  a2 = a2
  b1 = b1
  b2 = b2
  w1 = w1
  Viewers = {v1}
  Publishers = {q1}
  Reaper = reaper
  MaxSegments = 2
  MaxStarts = 2
  MaxSeq = 6
  Operators = {o1, o2}
  MaxRecordings = 2
  MaxCuts = 1
  Analysts = {a1, a2}
  MaxAnalyses = 2
  MaxEvents = 2
  MaxShots = 2
  Patience = 2
  Broadcasters = {b1, b2}
  Watchers = {w1}
  NoSession = NoSession
INVARIANTS WTypeOK Stoppable PlaylistOnDisk PlaylistGapless RecordingsIndexed IndexFileCurrent RouteOfHolder
PROPERTIES StopsRecording SnapshotSettles RelaysEnd
CHECK_DEADLOCK FALSE
