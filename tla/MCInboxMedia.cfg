CONSTANTS
  m1 = m1 m2 = m2 p1 = p1 p2 = p2
  NoMessage = NoMessage
  Recorder = {p1, p2}
  Mid = {m1, m2}
  SentAt <- MCSentAt
  CutAt <- MCCutAt
  FromMe <- MCFromMe
  WithMedia <- MCMedia
  MaxRuns = 2
SPECIFICATION Spec
PROPERTIES MediaKept
