CONSTANTS
  m1 = m1 m2 = m2 NoMessage = NoMessage p1 = p1 p2 = p2
  Recorder = {p1, p2}
  Mid = {m1, m2}
  SentAt <- MCSentAt
  CutAt <- MCCutAt
  FromMe <- MCFromMe
  WithMedia <- MCMedia
  MaxRuns = 2
SPECIFICATION Spec
SYMMETRY MCSymmetry
INVARIANTS TypeOK HandledCounts SummaryBacked NobodyLosesTwice
PROPERTIES HandleKept
