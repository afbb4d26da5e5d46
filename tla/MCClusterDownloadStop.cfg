SPECIFICATION FairSpec
CONSTANTS
  Thread = {t1, t2}
  Piece = {p1, p2}
  None = None
  StopNotifies = TRUE
  MaxHashFailed = 1
PROPERTIES
  StopEndsThreads
