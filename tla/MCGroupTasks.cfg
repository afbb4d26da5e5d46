SPECIFICATION Spec
CONSTANTS
  Client = {c1}
  Io = io
  h1 = h1
  Infohash = {h1}
  Request <- Timed
  MaxId = 2
  None = None
  Null = Null
INVARIANTS
  
  FinishedAlertNotLost
  
