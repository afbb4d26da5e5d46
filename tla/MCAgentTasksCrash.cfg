SPECIFICATION Spec
SYMMETRY Workers
CONSTANTS
  Worker = {w1, w2}
  Main = main
  h1 = h1
  h2 = h2
  p1 = p1
  p2 = p2
  Infohash = {h1, h2}
  Path = {p1}
  Request <- Colliding
  Ctrl = {"CANCEL"}
  MaxId = 2
  MaxCrash = 1
  MaxFault = 0
  None = None
INVARIANTS
  IndexesExact
  NoOrphanTorrent
  AckedTaskRuns
  EndedTaskForgotten
  
  FinishedAlertNotLost
PROPERTIES
  ImplementsRegistry
