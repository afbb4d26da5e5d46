SPECIFICATION FairSpec
CONSTANTS
  Worker = {w1, w2}
  Main = main
  h1 = h1
  h2 = h2
  p1 = p1
  p2 = p2
  Infohash = {h1}
  Path = {p1}
  Request <- Repeated
  Ctrl = {"CANCEL", "PAUSE", "RESUME"}
  MaxId = 1
  MaxCrash = 1
  MaxFault = 1
  None = None
PROPERTIES
  FinishedTaskQuits
  HandlersEnd
  StopCompletes
