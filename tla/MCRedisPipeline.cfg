SPECIFICATION FairSpec
CONSTANTS
  Handler = {h1, h2}
  MaxCommands = 4
  MaxFailures = 2
INVARIANTS
  CountsExact
  AppliedInOrder
  FlagMeansConnected
PROPERTIES
  ChargedReachesRedis
  Reconnects
  
