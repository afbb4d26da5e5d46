SPECIFICATION Spec
CONSTANTS
  Params <- Lines
  Failure <- Errors
  MaxRemovals = 1
  MaxAnnounce = 1
CHECK_DEADLOCK FALSE
INVARIANTS
  SuccessMeansFinished
PROPERTIES
  FailureKept
  EndsWhenDue
