SPECIFICATION FairSpec
CONSTANTS
  Syncer = {s1, s2, s3}
  Infohash = {h1, h2}
  NoKey = NoKey
  MaxAnswer = 2
INVARIANTS
  OneQueryPerInfohash
  NoQueryForgotten
  AnswersInOrder
PROPERTIES
  PendingIsWorkedOn
  QueriesEnd
  ImplementsQueryTable
