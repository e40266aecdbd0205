SPECIFICATION FairSpec
CONSTANTS
  o1 = o1  o2 = o2  ask = ask
  Nobody = Nobody
  Owners <- MCOwners
  Asks <- MCAsks
  Keys <- MCKeys
  MaxAttempts = 2
  Lease = 1
  RetryDelay = 1
  KeepFinished = 1
  KeepGivenUp = 1
  Backlog = 0
  Limit = 2
  MaxPerRun = 1
  Failing = {"turn"}
  LongStalls = FALSE
  MaxMishaps = 0
INVARIANTS
  NoticeIsTrue
PROPERTIES
  AskIsHeardOf
  AnswerIsRelayed
