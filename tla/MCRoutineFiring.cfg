SPECIFICATION FairSpec
CONSTANTS
  o1 = o1  o2 = o2  k1 = k1
  Nobody = Nobody
  Keys <- MCKey
  Owners <- MCOwners
  MaxAttempts = 2
  Lease = 1
  RetryDelay = 0
  KeepFinished = 1
  KeepGivenUp = 1
  Backlog = 0
  Limit = 2
  Grace = 0
  Interval = 1
  Abandoned = 2
  FatigueLimit = 1
  ScanLimit = 3
  MaxDispatch = 0
  MaxTurn = 1
  Failing = {"dispatch", "turn", "channel"}
  MaxMishaps = 1
INVARIANTS
  LiveRunIsOpen
  DuplicateHasACause
  TiredIsSwitchedOff
PROPERTIES
  EveryRunCloses
