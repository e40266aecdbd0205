SPECIFICATION Spec
CONSTANTS
  o1 = o1  o2 = o2  plain = plain  hop1 = hop1  hop2 = hop2
  Nobody = Nobody
  Keys <- MCKeys
  Owners <- MCOwners
  Capped <- MCCapped
  MaxCapped = 1
  MaxAttempts = 2
  Lease = 1
  RetryDelay = 1
  KeepFinished = 1
  KeepGivenUp = 1
  Backlog = 2
  Limit = 2
INVARIANTS
  LeaseIsExclusive
  StartsAreBounded
  CapHolds
PROPERTIES
  FinishedStaysFinished
  LeaseIsNotTaken
SYMMETRY MCSymmetry
