SPECIFICATION FairSpec
CONSTANTS
  o1 = o1  o2 = o2  r1 = r1  r2 = r2  e1 = e1  e2 = e2
  Unreadable = Unreadable
  Routine <- MCRoutine
  Legacy <- MCLegacy
  Sweepers <- MCSweepers
  Editors <- MCEditor
  Cadences = {2, 3}
  Patches = {"on", "off", "cron"}
  MaxEnabled = 1
  Grace = 0
  Keep = 1
  MaxPass = 1
  MaxFaults = 1
  MaxTime = 3
PROPERTIES
  FiringIsNotLost
  OncePerMinute
  ClockCatchesUp
CHECK_DEADLOCK FALSE
