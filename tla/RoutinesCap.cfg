SPECIFICATION Spec
CONSTANTS
  o1 = o1  o2 = o2  r1 = r1  r2 = r2  e1 = e1  e2 = e2
  Unreadable = Unreadable
  Routine <- MCTwoRoutines
  Legacy = {}
  Sweepers <- MCSweeper
  Editors <- MCEditors
  Cadences = {2}
  Patches = {"on", "off"}
  MaxEnabled = 1
  Grace = 1
  Keep = 2
  MaxPass = 1
  MaxFaults = 0
  MaxTime = 1
INVARIANT
  EnabledIsCapped
CHECK_DEADLOCK FALSE
