SPECIFICATION Spec
CONSTANTS
  u1 = u1
  NoURL = NoURL
  URLs = {u1}
  Interval = 2
  MaxEdits = 3
  MaxErrors = 1
  MaxTime = 7
  MaxTimeLate = 2
INVARIANTS TypeOK NeverAbandoned CheckAgeBound StaleVerdictBound
PROPERTIES VerdictMatchesSpec
