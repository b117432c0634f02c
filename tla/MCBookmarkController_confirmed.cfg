SPECIFICATION Spec
CONSTANTS
  u1 = u1
  u2 = u2
  NoURL = NoURL
  URLs = {u1, u2}
  Interval = 2
  MaxEdits = 1
  MaxErrors = 0
  MaxTime = 3
  MaxTimeLate = 3
INVARIANT ShownURLConfirmed
