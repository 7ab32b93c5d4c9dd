SPECIFICATION Spec
CONSTANTS
  Contestants = {p, q}
  Enabled = TRUE
  InitialInterval = 3
  Multiplier = 2
  MaxInterval = 9
  MaxElapsedTime = 18
  Timeout = 2
  MaxLost = 2
  MaxReports = 2
INVARIANTS WinnerIsCounted
CHECK_DEADLOCK FALSE
