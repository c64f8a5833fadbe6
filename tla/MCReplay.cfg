CONSTANTS
  Ctx = {1, 2}
  MaxTrace = 3
  MaxTime = 5
  Programs <- Endless
SPECIFICATION ReplaySpec
INVARIANT ReplayTypeOK
INVARIANT Replays
CHECK_DEADLOCK FALSE
