CONSTANTS
  a = a
  b = b
  sem = sem
  Addr = {a, b, sem}
  LockAddr = {a, b}
  SemAddr = {sem}
  MaxCtx = 3
  Boot = 1
  MaxHeld = 3
  MaxDeps = 6
  Word = 16
  MaxCell = 6
  MaxSem = 2
  MaxWaiters = 3
  InitValues = {0}
  MaxValue = 2
  Reentrant = FALSE
SPECIFICATION TestSpec
INVARIANT SyncTypeOK
INVARIANT NoCircularWait
INVARIANT QueuesMatchSleepers
INVARIANT NoLostWakeup
INVARIANT MutualExclusion
CHECK_DEADLOCK FALSE
