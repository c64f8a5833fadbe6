CONSTANTS
  a = a
  b = b
  sem = sem
  Addr = {a}
  LockAddr = {a}
  SemAddr = {}
  MaxCtx = 3
  Boot = 1
  MaxHeld = 2
  MaxDeps = 2
  Word = 16
  MaxCell = 6
  MaxSem = 1
  MaxWaiters = 3
  InitValues = {0}
  MaxValue = 1
  Reentrant = TRUE
  Schedulers = {"rr", "random", "cfs"}
  MaxRuntime = 4
SPECIFICATION FairKernelSpec
INVARIANT KernelTypeOK
INVARIANT EarlyReturnOnlyRoundRobin
INVARIANT BoundedUnfairness
PROPERTY StuckForGood
PROPERTY ExitIsFinal
PROPERTY RoundRobinIsSync
PROPERTY ReadyRuns
