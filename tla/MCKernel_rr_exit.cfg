CONSTANTS
  a = a
  b = b
  sem = sem
  Addr = {a}
  LockAddr = {a}
  SemAddr = {}
  MaxCtx = 2
  Boot = 1
  MaxHeld = 2
  MaxDeps = 2
  Word = 16
  MaxCell = 6
  MaxSem = 1
  MaxWaiters = 2
  InitValues = {0}
  MaxValue = 1
  Reentrant = FALSE
  Schedulers = {"rr"}
  MaxRuntime = 1
SPECIFICATION KernelSpec
INVARIANT ReturnsWhenAllExited
