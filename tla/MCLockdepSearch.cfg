CONSTANTS
  a = a
  b = b
  c = c
  d = d
  Addr = {a, b, c, d}
  MaxCtx = 1
  MaxHeld = 4
  MaxDeps = 5
  Word = 16
  MaxCell = 1
  MaxList = 3
SPECIFICATION SearchSpec
INVARIANT GraphAcyclic
INVARIANT SearchIsReachability
INVARIANT WalkIsOneStep
