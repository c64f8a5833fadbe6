CONSTANTS
  a = a
  b = b
  Root = {a, b}
  MaxHeap = 3
  Sizes = {1, 2}
  Period = 1
SPECIFICATION CollectorSpec
INVARIANT CollectorTypeOK
INVARIANT HeapTiled
INVARIANT NoDangling
PROPERTY GetsWhatItAsked
PROPERTY CollectsGarbage
PROPERTY ImplementsHeap
SYMMETRY SameRoots
