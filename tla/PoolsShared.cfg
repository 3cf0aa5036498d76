CONSTANTS
  Pools = {p1}
  N = 3
SPECIFICATION Spec
INVARIANT NoSharedThread
