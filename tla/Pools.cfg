CONSTANTS
  Pools = {p1, p2}
  N = 2
SPECIFICATION Spec
INVARIANTS ExhaustedMeansHeld CountConserved
