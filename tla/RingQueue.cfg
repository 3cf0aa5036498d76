CONSTANTS
  Timer = Timer
  Ready = Ready
  Plain = Plain
  Heads = {Timer, Ready, Plain}
  Members = {m1, m2, m3}
  Order <- MCOrder
  KeysOf <- MCKeys
  Preemptible = FALSE
  None = None
SPECIFICATION FairSpec
INVARIANTS NeverCorrupt OneRing Ordered32
PROPERTIES ImplementsRings EveryCallReturns
