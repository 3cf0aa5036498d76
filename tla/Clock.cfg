CONSTANTS
  Word = 4
  Frac = 2
  Drifts = {5, 14}
  Rates = {1}
  Resolutions = {3}
  FirstResolution = 2
  Delays = {3}
  MaxTimers = 2
  Times = {0}
  SetBefore = 1
  Scale = 1
SPECIFICATION FairSpec
INVARIANTS ResolutionNotForgotten
PROPERTIES DriftConserved DriftIsProgressive DriftWorkedOff
