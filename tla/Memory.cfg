CONSTANTS
  W = 20
  Bottom = 4
  Top = 16
  Sizes = {0, 2, 5, 18}
  Counts = {2, 11}
  Data = {x}
  MaxAsked = 20
  None = none
SPECIFICATION HeapSpec
INVARIANTS BlocksApart
PROPERTIES OthersKept ReallocKeeps
CHECK_DEADLOCK FALSE
