CONSTANTS
  Groups = 2
  BytesPerMap = 2
  BitsPerByte = 2
  InodesPerGroup = 3
  Direct = 1
  PerIndex = 2
  Keep = 1
  Fixed = {1, 2, 4, 7, 8}
  FixedInodes = {1, 2, 3, 6}
  Names = {a, b}
  MaxOpens = 2
  MaxCalls = 7
  MaxCrashes = 1
  NoNode = nonode
SPECIFICATION Spec
INVARIANTS CountsAgree OwnedOnce NamesLive
CHECK_DEADLOCK FALSE
SYMMETRY Symmetry
