CONSTANTS
  N = 3
  Data = {a, b}
  MaxCount = 2
  ReadCached = TRUE
  Modes = {1, 2, 3}
  ReadsFail = TRUE
  WritesFail = TRUE
  NoPage = nopage
SPECIFICATION Spec
INVARIANTS CleanMatchesDisk FlushedIsClean
PROPERTIES NeverFlushed ImplementsDisk
