CONSTANTS
  Limit = 5
  Behind = TRUE
  BlockSize = 2
  Blocks = 2
  Modes = {"RDONLY", "WRONLY"}
  Byte = {0, 1}
  Zero = 0
  MaxLen = 2
  MaxSize = 3
  None = none
SPECIFICATION Spec
INVARIANTS ReadsWhatIsThere
PROPERTIES ImplementsByteFiles
