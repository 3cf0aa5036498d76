CONSTANTS
  Cylinders = 2
  SectorsPerTrack = 1
  Data = {x, y}
  RwRetries = 2
  SeekRetries = 2
  IntRetries = 2
  MaxCount = 2
  Endings = {0, 1, 3}
  None = none
SPECIFICATION Spec
INVARIANTS AwakeWhenEnded
PROPERTIES DoneIsDone ImplementsDisk RequestEnds
