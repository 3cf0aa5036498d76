CONSTANTS
  a = a
  device = device
  disk = disk
  cdrom = cdrom
  file = file
  ram = ram
  Names = {a}
  Depth = 2
  Attached = {device, disk, cdrom, ram}
  Inside = {file}
  Held <- DisksHold
  Kind <- DiskKinds
  Folders = {disk, cdrom}
  MaxMade = 4
  MaxLinks = 3
  MaxPut = 4
SPECIFICATION VfsSpec
INVARIANT PutIsFound
PROPERTY NothingHidden
CHECK_DEADLOCK FALSE
