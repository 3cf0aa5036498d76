------------------------------- MODULE MCVfs -------------------------------
(* The disks of Vfs: a device, two ext2, one of them read-only with a file, *)
(* and a ramfs.                                                            *)
EXTENDS Vfs
CONSTANTS a, device, disk, cdrom, file, ram
NoneHeld == [s \in {RootPath, a} |-> <<>>]
DisksHold == [n \in {device, disk, cdrom, file, ram} |-> IF n = cdrom THEN [NoneHeld EXCEPT ![a] = <<file>>] ELSE NoneHeld]
DiskKinds ==
  [n \in {device, disk, cdrom, file, ram} |->
     CASE n = device -> "device" [] n = disk -> "ext2" [] n \in {cdrom, file} -> "ro" [] n = ram -> "ramfs"]
=============================================================================
