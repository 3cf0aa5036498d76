--------------------------- MODULE Floppy_proofs ---------------------------
(***************************************************************************)
(* The floppy driver for any geometry, any contents, any number of retries *)
(* and any interrupt codes: it never takes an old interrupt for that of    *)
(* its command, and the drive is a disk, but for what it returns of        *)
(* requests about which the driver was mistaken.                           *)
(***************************************************************************)
EXTENDS Floppy, SequenceTheorems, TLAPS

Size == SectorsPerTrack * Heads
Jobs == [job : {"position", "read", "write"}, at : Positions]
Verdicts == [ic : Endings, cyl : Cylinder]
Fdcs == [command : Jobs \cup {None}, heads : Cylinder, result : Verdicts \cup {None}]
Fields == {"phase", "at", "op", "first", "n", "data", "result", "done", "rw", "tries", "ints", "mistaken"}
IsDrive(d) ==
  /\ d = [x \in Fields |-> d[x]]
  /\ d.phase \in {"idle", "position", "calibrate", "seek", "transfer"}
  /\ d.at \in {"start", "command", "issued", "asleep", "result"}
  /\ d.op \in {"read", "write"}
  /\ d.first \in Nat /\ d.n \in Nat /\ d.done \in Nat
  /\ d.data \in Seq(Data) /\ d.result \in Seq(Data)
  /\ d.mistaken \in BOOLEAN

Types ==
  /\ medium \in [Positions -> Data]
  /\ fdc \in Fdcs
  /\ buffer \in Data
  /\ IsDrive(drive)
  /\ count \in [{FloppyIrq} -> Nat]
  /\ failed \in BOOLEAN

Busy == drive.phase # "idle"
Given == drive.at \in {"issued", "asleep", "result"}

(* What the driver knows of its request.                                   *)
RequestInv ==
  Busy =>
    /\ drive.done < drive.n
    /\ drive.first + drive.n <= Cylinders * SectorsPerTrack * Heads
    /\ drive.op = "read" => Len(drive.result) = drive.done
    /\ drive.op = "write" => Len(drive.data) = drive.n
    /\ answer = <<>> /\ ~failed

(* The controller has a command only while the driver waits for it, and    *)
(* while it has, no interrupt is counted.                                  *)
CommandInv ==
  /\ drive.at # "start" <=> drive.phase \in {"calibrate", "seek", "transfer"}
  /\ fdc.command # None =>
       /\ drive.at \in {"issued", "asleep"}
       /\ count[FloppyIrq] = 0
       /\ fdc.command = Command
  /\ Given /\ fdc.command = None => fdc.result \in Verdicts

AwakeInv == Types /\ RequestInv /\ CommandInv

(* The sectors done are in place, unless the driver was mistaken about     *)
(* one, and so is the one at hand once its command has succeeded.          *)
DataInv ==
  Busy =>
    /\ drive.op = "read" /\ ~drive.mistaken =>
         \A i \in 1 .. drive.done : drive.result[i] = medium[Chs(drive.first + i - 1)]
    /\ drive.op = "write" /\ ~drive.mistaken =>
         \A i \in 1 .. drive.done : medium[Chs(drive.first + i - 1)] = drive.data[i]
    /\ drive.op = "write" => buffer = drive.data[drive.done + 1]
    /\ drive.phase = "transfer" /\ Given /\ fdc.command = None /\ fdc.result.ic = 0 =>
         buffer = medium[Position]

-----------------------------------------------------------------------------
(* Geometry                                                                *)

LEMMA Division ==
  ASSUME NEW m \in Nat \ {0}, NEW x \in Nat
  PROVE  /\ x \div m \in Nat /\ x % m \in Nat /\ x % m < m
         /\ x = m * (x \div m) + (x % m)
OBVIOUS

LEMMA Quotient ==
  ASSUME NEW m \in Nat \ {0}, NEW x \in Nat, NEW k \in Nat, x < k * m
  PROVE  x \div m < k
<1>1. PICK q \in Nat, r \in Nat : q = x \div m /\ r < m /\ x = m * q + r
  BY Division
<1>2. ASSUME k <= q PROVE FALSE
  <2>1. PICK d \in Nat : q = k + d
    <3>1. q - k \in Nat /\ q = k + (q - k)
      BY <1>2
    <3> QED BY <3>1
  <2>2. m * q = k * m + m * d /\ m * d \in Nat /\ k * m \in Nat
    BY <2>1
  <2> QED BY <1>1, <2>2
<1> QED BY <1>1, <1>2

LEMMA SizeIsPositive == Size \in Nat \ {0} /\ Size = 2 * SectorsPerTrack
BY FloppyAssumption DEF Size, Heads

LEMMA SizeDivides ==
  ASSUME NEW x \in Nat
  PROVE  \E q \in Nat, r \in Nat : q = x \div Size /\ r = x % Size /\ r < Size /\ x = Size * q + r
<1>1. /\ x \div Size \in Nat /\ x % Size \in Nat /\ x % Size < Size
      /\ x = Size * (x \div Size) + (x % Size)
  BY SizeIsPositive, Division
<1> QED BY <1>1, Zenon

(* Every sector has its place, and no two have the same.                   *)
LEMMA ChsIsPosition ==
  ASSUME NEW lba \in Sectors
  PROVE  Chs(lba) \in Positions
<1>1. lba \in Nat /\ lba < Cylinders * Size /\ Cylinders \in Nat
  <2>1. Cylinders * SectorsPerTrack * Heads = Cylinders * Size
    BY FloppyAssumption DEF Size, Heads
  <2>2. Cylinders * Size \in Nat
    BY FloppyAssumption, SizeIsPositive
  <2> QED BY <2>1, <2>2, FloppyAssumption DEF Sectors
<1>2. lba \div Size \in Cylinder
  <2>1. lba \div Size < Cylinders
    BY <1>1, SizeIsPositive, Quotient
  <2>2. lba \div Size \in Nat
    BY <1>1, SizeIsPositive, Division
  <2> QED BY <1>1, <2>1, <2>2 DEF Cylinder
<1>3. PICK rest \in Nat : rest = lba % Size /\ rest < 2 * SectorsPerTrack
  BY <1>1, SizeIsPositive, Division
<1>4. Chs(lba) = [cyl |-> lba \div Size, head |-> IF rest >= SectorsPerTrack THEN 1 ELSE 0,
                  sector |-> (rest - ((IF rest >= SectorsPerTrack THEN 1 ELSE 0) * SectorsPerTrack)) + 1]
  BY <1>3 DEF Chs, Size
<1>5. (rest - ((IF rest >= SectorsPerTrack THEN 1 ELSE 0) * SectorsPerTrack)) + 1 \in 1 .. SectorsPerTrack
  BY <1>3, FloppyAssumption
<1> QED BY <1>2, <1>4, <1>5 DEF Positions, Heads

LEMMA ChsIsInjective ==
  ASSUME NEW x \in Sectors, NEW y \in Sectors, Chs(x) = Chs(y)
  PROVE  x = y
<1>1. x \in Nat /\ y \in Nat
  BY DEF Sectors
<1>2. PICK q \in Nat, r \in Nat : q = x \div Size /\ r = x % Size /\ r < Size /\ x = Size * q + r
  BY <1>1, SizeDivides
<1>3. PICK p \in Nat, t \in Nat : p = y \div Size /\ t = y % Size /\ t < Size /\ y = Size * p + t
  BY <1>1, SizeDivides
<1>4. ASSUME NEW z \in Nat
      PROVE  /\ Chs(z).cyl = z \div Size
             /\ Chs(z).head = IF z % Size >= SectorsPerTrack THEN 1 ELSE 0
             /\ Chs(z).sector = ((z % Size) - (Chs(z).head * SectorsPerTrack)) + 1
  BY DEF Chs, Size
<1>5. q = p
  BY <1>1, <1>2, <1>3, <1>4
<1>6. r = t
  <2>1. PICK h \in {0, 1} : h = Chs(x).head /\ h = Chs(y).head
    BY <1>1, <1>4
  <2>2. (r - (h * SectorsPerTrack)) + 1 = (t - (h * SectorsPerTrack)) + 1
    BY <1>1, <1>2, <1>3, <1>4, <2>1
  <2> QED BY <2>2, FloppyAssumption
<1> QED BY <1>2, <1>3, <1>5, <1>6

-----------------------------------------------------------------------------
(* The steps of the driver                                                 *)

(* The request, and how many of its sectors are done.                      *)
SameRequest ==
  /\ drive'.op = drive.op /\ drive'.first = drive.first /\ drive'.n = drive.n
  /\ drive'.data = drive.data /\ drive'.result = drive.result /\ drive'.done = drive.done
  /\ drive'.mistaken = drive.mistaken

LEMMA IdleIsDrive == IsDrive(Idle)
<1>1. <<>> \in Seq(Data)
  BY EmptySeq
<1> QED BY <1>1 DEF Idle, IsDrive, Fields

LEMMA NoneIsNoJob == None \notin Jobs
BY FloppyAssumption DEF Jobs

LEMMA CallEnds ==
  ASSUME AwakeInv, NEW m \in BOOLEAN, drive' = [Idle EXCEPT !.mistaken = m], fdc' \in Fdcs, fdc'.command = None,
         UNCHANGED <<medium, count>>, buffer' \in Data, failed' \in BOOLEAN
  PROVE  AwakeInv' /\ DataInv'
<1>1. drive'.phase = "idle" /\ drive'.at = "start" /\ IsDrive(drive')
  <2>1. Idle.phase = "idle" /\ Idle.at = "start"
    BY DEF Idle
  <2> QED BY <2>1, IdleIsDrive DEF IsDrive, Fields
<1>2. Types'
  BY <1>1 DEF AwakeInv, Types
<1>3. RequestInv' /\ CommandInv' /\ DataInv'
  BY <1>1 DEF RequestInv, CommandInv, DataInv, Busy, Given
<1> QED BY <1>2, <1>3 DEF AwakeInv

LEMMA CallGoesOn ==
  ASSUME AwakeInv, Busy, IsDrive(drive'), SameRequest, fdc' \in Fdcs, fdc'.command = None,
         \/ drive'.phase = "position" /\ drive'.at = "start"
         \/ drive'.phase \in {"calibrate", "seek", "transfer"} /\ drive'.at = "command",
         UNCHANGED <<medium, buffer, count, answer, failed>>
  PROVE  AwakeInv' /\ (DataInv => DataInv')
<1>1. Types'
  BY DEF AwakeInv, Types
<1>2. RequestInv' /\ CommandInv'
  BY DEF AwakeInv, RequestInv, CommandInv, SameRequest, Busy, Given
<1>3. DataInv => DataInv'
  BY DEF DataInv, SameRequest, Busy, Given
<1> QED BY <1>1, <1>2, <1>3 DEF AwakeInv

LEMMA RaisedStep ==
  ASSUME AwakeInv, Busy, NEW incomplete, Raised(incomplete), fdc' \in Fdcs, fdc'.command = None,
         UNCHANGED <<medium, buffer, count>>
  PROVE  AwakeInv' /\ (DataInv => DataInv')
<1>1. CASE drive' = Idle /\ answer' = <<>> /\ failed' = TRUE
  <2>1. drive' = [Idle EXCEPT !.mistaken = FALSE]
    <3>1. Idle.mistaken = FALSE
      BY DEF Idle
    <3> QED BY <1>1, <3>1, IdleIsDrive DEF IsDrive, Fields
  <2> QED BY <1>1, <2>1, CallEnds DEF AwakeInv, Types
<1>2. CASE drive' = [To("position", "start") EXCEPT !.rw = 0] /\ UNCHANGED outcome
  <2>1. IsDrive(drive') /\ SameRequest /\ drive'.phase = "position" /\ drive'.at = "start"
    BY <1>2 DEF AwakeInv, Types, IsDrive, Fields, To, SameRequest
  <2> QED BY <1>2, <2>1, CallGoesOn DEF outcome
<1> QED BY <1>1, <1>2 DEF Raised

LEMMA ReadOutStep ==
  ASSUME AwakeInv, ReadOut
  PROVE  fdc' \in Fdcs /\ fdc'.command = None /\ Given /\ fdc.command = None /\ fdc.result \in Verdicts /\ Busy
BY DEF AwakeInv, Types, Fdcs, ReadOut, CommandInv, Given, Busy

LEMMA RequestStep ==
  ASSUME AwakeInv, Requests
  PROVE  AwakeInv' /\ (DataInv => DataInv')
<1>1. ASSUME NEW first \in Sectors, NEW n \in 1 .. MaxCount, Refuse(first, n)
      PROVE  AwakeInv' /\ DataInv'
  <2>1. Types'
    BY <1>1 DEF Refuse, AwakeInv, Types, disk, irqs
  <2>2. ~Busy' /\ UNCHANGED <<fdc, drive, count>>
    BY <1>1 DEF Refuse, Busy, disk, irqs
  <2>3. RequestInv' /\ CommandInv' /\ DataInv'
    BY <2>2 DEF AwakeInv, RequestInv, CommandInv, DataInv, Given, Command, Position, Target, Positioning
  <2> QED BY <2>1, <2>3 DEF AwakeInv
<1>2. ASSUME NEW first \in Sectors, NEW n \in Nat, NEW op \in {"read", "write"}, NEW data \in Seq(Data),
             drive.phase = "idle", n > 0, first + n <= Cylinders * SectorsPerTrack * Heads,
             drive' = [Idle EXCEPT !.phase = "position", !.op = op, !.first = first, !.n = n, !.data = data],
             UNCHANGED <<medium, fdc, count>>, buffer' \in Data, answer' = <<>>, failed' = FALSE,
             op = "write" => Len(data) = n /\ buffer' = data[1]
      PROVE  AwakeInv' /\ DataInv'
  <2>1. /\ IsDrive(drive') /\ drive'.phase = "position" /\ drive'.at = "start" /\ drive'.op = op
        /\ drive'.first = first /\ drive'.n = n /\ drive'.data = data /\ drive'.done = 0 /\ Len(drive'.result) = 0
    <3>1. first \in Nat /\ <<>> \in Seq(Data) /\ Len(<<>>) = 0
      BY EmptySeq DEF Sectors
    <3>2. Len(Idle.result) = 0 /\ Idle.done = 0 /\ Idle.at = "start"
      BY <3>1 DEF Idle
    <3> QED BY <1>2, <3>1, <3>2, IdleIsDrive DEF IsDrive, Fields
  <2>2. fdc.command = None
    BY <1>2 DEF AwakeInv, CommandInv
  <2>3. Types'
    BY <1>2, <2>1 DEF AwakeInv, Types
  <2>4. RequestInv'
    BY <1>2, <2>1 DEF RequestInv
  <2>5. CommandInv'
    BY <1>2, <2>1, <2>2 DEF CommandInv, Given
  <2>6. DataInv'
    BY <1>2, <2>1 DEF DataInv, Given
  <2> QED BY <2>3, <2>4, <2>5, <2>6 DEF AwakeInv
<1>3. ASSUME NEW first \in Sectors, NEW n \in 1 .. MaxCount, Read(first, n)
      PROVE  AwakeInv' /\ DataInv'
  <2>1. drive' = [Idle EXCEPT !.phase = "position", !.op = "read", !.first = first, !.n = n, !.data = <<>>]
    <3>1. IsDrive(Idle) /\ Idle.op = "read" /\ Idle.data = <<>>
      BY IdleIsDrive DEF Idle
    <3>2. drive' = [Idle EXCEPT !.phase = "position", !.first = first, !.n = n]
      BY <1>3 DEF Read
    <3> QED BY <3>1, <3>2 DEF IsDrive, Fields
  <2>2. <<>> \in Seq(Data) /\ n \in Nat
    BY EmptySeq
  <2> QED BY <1>2, <1>3, <2>1, <2>2 DEF Read, AwakeInv, Types, disk, irqs
<1>4. ASSUME NEW first \in Sectors, NEW n \in 1 .. MaxCount, NEW data \in [1 .. n -> Data], Write(first, data)
      PROVE  AwakeInv' /\ DataInv'
  <2>1. data \in Seq(Data) /\ Len(data) \in Nat
    <3>1. n \in Nat
      OBVIOUS
    <3>2. data \in Seq(Data)
      BY <3>1, SeqDef
    <3> QED BY <3>2, LenProperties
  <2>2. Len(data) > 0 /\ data[1] \in Data
    BY <1>4, <2>1, ElementOfSeq DEF Write
  <2> QED BY <1>2, <1>4, <2>1, <2>2 DEF Write, irqs
<1> QED BY <1>1, <1>3, <1>4 DEF Requests

(* The sectors of a request are sectors of the disk.                       *)
LEMMA RequestInRange ==
  ASSUME AwakeInv, Busy, NEW i \in Nat, i < drive.n
  PROVE  drive.first + i \in Sectors /\ Chs(drive.first + i) \in Positions
<1>1. drive.first \in Nat /\ drive.n \in Nat /\ drive.first + drive.n <= Cylinders * SectorsPerTrack * Heads
  BY DEF AwakeInv, Types, IsDrive, RequestInv
<1>2. PICK k \in Nat : k = Cylinders * SectorsPerTrack * Heads
  <2>1. Cylinders * SectorsPerTrack \in Nat
    BY FloppyAssumption
  <2> QED BY <2>1 DEF Heads
<1>3. drive.first + i \in Sectors
  BY <1>1, <1>2 DEF Sectors
<1> QED BY <1>3, ChsIsPosition

LEMMA CommandIsJob ==
  ASSUME AwakeInv, Busy
  PROVE  Command \in Jobs /\ Command # None /\ Position \in Positions
<1>1. drive.done \in Nat /\ drive.done < drive.n /\ drive.op \in {"read", "write"}
  BY DEF AwakeInv, Types, IsDrive, RequestInv
<1>2. Position \in Positions
  BY <1>1, RequestInRange DEF Position
<1>3. 0 \in Cylinder
  BY FloppyAssumption DEF Cylinder
<1>4. Command \in Jobs
  BY <1>1, <1>2, <1>3 DEF Command, Jobs, Target, Positions
<1> QED BY <1>2, <1>4, NoneIsNoJob

LEMMA SeekHeadsStep ==
  ASSUME AwakeInv, SeekHeads
  PROVE  AwakeInv' /\ (DataInv => DataInv')
<1>1. drive.phase = "position" /\ fdc.command = None /\ Busy
  BY DEF SeekHeads, AwakeInv, CommandInv, Busy
<1>2. PICK phase \in {"calibrate", "seek", "transfer"} : drive' = To(phase, "command")
  BY DEF SeekHeads
<1>3. IsDrive(drive') /\ SameRequest /\ drive'.phase = phase /\ drive'.at = "command"
  BY <1>2 DEF AwakeInv, Types, IsDrive, Fields, To, SameRequest
<1> QED BY <1>1, <1>3, CallGoesOn DEF SeekHeads, disk, irqs, outcome, AwakeInv, Types

LEMMA IssueStep ==
  ASSUME AwakeInv, Issue
  PROVE  AwakeInv' /\ (DataInv => DataInv')
<1>1. /\ drive.at = "command" /\ Busy /\ drive' = [drive EXCEPT !.at = "issued"]
      /\ fdc' = [fdc EXCEPT !.command = Command] /\ count' = [count EXCEPT ![FloppyIrq] = 0]
      /\ UNCHANGED <<medium, buffer, answer, failed>>
  BY DEF Issue, outcome, Irq!Reset, AwakeInv, CommandInv, Busy
<1>2. /\ IsDrive(drive') /\ SameRequest /\ drive'.phase = drive.phase /\ drive'.at = "issued"
  BY <1>1 DEF AwakeInv, Types, IsDrive, Fields, SameRequest
<1>3. fdc' \in Fdcs /\ fdc'.command = Command /\ Command # None
  BY <1>1, CommandIsJob DEF AwakeInv, Types, Fdcs
<1>4. Command' = Command
  BY <1>2 DEF Command, Target, Position, Positioning, SameRequest
<1>5. count' \in [{FloppyIrq} -> Nat] /\ count'[FloppyIrq] = 0
  BY <1>1 DEF AwakeInv, Types
<1>6. Types'
  BY <1>1, <1>2, <1>3, <1>5 DEF AwakeInv, Types
<1>7. RequestInv'
  BY <1>1, <1>2 DEF AwakeInv, RequestInv, SameRequest, Busy
<1>8. CommandInv'
  BY <1>1, <1>2, <1>3, <1>4, <1>5 DEF AwakeInv, CommandInv, Given
<1>9. DataInv => DataInv'
  BY <1>1, <1>2, <1>3 DEF DataInv, SameRequest, Busy
<1> QED BY <1>6, <1>7, <1>8, <1>9 DEF AwakeInv

(* The driver falls asleep, and wakes for the interrupt that ends its      *)
(* command.                                                                *)
LEMMA WaitStep ==
  ASSUME AwakeInv, Sleep \/ Wake
  PROVE  AwakeInv' /\ (DataInv => DataInv')
<1>1. PICK at \in {"asleep", "result"} :
        /\ drive' = [drive EXCEPT !.at = at] /\ drive.at \in {"issued", "asleep"}
        /\ UNCHANGED <<medium, fdc, buffer, answer, failed>>
        /\ count' \in [{FloppyIrq} -> Nat]
        /\ at = "asleep" => count' = count
        /\ at = "result" => fdc.command = None
  <2>1. CASE Sleep
    BY <2>1 DEF Sleep, Irq!BeginWait, disk, outcome, AwakeInv, Types
  <2>2. CASE Wake
    <3>1. count[FloppyIrq] \in Nat /\ count[FloppyIrq] > 0
      BY <2>2 DEF Wake, Irq!Wait, AwakeInv, Types
    <3>2. PICK left \in 0 .. count[FloppyIrq] - 1 : count' = [count EXCEPT ![FloppyIrq] = left]
      BY <2>2 DEF Wake, Irq!Wait
    <3>3. count' \in [{FloppyIrq} -> Nat]
      BY <3>1, <3>2 DEF AwakeInv, Types
    <3>4. fdc.command = None
      BY <3>1 DEF AwakeInv, CommandInv
    <3> QED BY <2>2, <3>3, <3>4 DEF Wake, disk, outcome
  <2> QED BY <2>1, <2>2
<1>2. /\ IsDrive(drive') /\ SameRequest /\ drive'.phase = drive.phase /\ drive'.at = at
  BY <1>1 DEF AwakeInv, Types, IsDrive, Fields, SameRequest
<1>3. Command' = Command /\ Position' = Position
  BY <1>2 DEF Command, Target, Position, Positioning, SameRequest
<1>4. Types'
  BY <1>1, <1>2 DEF AwakeInv, Types
<1>5. RequestInv'
  BY <1>1, <1>2 DEF AwakeInv, RequestInv, SameRequest, Busy
<1>6. CommandInv'
  BY <1>1, <1>2, <1>3 DEF AwakeInv, CommandInv, Given
<1>7. DataInv => DataInv'
  BY <1>1, <1>2, <1>3 DEF DataInv, SameRequest, Busy, Given
<1> QED BY <1>4, <1>5, <1>6, <1>7 DEF AwakeInv

LEMMA StatusCutStep ==
  ASSUME AwakeInv, StatusCut
  PROVE  AwakeInv' /\ (DataInv => DataInv')
<1>1. drive.at = "result" /\ fdc.command = None /\ Busy /\ UNCHANGED <<medium, fdc, buffer, count>>
  BY DEF StatusCut, AwakeInv, CommandInv, Busy, disk, irqs
<1>2. CASE drive' = [drive EXCEPT !.ints = @ + 1] /\ UNCHANGED outcome
  <2>1. /\ IsDrive(drive') /\ SameRequest /\ drive'.phase = drive.phase /\ drive'.at = drive.at
    BY <1>2 DEF AwakeInv, Types, IsDrive, Fields, SameRequest
  <2>2. Position' = Position
    BY <2>1 DEF Position, SameRequest
  <2>3. Types' /\ RequestInv' /\ CommandInv'
    BY <1>1, <1>2, <2>1 DEF AwakeInv, Types, RequestInv, CommandInv, SameRequest, Busy, Given, outcome
  <2>4. DataInv => DataInv'
    BY <1>1, <1>2, <2>1, <2>2 DEF DataInv, SameRequest, Busy, Given
  <2> QED BY <2>3, <2>4 DEF AwakeInv
<1>3. CASE \E incomplete \in BOOLEAN : Raised(incomplete)
  BY <1>1, <1>3, RaisedStep DEF AwakeInv, Types
<1> QED BY <1>2, <1>3 DEF StatusCut

LEMMA RetryStep ==
  ASSUME AwakeInv, PositioningFails \/ TriesAgain \/ Calibrated \/ Sought \/ TransferFails
  PROVE  AwakeInv' /\ (DataInv => DataInv')
<1>1. ReadOut /\ UNCHANGED <<medium, buffer, count>>
  BY DEF PositioningFails, TriesAgain, Calibrated, Sought, TransferFails, irqs
<1>2. fdc' \in Fdcs /\ fdc'.command = None /\ Busy
  BY <1>1, ReadOutStep
<1>3. CASE Raised(TRUE) \/ Raised(FALSE)
  BY <1>1, <1>2, <1>3, RaisedStep
<1>4. CASE /\ UNCHANGED outcome
           /\ \/ drive' = [drive EXCEPT !.at = "command", !.tries = @ + 1, !.ints = 0] /\ Positioning
              \/ drive' = To("seek", "command")
              \/ drive' = To("transfer", "command")
              \/ drive' = [drive EXCEPT !.phase = "position", !.at = "start", !.rw = @ + 1]
  <2>1. IsDrive(drive') /\ SameRequest
    BY <1>4 DEF AwakeInv, Types, IsDrive, Fields, To, SameRequest
  <2>2. \/ drive'.phase = "position" /\ drive'.at = "start"
        \/ drive'.phase \in {"calibrate", "seek", "transfer"} /\ drive'.at = "command"
    BY <1>4 DEF AwakeInv, Types, IsDrive, Fields, To, Positioning
  <2> QED BY <1>1, <1>2, <1>4, <2>1, <2>2, CallGoesOn DEF outcome
<1> QED BY <1>3, <1>4 DEF PositioningFails, TriesAgain, Calibrated, Sought, TransferFails, outcome

(* A sector has been transferred: it is in place if that is what the       *)
(* interrupt code says.                                                    *)
LEMMA GotIs ==
  ASSUME AwakeInv, Busy
  PROVE  /\ Got \in Seq(Data)
         /\ drive.op = "read" =>
              /\ Len(Got) = drive.done + 1 /\ Got[drive.done + 1] = buffer
              /\ \A i \in 1 .. drive.done : Got[i] = drive.result[i]
<1>1. drive.result \in Seq(Data) /\ buffer \in Data /\ <<>> \in Seq(Data)
  BY EmptySeq DEF AwakeInv, Types, IsDrive
<1>2. drive.op = "read" => Len(drive.result) = drive.done
  BY DEF AwakeInv, RequestInv
<1> QED BY <1>1, <1>2, AppendProperties DEF Got

LEMMA NextSectorStep ==
  ASSUME AwakeInv, NextSector
  PROVE  AwakeInv' /\ (DataInv => DataInv')
<1>1. /\ ReadOut /\ fdc.result.ic # 1 /\ drive.phase = "transfer" /\ drive.done + 1 < drive.n
      /\ drive' = [drive EXCEPT !.phase = "position", !.at = "start", !.rw = 0, !.done = @ + 1, !.result = Got,
                                 !.mistaken = Mistaken]
      /\ UNCHANGED <<medium, count, answer, failed>>
      /\ buffer' = IF drive.op = "write" THEN drive.data[drive.done + 2] ELSE buffer
  BY DEF NextSector, Transferred, irqs, outcome
<1>2. fdc' \in Fdcs /\ fdc'.command = None /\ Busy /\ Given /\ fdc.command = None /\ fdc.result \in Verdicts
  BY <1>1, ReadOutStep
<1>3. /\ drive.done \in Nat /\ drive.n \in Nat /\ drive.first \in Nat /\ drive.op \in {"read", "write"}
      /\ drive.data \in Seq(Data) /\ Mistaken \in BOOLEAN
  BY DEF AwakeInv, Types, IsDrive, Mistaken
<1>4. /\ IsDrive(drive') /\ drive'.phase = "position" /\ drive'.at = "start" /\ drive'.op = drive.op
      /\ drive'.first = drive.first /\ drive'.n = drive.n /\ drive'.data = drive.data
      /\ drive'.done = drive.done + 1 /\ drive'.result = Got /\ drive'.mistaken = Mistaken
  <2>1. PICK got \in Seq(Data) : got = Got
    BY <1>2, GotIs
  <2>2. PICK done \in Nat : done = drive.done + 1
    BY <1>3
  <2>6. PICK m \in BOOLEAN : m = Mistaken
    BY <1>3
  <2>3. drive' = [drive EXCEPT !.phase = "position", !.at = "start", !.rw = 0, !.done = done, !.result = got, !.mistaken = m]
    BY <1>1, <2>1, <2>2, <2>6
  <2>4. /\ drive'.phase = "position" /\ drive'.at = "start" /\ drive'.op = drive.op
        /\ drive'.first = drive.first /\ drive'.n = drive.n /\ drive'.data = drive.data
        /\ drive'.done = done /\ drive'.result = got /\ drive'.mistaken = m
    BY <2>3 DEF AwakeInv, Types, IsDrive, Fields
  <2>5. drive' = [x \in Fields |-> drive'[x]]
    BY <2>3 DEF AwakeInv, Types, IsDrive, Fields
  <2> QED BY <1>3, <2>1, <2>2, <2>4, <2>5, <2>6 DEF AwakeInv, Types, IsDrive
<1>5. buffer' \in Data
  <2>1. CASE drive.op = "write"
    <3>1. drive.done + 2 \in 1 .. Len(drive.data)
      BY <1>1, <1>2, <1>3, <2>1 DEF AwakeInv, RequestInv
    <3> QED BY <1>1, <1>3, <2>1, <3>1, ElementOfSeq
  <2> QED BY <1>1, <2>1 DEF AwakeInv, Types
<1>6. Types'
  BY <1>1, <1>2, <1>4, <1>5 DEF AwakeInv, Types
<1>7. RequestInv'
  <2>1. /\ drive.first + drive.n <= Cylinders * SectorsPerTrack * Heads
        /\ drive.op = "write" => Len(drive.data) = drive.n
        /\ answer = <<>> /\ ~failed
    BY <1>2 DEF AwakeInv, RequestInv
  <2>2. drive.op = "read" => Len(Got) = drive.done + 1
    BY <1>2, GotIs
  <2> QED BY <1>1, <1>4, <2>1, <2>2 DEF RequestInv
<1>8. CommandInv'
  BY <1>2, <1>4 DEF CommandInv, Given
<1>9. ASSUME DataInv PROVE DataInv'
  <2>1. ~Mistaken => ~drive.mistaken /\ buffer = medium[Position] /\ Position = Chs(drive.first + drive.done)
    BY <1>1, <1>2, <1>9 DEF DataInv, Mistaken, Position
  <2>2. drive.first + (drive.done + 1) - 1 = drive.first + drive.done
    BY <1>3
  <2>3. \A i \in 1 .. drive.done + 1 : i \in 1 .. drive.done \/ i = drive.done + 1
    BY <1>3
  <2>4. CASE drive.op = "read"
    <3>1. ~Mistaken => \A i \in 1 .. drive.done + 1 : Got[i] = medium[Chs(drive.first + i - 1)]
      BY <1>2, <1>9, <2>1, <2>2, <2>3, <2>4, GotIs DEF DataInv
    <3> QED BY <1>1, <1>4, <2>4, <3>1 DEF DataInv
  <2>5. CASE drive.op = "write"
    <3>1. ~Mistaken => \A i \in 1 .. drive.done + 1 : medium[Chs(drive.first + i - 1)] = drive.data[i]
      BY <1>2, <1>9, <2>1, <2>2, <2>3, <2>5 DEF DataInv
    <3>2. buffer' = drive.data[(drive.done + 1) + 1]
      BY <1>1, <1>3, <2>5
    <3> QED BY <1>1, <1>4, <2>5, <3>1, <3>2 DEF DataInv
  <2> QED BY <1>3, <2>4, <2>5
<1> QED BY <1>6, <1>7, <1>8, <1>9 DEF AwakeInv

LEMMA DoneStep ==
  ASSUME AwakeInv, Done
  PROVE  AwakeInv' /\ DataInv'
<1>1. ReadOut /\ drive' = [Idle EXCEPT !.mistaken = Mistaken] /\ UNCHANGED <<medium, count, buffer>> /\ failed' = FALSE
  BY DEF Done, Transferred, irqs
<1>2. PICK m \in BOOLEAN : m = Mistaken
  BY DEF AwakeInv, Types, IsDrive, Mistaken
<1> QED BY <1>1, <1>2, ReadOutStep, CallEnds DEF AwakeInv, Types

-----------------------------------------------------------------------------
(* The steps of the controller                                             *)

LEMMA EndedStep ==
  ASSUME AwakeInv, fdc.command # None,
         NEW ic \in Endings, NEW heads \in Cylinder, NEW cyl \in Cylinder, Ended(ic, heads, cyl),
         medium' \in [Positions -> Data], buffer' \in Data
  PROVE  /\ AwakeInv' /\ UNCHANGED <<drive, answer, failed>>
         /\ Busy /\ Given /\ fdc.command = Command /\ fdc'.result.ic = ic
<1>1. /\ fdc' = [command |-> None, heads |-> heads, result |-> [ic |-> ic, cyl |-> cyl]]
      /\ count' = [count EXCEPT ![FloppyIrq] = @ + 1]
      /\ UNCHANGED <<drive, answer, failed>>
  BY DEF Ended, outcome, Irq!Signal
<1>2. fdc' \in Fdcs /\ fdc'.command = None /\ fdc'.result \in Verdicts /\ fdc'.result.ic = ic
  BY <1>1 DEF Fdcs, Verdicts
<1>3. count' \in [{FloppyIrq} -> Nat]
  BY <1>1 DEF AwakeInv, Types
<1>4. Types'
  BY <1>1, <1>2, <1>3 DEF AwakeInv, Types
<1>5. RequestInv' /\ CommandInv'
  BY <1>1, <1>2 DEF AwakeInv, RequestInv, CommandInv, Busy, Given
<1>6. Busy /\ Given /\ fdc.command = Command
  BY DEF AwakeInv, CommandInv, Busy, Given
<1> QED BY <1>1, <1>2, <1>4, <1>5, <1>6 DEF AwakeInv

LEMMA EndPositioningStep ==
  ASSUME AwakeInv, EndPositioning
  PROVE  AwakeInv' /\ (DataInv => DataInv')
<1>1. PICK ic \in Endings, heads \in Cylinder, cyl \in Cylinder : Ended(ic, heads, cyl)
  BY DEF EndPositioning
<1>2. fdc.command # None /\ fdc.command.job = "position" /\ UNCHANGED <<medium, buffer>>
  BY DEF EndPositioning, Doing
<1>3. AwakeInv' /\ UNCHANGED drive /\ fdc.command = Command
  BY <1>1, <1>2, EndedStep DEF AwakeInv, Types
<1>4. drive.phase # "transfer"
  BY <1>2, <1>3 DEF Command, Positioning, AwakeInv, Types, IsDrive
<1>5. DataInv => DataInv'
  BY <1>2, <1>3, <1>4 DEF DataInv, Busy
<1> QED BY <1>3, <1>5

(* The command for a sector names its position, and the operation.         *)
LEMMA TransferCommand ==
  ASSUME AwakeInv, fdc.command # None, fdc.command.job # "position"
  PROVE  /\ drive.phase = "transfer" /\ fdc.command.at = Position /\ fdc.command.job = drive.op
         /\ Position \in Positions /\ fdc.command.at.cyl \in Cylinder
<1>1. fdc.command = Command /\ Busy /\ drive.at # "start"
  BY DEF AwakeInv, CommandInv, Busy
<1>2. ~Positioning /\ fdc.command.job = drive.op
  BY <1>1 DEF Command
<1>3. drive.phase = "transfer"
  BY <1>1, <1>2 DEF AwakeInv, CommandInv, Positioning
<1>4. Position \in Positions
  BY <1>1, CommandIsJob
<1>5. Target = Position.cyl
  BY <1>3 DEF Target
<1>6. fdc.command.at = Position
  BY <1>1, <1>4, <1>5 DEF Command, Positions
<1> QED BY <1>2, <1>3, <1>4, <1>6 DEF Positions

LEMMA EndReadStep ==
  ASSUME AwakeInv, EndRead
  PROVE  AwakeInv' /\ (DataInv => DataInv')
<1>1. fdc.command # None /\ fdc.command.job = "read" /\ UNCHANGED medium
  BY DEF EndRead, Doing
<1>2. PICK ic \in Endings :
        /\ ic = 0 => buffer' = medium[fdc.command.at]
        /\ buffer' \in Data /\ Ended(ic, fdc.heads, fdc.command.at.cyl)
  BY DEF EndRead
<1>3. /\ drive.phase = "transfer" /\ fdc.command.at = Position /\ drive.op = "read"
      /\ fdc.command.at.cyl \in Cylinder
  BY <1>1, TransferCommand
<1>4. AwakeInv' /\ UNCHANGED drive /\ fdc'.result.ic = ic
  BY <1>1, <1>2, <1>3, EndedStep DEF AwakeInv, Types, Fdcs
<1>5. Position' = Position
  BY <1>4 DEF Position
<1>6. DataInv => DataInv'
  BY <1>1, <1>2, <1>3, <1>4, <1>5 DEF DataInv, Busy
<1> QED BY <1>4, <1>6

LEMMA EndWriteStep ==
  ASSUME AwakeInv, EndWrite
  PROVE  /\ AwakeInv' /\ (DataInv => DataInv')
         /\ Busy /\ drive.op = "write" /\ UNCHANGED <<answer, failed>>
         /\ medium' = medium \/ medium' = [medium EXCEPT ![Position] = buffer]
<1>1. fdc.command # None /\ fdc.command.job = "write" /\ UNCHANGED buffer
  BY DEF EndWrite, Doing
<1>2. PICK ic \in Endings, there \in BOOLEAN :
        /\ ic = 0 => there
        /\ medium' = IF there THEN [medium EXCEPT ![fdc.command.at] = buffer] ELSE medium
        /\ Ended(ic, fdc.heads, fdc.command.at.cyl)
  BY DEF EndWrite
<1>3. /\ drive.phase = "transfer" /\ fdc.command.at = Position /\ drive.op = "write"
      /\ Position \in Positions /\ fdc.command.at.cyl \in Cylinder /\ Busy
  BY <1>1, TransferCommand DEF Busy
<1>4. medium \in [Positions -> Data] /\ medium' \in [Positions -> Data] /\ buffer \in Data /\ fdc.heads \in Cylinder
  BY <1>2, <1>3 DEF AwakeInv, Types, Fdcs
<1>5. AwakeInv' /\ UNCHANGED <<drive, answer, failed>> /\ fdc'.result.ic = ic
  BY <1>1, <1>2, <1>3, <1>4, EndedStep
<1>6. Position' = Position
  BY <1>5 DEF Position
<1>7. ASSUME DataInv PROVE DataInv'
  <2>1. ASSUME NEW i \in 1 .. drive.done
        PROVE  medium'[Chs(drive.first + i - 1)] = medium[Chs(drive.first + i - 1)]
    <3>1. PICK k \in Nat, done \in Nat, first \in Nat :
            k = i - 1 /\ done = drive.done /\ first = drive.first /\ k < done /\ k < drive.n /\ done < drive.n
      <4>1. drive.done \in Nat /\ drive.first \in Nat /\ drive.n \in Nat /\ drive.done < drive.n
        BY <1>3 DEF AwakeInv, Types, IsDrive, RequestInv
      <4>2. i - 1 \in Nat /\ i - 1 < drive.done /\ i - 1 < drive.n
        BY <4>1
      <4> QED BY <4>1, <4>2, Zenon
    <3>2. /\ first + k \in Sectors /\ Chs(first + k) \in Positions
          /\ first + done \in Sectors /\ Chs(first + done) = Position
      BY <1>3, <3>1, RequestInRange DEF Position
    <3>3. first + k # first + done /\ drive.first + i - 1 = first + k
      BY <3>1
    <3>4. Chs(first + k) # Position
      BY <3>2, <3>3, ChsIsInjective
    <3>5. medium'[Chs(first + k)] = medium[Chs(first + k)]
      BY <1>2, <1>3, <1>4, <3>2, <3>4
    <3> QED BY <3>3, <3>5
  <2>2. ic = 0 => buffer' = medium'[Position]
    BY <1>1, <1>2, <1>3, <1>4
  <2>3. ~drive.mistaken => \A i \in 1 .. drive.done : medium'[Chs(drive.first + i - 1)] = drive.data[i]
    BY <1>3, <1>7, <2>1 DEF DataInv
  <2>4. buffer' = drive.data[drive.done + 1]
    BY <1>1, <1>3, <1>7 DEF DataInv
  <2> QED BY <1>3, <1>5, <1>6, <2>2, <2>3, <2>4 DEF DataInv
<1> QED BY <1>2, <1>3, <1>5, <1>7

LEMMA QuietStep ==
  ASSUME AwakeInv, SpinUp \/ UNCHANGED vars
  PROVE  AwakeInv' /\ (DataInv => DataInv')
<1>1. UNCHANGED <<medium, fdc, buffer, drive, count, answer, failed>>
  BY DEF SpinUp, vars, disk, irqs, outcome
<1>2. Position' = Position /\ Command' = Command
  BY <1>1 DEF Position, Command, Target, Positioning
<1>3. AwakeInv'
  BY <1>1, <1>2 DEF AwakeInv, Types, RequestInv, CommandInv, Busy, Given
<1>4. DataInv => DataInv'
  BY <1>1, <1>2 DEF DataInv, Busy, Given
<1> QED BY <1>3, <1>4

LEMMA NextStep ==
  ASSUME AwakeInv, [Next]_vars
  PROVE  AwakeInv' /\ (DataInv => DataInv')
<1>1. CASE Requests
  BY <1>1, RequestStep
<1>2. CASE Driver
  BY <1>2, SeekHeadsStep, IssueStep, WaitStep, StatusCutStep, RetryStep, NextSectorStep, DoneStep DEF Driver
<1>3. CASE Controller
  BY <1>3, EndPositioningStep, EndReadStep, EndWriteStep DEF Controller
<1>4. CASE SpinUp \/ UNCHANGED vars
  BY <1>4, QuietStep
<1> QED BY <1>1, <1>2, <1>3, <1>4 DEF Next

LEMMA InitStep == Init => AwakeInv /\ DataInv
<1> SUFFICES ASSUME Init PROVE AwakeInv /\ DataInv
  OBVIOUS
<1>1. drive = Idle /\ drive.phase = "idle" /\ drive.at = "start" /\ IsDrive(drive)
  BY IdleIsDrive DEF Init, Idle
<1>2. fdc \in Fdcs /\ fdc.command = None
  BY DEF Init, Fdcs
<1>3. Types
  BY <1>1, <1>2 DEF Init, Types
<1>4. RequestInv /\ CommandInv /\ DataInv
  BY <1>1, <1>2 DEF RequestInv, CommandInv, DataInv, Busy, Given
<1> QED BY <1>3, <1>4 DEF AwakeInv

(* Whatever the controller and the heads do, the driver wakes up when its  *)
(* own command has ended, because Issue resets the count.                  *)
THEOREM SleepsThroughItsCommand == Spec => []AwakeWhenEnded
<1>1. AwakeInv /\ [Next]_vars => AwakeInv'
  BY NextStep
<1>2. AwakeInv => AwakeWhenEnded
  BY DEF AwakeInv, CommandInv, AwakeWhenEnded
<1> QED BY <1>1, <1>2, InitStep, PTL DEF Spec

-----------------------------------------------------------------------------
(* What a request does                                                     *)

(* What is known when a request ends without an exception and a mistake.   *)
LEMMA DoneIs ==
  ASSUME AwakeInv, DataInv, ~Mistaken, Done
  PROVE  /\ drive.op = "write" => \A i \in 1 .. drive.n : medium[Chs(drive.first + i - 1)] = drive.data[i]
         /\ drive.op = "read" => \A i \in 1 .. drive.n : Got[i] = medium[Chs(drive.first + i - 1)]
         /\ drive.first \in Nat /\ drive.n \in Nat /\ drive.op \in {"read", "write"} /\ Busy
<1>1. ReadOut /\ fdc.result.ic # 1 /\ drive.phase = "transfer" /\ drive.done + 1 = drive.n
  BY DEF Done, Transferred
<1>2. Busy /\ Given /\ fdc.command = None /\ fdc.result \in Verdicts
  BY <1>1, ReadOutStep
<1>3. /\ drive.done \in Nat /\ drive.n \in Nat /\ drive.first \in Nat /\ drive.op \in {"read", "write"}
  BY DEF AwakeInv, Types, IsDrive
<1>4. buffer = medium[Position] /\ Position = Chs(drive.first + drive.done)
  BY <1>1, <1>2 DEF DataInv, Mistaken, Position
<1>5. /\ drive.first + drive.n - 1 = drive.first + drive.done
      /\ \A i \in 1 .. drive.n : i \in 1 .. drive.done \/ i = drive.n
  BY <1>1, <1>3
<1>6. drive.op = "write" => \A i \in 1 .. drive.n : medium[Chs(drive.first + i - 1)] = drive.data[i]
  BY <1>1, <1>2, <1>4, <1>5 DEF DataInv, Mistaken
<1>7. drive.op = "read" => \A i \in 1 .. drive.n : Got[i] = medium[Chs(drive.first + i - 1)]
  BY <1>1, <1>2, <1>4, <1>5, GotIs DEF DataInv, Mistaken
<1> QED BY <1>2, <1>3, <1>6, <1>7

(* The steps that leave the medium and the outcome of the request alone,   *)
(* and those that end it with an exception.                                *)
LEMMA RaisedIs ==
  ASSUME AwakeInv, NEW incomplete, Raised(incomplete)
  PROVE  \/ UNCHANGED <<answer, failed>> /\ drive'.phase = "position"
         \/ answer' = <<>> /\ failed' = TRUE
<1>1. CASE drive' = Idle /\ answer' = <<>> /\ failed' = TRUE
  BY <1>1
<1>2. CASE drive' = [To("position", "start") EXCEPT !.rw = 0] /\ UNCHANGED outcome
  BY <1>2 DEF outcome, To, AwakeInv, Types, IsDrive, Fields
<1> QED BY <1>1, <1>2 DEF Raised

LEMMA DriverIs ==
  ASSUME AwakeInv, Driver, ~Done
  PROVE  /\ UNCHANGED medium
         /\ \/ UNCHANGED <<answer, failed>> /\ drive'.phase # "idle"
            \/ answer' = <<>> /\ failed' = TRUE
<1>0. IsDrive(drive)
  BY DEF AwakeInv, Types
<1>1. CASE SeekHeads
  BY <1>0, <1>1 DEF SeekHeads, To, IsDrive, Fields, disk, outcome
<1>2. CASE Issue \/ Sleep \/ Wake
  <2>1. drive.phase # "idle"
    BY <1>2 DEF Issue, Sleep, Wake, AwakeInv, CommandInv
  <2>2. UNCHANGED <<medium, answer, failed>> /\ drive'.phase = drive.phase
    BY <1>0, <1>2 DEF Issue, Sleep, Wake, IsDrive, Fields, disk, outcome
  <2> QED BY <2>1, <2>2
<1>3. CASE StatusCut \/ PositioningFails \/ TriesAgain \/ Calibrated \/ Sought \/ TransferFails
  <2>1. UNCHANGED medium
    BY <1>3 DEF StatusCut, PositioningFails, TriesAgain, Calibrated, Sought, TransferFails, disk
  <2>2. CASE \E incomplete \in BOOLEAN : Raised(incomplete)
    BY <2>1, <2>2, RaisedIs
  <2>3. CASE /\ UNCHANGED outcome
             /\ \/ Positioning /\ drive' = [drive EXCEPT !.ints = @ + 1]
                \/ Positioning /\ drive' = [drive EXCEPT !.at = "command", !.tries = @ + 1, !.ints = 0]
                \/ drive' = To("seek", "command") \/ drive' = To("transfer", "command")
                \/ drive' = [drive EXCEPT !.phase = "position", !.at = "start", !.rw = @ + 1]
    <3>1. drive'.phase # "idle"
      <4>1. CASE Positioning /\ drive' = [drive EXCEPT !.ints = @ + 1]
        BY <1>0, <4>1 DEF Positioning, IsDrive, Fields
      <4>2. CASE Positioning /\ drive' = [drive EXCEPT !.at = "command", !.tries = @ + 1, !.ints = 0]
        BY <1>0, <4>2 DEF Positioning, IsDrive, Fields
      <4>3. CASE drive' = To("seek", "command") \/ drive' = To("transfer", "command")
        BY <1>0, <4>3 DEF To, IsDrive, Fields
      <4>4. CASE drive' = [drive EXCEPT !.phase = "position", !.at = "start", !.rw = @ + 1]
        BY <1>0, <4>4 DEF IsDrive, Fields
      <4> QED BY <2>3, <4>1, <4>2, <4>3, <4>4, Zenon
    <3> QED BY <2>1, <2>3, <3>1 DEF outcome
  <2>4. CASE StatusCut
    <3>1. (fdc.command = None /\ fdc.result.ic = 1) \in BOOLEAN
      OBVIOUS
    <3> QED BY <2>2, <2>3, <2>4, <3>1 DEF StatusCut
  <2>5. CASE PositioningFails \/ TriesAgain \/ Calibrated \/ Sought \/ TransferFails
    BY <2>2, <2>3, <2>5 DEF PositioningFails, TriesAgain, Calibrated, Sought, TransferFails
  <2> QED BY <1>3, <2>4, <2>5
<1>4. CASE NextSector
  BY <1>0, <1>4 DEF NextSector, Transferred, IsDrive, Fields, outcome
<1> QED BY <1>1, <1>2, <1>3, <1>4 DEF Driver

LEMMA DriverIsBusy ==
  ASSUME AwakeInv, Driver
  PROVE  drive.phase # "idle"
BY DEF AwakeInv, CommandInv, Driver, SeekHeads, Issue, Sleep, Wake, StatusCut, PositioningFails, TriesAgain,
       Calibrated, Sought, TransferFails, NextSector, Done, Transferred, Positioning

(* Only Done ends a request without an exception.                          *)
LEMMA StepDoesWhatItSays ==
  ASSUME AwakeInv, DataInv, [Next]_vars,
         drive.phase # "idle", drive'.phase = "idle", ~failed', ~drive'.mistaken
  PROVE  \A i \in 1 .. drive.n :
           IF drive.op = "write" THEN medium'[Chs(drive.first + i - 1)] = drive.data[i]
           ELSE drive.first + i - 1 \in DOMAIN answer'
<1>1. ~Requests /\ ~UNCHANGED vars /\ ~SpinUp
  BY DEF Requests, Refuse, Read, Write, vars, SpinUp
<1>2. ~Controller
  BY DEF Controller, EndPositioning, EndRead, EndWrite, Ended
<1>3. Done
  BY <1>1, <1>2, DriverIs DEF Next
<1>6. ~Mistaken
  BY <1>3 DEF Done, Idle
<1>4. CASE drive.op = "write"
  <2>1. medium' = medium
    BY <1>3 DEF Done, Transferred
  <2> QED BY <1>3, <1>4, <1>6, <2>1, DoneIs
<1>5. CASE drive.op = "read"
  <2>1. DOMAIN answer' = drive.first .. drive.first + drive.n - 1 /\ drive.first \in Nat /\ drive.n \in Nat
    BY <1>3, <1>5, <1>6, DoneIs DEF Done
  <2> QED BY <1>5, <2>1
<1> QED BY <1>3, <1>4, <1>5, <1>6, DoneIs

(* For any geometry, contents, number of retries and interrupt codes: a    *)
(* request that ends without an exception has transferred all of its       *)
(* sectors, unless the driver overlooked the code that ended a transfer.   *)
THEOREM RequestsAreDone == Spec => DoneIsDone
<1>1. AwakeInv /\ DataInv /\ [Next]_vars => AwakeInv' /\ DataInv'
  BY NextStep
<1>2. AwakeInv /\ DataInv /\ [Next]_vars =>
        [drive.phase # "idle" /\ drive'.phase = "idle" /\ ~failed' /\ ~drive'.mistaken =>
           \A i \in 1 .. drive.n :
             IF drive.op = "write" THEN medium'[Chs(drive.first + i - 1)] = drive.data[i]
             ELSE drive.first + i - 1 \in DOMAIN answer']_vars
  BY StepDoesWhatItSays
<1> QED BY <1>1, <1>2, InitStep, PTL DEF Spec, DoneIsDone

-----------------------------------------------------------------------------
(* The drive is a disk                                                     *)

LEMMA ContentIs ==
  ASSUME AwakeInv
  PROVE  content \in [Sectors -> Data]
BY ChsIsPosition DEF content, AwakeInv, Types

(* While a request goes on there is no answer, and a failed or refused one *)
(* leaves none.                                                            *)
LEMMA TrustedIs ==
  ASSUME TRUE
  PROVE  /\ AwakeInv /\ drive.phase # "idle" => Trusted = answer /\ answer = <<>>
         /\ answer' = <<>> => Trusted' = <<>>
         /\ UNCHANGED <<drive, answer>> => Trusted' = Trusted
         /\ drive'.phase # "idle" => Trusted' = answer'
BY DEF Trusted, AwakeInv, RequestInv, Busy

LEMMA ReadRefines ==
  ASSUME AwakeInv, DataInv, Done
  PROVE  Disk!Next
<1>1. UNCHANGED medium /\ failed' = FALSE /\ drive'.phase = "idle" /\ drive'.mistaken = Mistaken
  BY DEF Done, Transferred, Idle
<1>2. content' = content
  BY <1>1 DEF content
<1>6. drive.op \in {"read", "write"}
  BY DEF AwakeInv, Types, IsDrive
<1>5. CASE Mistaken
  <2>1. Trusted' = <<>>
    BY <1>1, <1>5 DEF Trusted
  <2> QED BY <1>1, <1>2, <2>1 DEF Disk!Next, Disk!Nothing
<1>3. CASE ~Mistaken /\ drive.op = "write"
  <2>1. Trusted' = <<>>
    BY <1>3, TrustedIs DEF Done
  <2> QED BY <1>1, <1>2, <2>1 DEF Disk!Next, Disk!Nothing
<1>4. CASE ~Mistaken /\ drive.op = "read"
  <2>1. PICK first \in Nat, n \in Nat : first = drive.first /\ n = drive.n /\ Busy
    BY <1>4, DoneIs
  <2>2. ASSUME NEW s \in first .. first + n - 1
        PROVE  s \in Sectors /\ Got[s - first + 1] = content[s]
    <3>1. PICK k \in Nat : k = s - first /\ k < n /\ s = first + k
      <4>1. s - first \in Nat /\ s - first < n /\ s = first + (s - first)
        BY <2>1
      <4> QED BY <4>1, Zenon
    <3>2. s \in Sectors
      BY <2>1, <3>1, RequestInRange
    <3>3. k + 1 \in 1 .. n /\ first + (k + 1) - 1 = s
      BY <2>1, <3>1
    <3>4. Got[k + 1] = medium[Chs(s)]
      BY <1>4, <2>1, <3>3, DoneIs
    <3> QED BY <3>1, <3>2, <3>4 DEF content
  <2>3. answer' = [s \in first .. first + n - 1 |-> content[s]]
    <3>1. answer' = [s \in first .. first + n - 1 |-> Got[s - first + 1]]
      BY <1>4, <2>1 DEF Done
    <3> QED BY <2>2, <3>1
  <2>4. first .. first + n - 1 \in SUBSET Sectors
    BY <2>2
  <2>6. Trusted' = answer'
    BY <1>1, <1>4 DEF Trusted
  <2>5. Disk!Read(first .. first + n - 1)
    BY <1>1, <1>2, <2>3, <2>6 DEF Disk!Read
  <2> QED BY <2>4, <2>5 DEF Disk!Next
<1> QED BY <1>3, <1>4, <1>5, <1>6

LEMMA WriteRefines ==
  ASSUME AwakeInv, EndWrite
  PROVE  /\ Disk!Next \/ UNCHANGED Disk!vars
         /\ \A s \in Sectors : content'[s] # content[s] =>
              drive.op = "write" /\ s \in drive.first .. drive.first + drive.n - 1
<1>1. /\ AwakeInv' /\ Busy /\ drive.op = "write" /\ UNCHANGED <<drive, answer, failed>>
      /\ medium' = medium \/ medium' = [medium EXCEPT ![Position] = buffer]
  BY EndWriteStep DEF EndWrite, Ended
<1>4. Trusted' = Trusted /\ Trusted = <<>>
  BY <1>1, TrustedIs DEF Busy
<1>2. CASE medium' = medium
  BY <1>1, <1>2, <1>4 DEF Disk!vars, content
<1>3. CASE medium' = [medium EXCEPT ![Position] = buffer]
  <2>1. PICK first \in Nat, done \in Nat, n \in Nat : first = drive.first /\ done = drive.done /\ n = drive.n /\ done < n
    BY <1>1 DEF AwakeInv, Types, IsDrive, RequestInv
  <2>2. PICK t \in Sectors : t = first + done /\ Chs(t) = Position /\ Position \in Positions
    BY <1>1, <2>1, RequestInRange DEF Position
  <2>3. buffer \in Data /\ answer = <<>> /\ ~failed /\ medium \in [Positions -> Data] /\ failed \in BOOLEAN
    BY <1>1 DEF AwakeInv, Types, RequestInv
  <2>4. \A s \in Sectors : content'[s] = IF s = t THEN buffer ELSE content[s]
    <3>1. ASSUME NEW s \in Sectors
          PROVE  medium'[Chs(s)] = IF s = t THEN buffer ELSE medium[Chs(s)]
      <4>1. Chs(s) \in Positions /\ (s # t => Chs(s) # Position)
        BY <2>2, ChsIsPosition, ChsIsInjective
      <4> QED BY <1>3, <2>2, <2>3, <4>1
    <3> QED BY <3>1 DEF content
  <2>5. PICK data \in [{t} -> Data] : data = [s \in {t} |-> buffer]
    BY <2>3
  <2>6. content \in [Sectors -> Data] /\ content' \in [Sectors -> Data]
    <3>1. content \in [Sectors -> Data]
      BY ContentIs
    <3>2. content' \in [Sectors -> Data]
      BY <1>1, ChsIsPosition DEF content, AwakeInv, Types
    <3> QED BY <3>1, <3>2
  <2>7. Disk!Write({t}, data)
    BY <1>1, <1>4, <2>3, <2>4, <2>5, <2>6 DEF Disk!Write, Disk!SomeOf
  <2>8. Disk!Next
    BY <2>7 DEF Disk!Next
  <2>9. t \in drive.first .. drive.first + drive.n - 1
    BY <2>1, <2>2
  <2> QED BY <1>1, <2>4, <2>8, <2>9
<1> QED BY <1>1, <1>2, <1>3

LEMMA NextRefines ==
  ASSUME AwakeInv, DataInv, [Next]_vars
  PROVE  /\ Disk!Next \/ UNCHANGED Disk!vars
         /\ \A s \in Sectors : content'[s] # content[s] =>
              drive.op = "write" /\ s \in drive.first .. drive.first + drive.n - 1
<1>1. ASSUME UNCHANGED medium
      PROVE  content' = content
  BY <1>1 DEF content
<1>2. CASE Requests
  <2>1. UNCHANGED medium /\ answer' = <<>> /\ failed' \in BOOLEAN
    BY <1>2 DEF Requests, Refuse, Read, Write, disk
  <2> QED BY <1>1, <2>1, TrustedIs DEF Disk!Next, Disk!Nothing
<1>3. CASE Driver /\ ~Done
  <2>1. UNCHANGED medium
    BY <1>3, DriverIs
  <2>2. CASE UNCHANGED <<answer, failed>> /\ drive'.phase # "idle"
    <3>1. drive.phase # "idle"
      BY <1>3, DriverIsBusy
    <3>2. Trusted' = Trusted
      BY <2>2, <3>1, TrustedIs
    <3> QED BY <1>1, <2>1, <2>2, <3>2 DEF Disk!vars
  <2>3. CASE answer' = <<>> /\ failed' = TRUE
    BY <1>1, <2>1, <2>3, TrustedIs DEF Disk!Next, Disk!Nothing
  <2> QED BY <1>3, <2>2, <2>3, <2>1, DriverIs
<1>4. CASE Done
  <2>1. UNCHANGED medium
    BY <1>4 DEF Done, Transferred
  <2> QED BY <1>1, <1>4, <2>1, ReadRefines
<1>5. CASE EndPositioning \/ EndRead \/ SpinUp \/ UNCHANGED vars
  <2>1. UNCHANGED <<medium, drive, answer, failed>>
    BY <1>5 DEF EndPositioning, EndRead, SpinUp, Ended, vars, disk, outcome
  <2> QED BY <1>1, <2>1, TrustedIs DEF Disk!vars
<1>6. CASE EndWrite
  BY <1>6, WriteRefines
<1> QED BY <1>2, <1>3, <1>4, <1>5, <1>6 DEF Next, Controller

(* The drive, with all its retries, failures and wandering heads, is the   *)
(* disk that the cache relies on: a read returns what was last written,    *)
(* unless the driver was mistaken about it, and no write, mistaken or not, *)
(* changes a sector but its own.                                           *)
THEOREM FloppyIsADisk == Spec => ImplementsDisk
<1>1. AwakeInv /\ DataInv /\ [Next]_vars => AwakeInv' /\ DataInv'
  BY NextStep
<1>2. Init => Disk!Init
  <2> SUFFICES ASSUME Init PROVE Disk!Init
    OBVIOUS
  <2>1. content \in [Sectors -> Data]
    BY InitStep, ContentIs
  <2>2. Trusted = <<>>
    BY DEF Init, Idle, Trusted
  <2> QED BY <2>1, <2>2 DEF Init, Disk!Init
<1>3. AwakeInv /\ DataInv /\ [Next]_vars => [Disk!Next]_(Disk!vars)
  BY NextRefines
<1>4. AwakeInv /\ DataInv /\ [Next]_vars =>
        [\A s \in Sectors : content'[s] # content[s] =>
           drive.op = "write" /\ s \in drive.first .. drive.first + drive.n - 1]_vars
  BY NextRefines
<1> QED BY <1>1, <1>2, <1>3, <1>4, InitStep, PTL DEF Spec, ImplementsDisk, Disk!Spec
=============================================================================
