------------------------------- MODULE Floppy -------------------------------
(***************************************************************************)
(* The driver of python_modules/floppy.py with the controller and the      *)
(* drive that it talks to.  The driver gives a command, sleeps until the   *)
(* interrupt that ends it, and looks at what became of it; the controller  *)
(* works meanwhile and may fail at any time, the heads stop anywhere, and  *)
(* the motor needs its time.  The interrupts come through the module `irq` *)
(* as IrqSemaphore describes it.                                           *)
(***************************************************************************)
EXTENDS Integers, Sequences

CONSTANTS
  Cylinders,        \* _tracks
  SectorsPerTrack,  \* _sectors_per_track
  Data,             \* what a sector may hold
  RwRetries,        \* _rw_retries
  SeekRetries,      \* _seek_retries
  IntRetries,       \* _int_status_retries
  MaxCount,         \* bound: sectors of a request
  Endings,          \* interrupt codes with which a command may end; 0 is success
  None

FloppyIrq == 6
Heads == 2
Cylinder == 0 .. Cylinders - 1
Sectors == 0 .. Cylinders * SectorsPerTrack * Heads - 1
Positions == [cyl : Cylinder, head : 0 .. Heads - 1, sector : 1 .. SectorsPerTrack]

ASSUME FloppyAssumption ==
  /\ Cylinders \in Nat \ {0} /\ SectorsPerTrack \in Nat \ {0} /\ Data # {}
  /\ RwRetries \in Nat \ {0} /\ SeekRetries \in Nat \ {0} /\ IntRetries \in Nat \ {0}
  /\ {0, 1} \subseteq Endings /\ Endings \subseteq 0 .. 3
  /\ None \notin [job : {"position", "read", "write"}, at : Positions]

(* lba_to_chs                                                              *)
Chs(lba) ==
  LET rest == lba % (SectorsPerTrack * Heads)
      head == IF rest >= SectorsPerTrack THEN 1 ELSE 0
  IN [cyl |-> lba \div (SectorsPerTrack * Heads), head |-> head, sector |-> (rest - (head * SectorsPerTrack)) + 1]

VARIABLES
  medium,    \* what is on the disk, by position
  fdc,       \* the controller: its command, the heads, and what it has to say of the last command
  motor,     \* "off", "spinning" up, or "up"
  buffer,    \* the memory at _buffer_address
  drive,     \* the driver: the request, how far it is, and whether it was mistaken (history)
  current,   \* _current_cyl
  need,      \* _need_calibrate
  count,     \* the interrupts counted by the module `irq`
  waiting,   \* the IRQ that the driver sleeps until
  answer,    \* what the last read returned, by sector
  failed     \* did the last request raise an exception?

disk == <<medium, fdc, buffer>>
belief == <<current, need>>
irqs == <<count, waiting>>
outcome == <<answer, failed>>
vars == <<medium, fdc, motor, buffer, drive, current, need, count, waiting, answer, failed>>

Irq == INSTANCE IrqSemaphore WITH Irqs <- {FloppyIrq}

Idle ==
  [phase |-> "idle", at |-> "start", op |-> "read", first |-> 0, n |-> 0, data |-> <<>>,
   result |-> <<>>, done |-> 0, rw |-> 0, tries |-> 0, ints |-> 0, mistaken |-> FALSE]

(* The drive has been reset, which is an interrupt that no one waited for. *)
Init ==
  /\ medium \in [Positions -> Data]
  /\ \E c \in Cylinder : fdc = [command |-> None, heads |-> c, result |-> None]
  /\ motor = "off"
  /\ buffer \in Data
  /\ drive = Idle
  /\ current = None /\ need = TRUE
  /\ count = [irq \in {FloppyIrq} |-> 1] /\ waiting = None
  /\ answer = <<>> /\ failed = FALSE

-----------------------------------------------------------------------------
(* Requests: read_sectors and write_sectors, of at least one sector        *)

TurnedOn == IF motor = "off" THEN "spinning" ELSE motor

Refuse(first, n) ==
  /\ drive.phase = "idle"
  /\ first + n > Cylinders * SectorsPerTrack * Heads
  /\ answer' = <<>> /\ failed' = TRUE
  /\ UNCHANGED <<disk, motor, drive, belief, irqs>>

Read(first, n) ==
  /\ drive.phase = "idle" /\ n > 0
  /\ first + n <= Cylinders * SectorsPerTrack * Heads
  /\ drive' = [Idle EXCEPT !.phase = "position", !.first = first, !.n = n]
  /\ motor' = TurnedOn
  /\ answer' = <<>> /\ failed' = FALSE
  /\ UNCHANGED <<disk, belief, irqs>>

Write(first, data) ==
  /\ drive.phase = "idle" /\ Len(data) > 0
  /\ first + Len(data) <= Cylinders * SectorsPerTrack * Heads
  /\ drive' = [Idle EXCEPT !.phase = "position", !.op = "write", !.first = first, !.n = Len(data), !.data = data]
  /\ buffer' = data[1]
  /\ motor' = TurnedOn
  /\ answer' = <<>> /\ failed' = FALSE
  /\ UNCHANGED <<medium, fdc, belief, irqs>>

(* The next stage of a sector's transfer, which counts its tries anew.      *)
To(phase, at) == [drive EXCEPT !.phase = phase, !.at = at, !.tries = 0, !.ints = 0]

(* A read that starts again whenever its command could not be completed.   *)
RaisedEndlessly(incomplete) ==
  IF incomplete /\ drive.op = "read"
  THEN drive' = [To("position", "start") EXCEPT !.rw = 0] /\ UNCHANGED outcome
  ELSE drive' = Idle /\ answer' = <<>> /\ failed' = TRUE

(* An error of the request's sector.  A read whose command could not be    *)
(* completed starts again until the motor has had its time.                *)
Raised(incomplete) ==
  IF incomplete /\ drive.op = "read" /\ motor # "up"
  THEN drive' = [To("position", "start") EXCEPT !.rw = 0] /\ UNCHANGED outcome
  ELSE drive' = Idle /\ answer' = <<>> /\ failed' = TRUE

-----------------------------------------------------------------------------
(* A command: irq.reset, its bytes, and irq.sleep_until                    *)

(* The sector at hand, and always the first one.                            *)
PositionFirst == Chs(drive.first)
Position == Chs(drive.first + drive.done)
Target == IF drive.phase = "calibrate" THEN 0 ELSE Position.cyl
Positioning == drive.phase \in {"calibrate", "seek"}

Command == [job |-> IF Positioning THEN "position" ELSE drive.op, at |-> [Position EXCEPT !.cyl = Target]]

(* A command after which the driver sleeps until any interrupt.            *)
IssueNoReset ==
  /\ drive.at = "command"
  /\ drive.phase = "transfer" /\ drive.op = "write" => motor = "up"
  /\ fdc.command = None
  /\ UNCHANGED irqs
  /\ fdc' = [fdc EXCEPT !.command = Command]
  /\ drive' = [drive EXCEPT !.at = "issued"]
  /\ UNCHANGED <<medium, motor, buffer, belief, outcome>>

Issue ==
  /\ drive.at = "command"
  /\ drive.phase = "transfer" /\ drive.op = "write" => motor = "up"
  /\ fdc.command = None
  /\ Irq!Reset(FloppyIrq)
  /\ fdc' = [fdc EXCEPT !.command = Command]
  /\ drive' = [drive EXCEPT !.at = "issued"]
  /\ UNCHANGED <<medium, motor, buffer, belief, outcome>>

Sleep ==
  /\ drive.at = "issued"
  /\ Irq!BeginWait(FloppyIrq)
  /\ drive' = [drive EXCEPT !.at = "asleep"]
  /\ UNCHANGED <<disk, motor, belief, outcome>>

Wake ==
  /\ drive.at = "asleep"
  /\ Irq!Wait(FloppyIrq)
  /\ drive' = [drive EXCEPT !.at = "result"]
  /\ UNCHANGED <<disk, motor, belief, outcome>>

(* The first steps of _seek_heads.                                         *)
SeekHeads ==
  /\ drive.phase = "position"
  /\ drive' = To(IF Target = current THEN "transfer" ELSE IF need THEN "calibrate" ELSE "seek", "command")
  /\ UNCHANGED <<disk, motor, belief, irqs, outcome>>

(* What the controller has to say is there once.                           *)
ReadOut ==
  /\ drive.at = "result" /\ fdc.command = None
  /\ fdc' = [fdc EXCEPT !.result = None]

(* _check_interrupt_status of which the controller gives one byte only,    *)
(* and keeps what it has to say.                                           *)
StatusCut ==
  LET incomplete == fdc.command = None /\ fdc.result.ic = 1 IN
  /\ drive.at = "result" /\ Positioning
  /\ IF incomplete \/ drive.ints = IntRetries - 1
     THEN Raised(incomplete)
     ELSE drive' = [drive EXCEPT !.ints = @ + 1] /\ UNCHANGED outcome
  /\ UNCHANGED <<disk, motor, belief, irqs>>

(* The controller says that the command has failed: _check_st raises an    *)
(* IncompleteError, which neither _calibrate nor _seek_heads catches.      *)
PositioningFails ==
  /\ Positioning /\ ReadOut /\ fdc.result.ic = 1
  /\ Raised(TRUE)
  /\ UNCHANGED <<medium, buffer, motor, belief, irqs>>

(* The heads are elsewhere: again, unless that was the last try.  Every    *)
(* other try of a seek asks for a calibration, which a later one makes.    *)
TriesAgain ==
  /\ Positioning /\ ReadOut /\ fdc.result.ic # 1 /\ fdc.result.cyl # Target
  /\ IF drive.tries = SeekRetries - 1
     THEN Raised(FALSE)
     ELSE drive' = [drive EXCEPT !.at = "command", !.tries = @ + 1, !.ints = 0] /\ UNCHANGED outcome
  /\ need' = (need \/ (drive.phase = "seek" /\ drive.tries % 2 = 1))
  /\ UNCHANGED <<medium, buffer, motor, current, irqs>>

Calibrated ==
  /\ drive.phase = "calibrate" /\ ReadOut /\ fdc.result.ic # 1 /\ fdc.result.cyl = 0
  /\ need' = FALSE
  /\ drive' = To("seek", "command")
  /\ UNCHANGED <<medium, buffer, motor, current, irqs, outcome>>

Sought ==
  /\ drive.phase = "seek" /\ ReadOut /\ fdc.result.ic # 1 /\ fdc.result.cyl = Target
  /\ current' = Target
  /\ drive' = To("transfer", "command")
  /\ UNCHANGED <<medium, buffer, motor, need, irqs, outcome>>

-----------------------------------------------------------------------------
(* The end of a sector's transfer.  _check_st compares the interrupt code, *)
(* which has two bits, with 0x10 and 0x11: 2 and 3 pass for success, and   *)
(* the driver is mistaken about the sector.                                *)

TransferFails ==
  /\ drive.phase = "transfer" /\ ReadOut /\ fdc.result.ic = 1
  /\ IF drive.rw = RwRetries - 1 THEN Raised(TRUE)
     ELSE drive' = [drive EXCEPT !.phase = "position", !.at = "start", !.rw = @ + 1] /\ UNCHANGED outcome
  /\ UNCHANGED <<medium, buffer, motor, belief, irqs>>

Mistaken == drive.mistaken \/ fdc.result.ic # 0
Got == IF drive.op = "read" THEN Append(drive.result, buffer) ELSE <<>>
Transferred ==
  /\ drive.phase = "transfer" /\ ReadOut /\ fdc.result.ic # 1
  /\ UNCHANGED <<medium, motor, belief, irqs>>

(* A multiple write whose buffer is not filled again.                      *)
NextSectorSame ==
  /\ Transferred
  /\ drive.done + 1 < drive.n
  /\ drive' = [drive EXCEPT !.phase = "position", !.at = "start", !.rw = 0, !.done = @ + 1, !.result = Got, !.mistaken = Mistaken]
  /\ UNCHANGED <<buffer, outcome>>

NextSector ==
  /\ Transferred
  /\ drive.done + 1 < drive.n
  /\ drive' = [drive EXCEPT !.phase = "position", !.at = "start", !.rw = 0, !.done = @ + 1, !.result = Got, !.mistaken = Mistaken]
  /\ buffer' = IF drive.op = "write" THEN drive.data[drive.done + 2] ELSE buffer
  /\ UNCHANGED outcome

Done ==
  /\ Transferred
  /\ drive.done + 1 = drive.n
  /\ drive' = [Idle EXCEPT !.mistaken = Mistaken]
  /\ answer' = IF drive.op = "read" THEN [s \in drive.first .. drive.first + drive.n - 1 |-> Got[s - drive.first + 1]] ELSE <<>>
  /\ failed' = FALSE
  /\ UNCHANGED buffer

Driver ==
  \/ SeekHeads \/ Issue \/ Sleep \/ Wake
  \/ StatusCut \/ PositioningFails \/ TriesAgain \/ Calibrated \/ Sought
  \/ TransferFails \/ NextSector \/ Done

-----------------------------------------------------------------------------
(* The controller ends its command, with an interrupt.                     *)

Ended(ic, heads, cyl) ==
  /\ fdc' = [command |-> None, heads |-> heads, result |-> [ic |-> ic, cyl |-> cyl]]
  /\ Irq!Signal(FloppyIrq)
  /\ UNCHANGED <<motor, drive, belief, outcome>>
Doing(job) == fdc.command # None /\ fdc.command.job = job

(* The heads may stop anywhere, and the controller be wrong about it,      *)
(* which no one asks it after a failure.                                   *)
EndPositioning ==
  /\ Doing("position")
  /\ \E ic \in Endings, heads, cyl \in Cylinder : (ic = 1 => cyl = heads) /\ Ended(ic, heads, cyl)
  /\ UNCHANGED <<medium, buffer>>

(* The sectors of a track bear its number: on another one, there is none.  *)
EndRead ==
  /\ Doing("read")
  /\ \E ic \in Endings :
       /\ ic = 0 => fdc.heads = fdc.command.at.cyl /\ buffer' = medium[fdc.command.at]
       /\ buffer' \in Data
       /\ Ended(ic, fdc.heads, fdc.command.at.cyl)
  /\ UNCHANGED medium

EndWrite ==
  /\ Doing("write")
  /\ \E ic \in Endings, there \in BOOLEAN :
       /\ ic = 0 => there
       /\ there => fdc.heads = fdc.command.at.cyl
       /\ medium' = IF there THEN [medium EXCEPT ![fdc.command.at] = buffer] ELSE medium
       /\ Ended(ic, fdc.heads, fdc.command.at.cyl)
  /\ UNCHANGED buffer

SpinUp ==
  /\ motor = "spinning"
  /\ motor' = "up"
  /\ UNCHANGED <<disk, drive, belief, irqs, outcome>>

Requests ==
  \E first \in Sectors, n \in 1 .. MaxCount :
    \/ Refuse(first, n)
    \/ Read(first, n)
    \/ \E data \in [1 .. n -> Data] : Write(first, data)

Controller == EndPositioning \/ EndRead \/ EndWrite

Next == Requests \/ Driver \/ Controller \/ SpinUp

(* The driver and the controller go on, one of them at least, and time     *)
(* passes.                                                                 *)
Fairness == WF_vars(Driver \/ Controller) /\ WF_vars(SpinUp)

Spec == Init /\ [][Next]_vars /\ Fairness

-----------------------------------------------------------------------------

(* The driver wakes up when its command has ended, and never for an        *)
(* interrupt of an earlier one.                                            *)
AwakeWhenEnded == drive.at = "result" => fdc.command = None

(* A request ends without an exception only when every sector of it has    *)
(* been written, or read: the controller may give up any command with a    *)
(* code that the driver overlooks, and a request about which the driver is *)
(* mistaken in this way is the only one excused.                           *)
DoneIsDone ==
  [][drive.phase # "idle" /\ drive'.phase = "idle" /\ ~failed' /\ ~drive'.mistaken =>
       \A i \in 1 .. drive.n :
         IF drive.op = "write" THEN medium'[Chs(drive.first + i - 1)] = drive.data[i]
         ELSE drive.first + i - 1 \in DOMAIN answer']_vars

(* The drive is a disk: what is read is what was last written, nothing is  *)
(* lost with the power, and a write changes no sector but its own, mistaken*)
(* or not.  What a mistaken request returned is not an answer of the disk. *)
content == [s \in Sectors |-> medium[Chs(s)]]
Trusted == IF drive.phase = "idle" /\ drive.mistaken THEN <<>> ELSE answer
Disk == INSTANCE LogicalDisk WITH content <- content, medium <- content, answer <- Trusted
ImplementsDisk ==
  /\ Disk!Spec
  /\ [][\A s \in Sectors : content'[s] # content[s] =>
          drive.op = "write" /\ s \in drive.first .. drive.first + drive.n - 1]_vars

(* Every request ends: its retries are numbered, and the spinning up of    *)
(* the motor is not waited for in vain.                                    *)
RequestEnds == drive.phase # "idle" ~> drive.phase = "idle"
=============================================================================
