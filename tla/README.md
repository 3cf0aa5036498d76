# A TLA+ model of the Unununium operating engine

Unununium is a small operating system for the PC: a kernel written in nasm
assembly (a hard-realtime scheduler, an interrupt manager, a memory manager and
a keyboard driver) linked with an embedded Python interpreter, and drivers,
block layer, filesystems and shell written in Python on top of it.  These
modules model the program's own code.  The vendored parts (the C library dietlibc,
the Python interpreter and its headers, the SNAP and gatest trees, the
documentation tools) are not modelled.

## 1. The system and its parts

| part | source | state it keeps | operations |
|---|---|---|---|
| ring queue library | `lib/queue/ring.asm` | next/previous pointers of each node | insert_before, insert_after, link_ordered_64, link_ordered_32, remove |
| thread pools | `sys/scheduler/x86/avalon.asm` 1164-1420 | a 32-bit bitmap per pool (1 = free), a ring of pools, the header of each thread | add_pool, acquire, release, initialize |
| scheduler (Avalon) | `sys/scheduler/x86/avalon.asm` | timer_ring, ready_for_execution, executing_thread, the IRQ safety lock | schedule, the start and expiry timers, enter_irq, re-evaluation of the priorities |
| system time | `sys/scheduler/x86/avalon.asm` 1687-2034 | ticks_count, tick_drift, ticks_per_irq, system_time_adjustment | the PIT interrupt, get/set_uuutime, drift correction, timer resolution |
| IRQ channels (Iridia) | `sys/interrupts/x86/iridia.asm`, `hardware/irq.asm` | a client ring per IRQ, the mask of the two PICs | irq.connect, irq.disconnect, soft_irq, int.set_handler |
| IRQ monitors | `hardware/irqmodule.c` | a set of monitored IRQs, a counter for each | monitor, unmonitor, sleep_until, reset, the handler |
| memory manager | `sys/memory_manager/x86/noblame.asm`, `lib/c/lib/alloc.c` | one bump pointer | allocate, allocate_bare, deallocate, reallocate, malloc, free, realloc |
| file descriptors | `lib/c/i386/kludges.c` | a table of 64 Python file objects | open, close, read, write, lseek, fstat |
| disk cache | `python_modules/disk_cache.py` | cached and dirty sectors, read and write mode | cache_disk, sync, void, disable, read, write |
| block devices | `python_modules/block_device.py` | a byte position per open file | read_bytes, write_bytes, the file interface |
| virtual filesystem | `python_modules/vfs.py` | the mount tree, the current directory | locate, open, mount, bind, chdir |
| RAM filesystem | `python_modules/ramfs.py` | directories of node lists, file contents | create, link, unlink, read, write |
| ext2 filesystem | `python_modules/ext2.py` | inodes, block lists, bitmaps, superblock | create, link, unlink, read, write, truncate, allocation |
| floppy driver | `python_modules/floppy.py` | current cylinder, motor, recalibration flag | read, write, seek, calibrate |
| ATA driver | `python_modules/ata.py` | drive and partition tables | identify, read |
| keyboard | `sys/bimage/x86/keyboard.asm`, `hardware/keyboard.pyx` | modifier state, the last scan code | the IRQ 1 handler, get_key |
| consoles | `python_modules/simpleconsole.py`, `snapconsole.py` | the text screen and cursor | puts, read |
| boot and glue | `sys/bimage/x86/test.asm`, `multiboot.pyx`, `init.py`, `uuu.py`, `shell.py`, `uuutime.py`, `iomodule.c`, `uuutimemodule.c` | - | boot, module tables, port I/O, shell commands |

The parts meet in a few places.  The PIT interrupt is a client of an IRQ
channel; Iridia's first-level handler calls `thread.enter_irq`, which switches to
an internal stack, runs the clients through `irq.soft_irq` and resumes the
highest-priority ready thread.  Timers, ready threads, thread pools and IRQ clients are all
nodes of rings.  Python code reaches interrupts through `irqmodule`, polls
devices through `iomodule`, and stores sectors through a disk cache that
shadows the methods of a device object.  A filesystem keeps its metadata in
sectors of a block device, cached or not.

What is hard about it: interrupts arrive inside nearly every procedure of the
kernel, which has hardly any critical sections; times are 64-bit numbers handled as two
words; errors are returned through tables of return addresses, where a wrong
stack is a wrong jump; and the drivers and the cache must survive a device
operation that fails half way.  `PROJECT.json` lists 40 such places at their lines.

What makes each part correct:

- ring queues: links agree in both directions, no node is in two rings, a node goes in where its
  value belongs, no member is lost, every walk ends;
- thread pools: a thread has one holder (it has not), every pool's bits and holders add up;
- scheduler: a thread is scheduled when someone asked for it, waits, is ready and is stopped in that order
  and by its own timers only, the highest ready thread runs, every due timer fires;
- system time: what is taken from a drift is added to the count, a positive drift is worked off
  completely and gently, a new resolution is not forgotten;
- IRQ channels and monitors: a connected client hears every interrupt, on both
  controllers; waiting for one returns after one and not before;
- disk cache: reads see the last write, a flush leaves memory and disk equal, a crash
  loses only what was not flushed;
- memory manager: blocks do not overlap, a call touches its own block only, and realloc
  keeps what it copies;
- file descriptors: a descriptor is a position in one open file, the table's limit is an error;
- block devices: a byte write changes those bytes and no others, even when the disk fails;
- virtual filesystem: what was bound or created is found under its path, and binding hides nothing;
- ext2: no block has two owners, at whatever write the power goes; no name belongs to a
  free inode; the counts are those of the bitmaps;
- floppy: the driver wakes for its own command, what is reported done is done, and every
  request ends;
- keyboard: a key that is pressed before the halt is not slept through.

## 2. Plan

Written, from the bottom of the kernel up, because everything rests on the rings:
RingQueue, ThreadPools, Avalon, DiskCache, PitClock, Iridia, IrqModule; then, towards the
user, NoBlame (memory), Ext2 (allocation, links, crashes), Floppy (a driver over
the IRQ module), Files (descriptors, block devices and files in memory), Vfs (names).

The compositions:

- Avalon uses rings as sequences, which RingQueue implements (Rings);
- IrqModule runs on Iridia and implements IrqSemaphore; Floppy sleeps on IrqSemaphore;
- Floppy implements LogicalDisk; DiskCache runs on a device that fails as LogicalDisk's may,
  and implements LogicalDisk again;
- Files makes sequences of bytes (ByteFiles) of the sectors of such a disk.

Left for later, in this order: the growth of ext2's directories and the contents of its files; ramfs
directories on their own (Vfs has them as far as lookups and creation go); the timeouts of the floppy
controller's registers; the keyboard's wait; the ATA driver.  Of theorems: what Ext2 keeps after a second
crash, which is less than OwnedOnce and CountsAgree (section 6).

## 3. Modules and the code

| module | what its state and steps are |
|---|---|
| `Rings` | a ring as a sequence: what the procedures of ring.asm promise, which across a carry into the high word of a time is less than their comments say |
| `RingQueue` | `next`, `previous` are the pointers, which `RingSeqs` maps to `Rings`, `key` the two words before a node; a call is a frame of registers of the thread or of the interrupt, and takes a step to load and check its neighbours, one for each node an ordered insertion passes, and one to write the links |
| `MCRingQueue` | its instance: three rings of different order |
| `ThreadPools` | the ring of pools, `bitmap` (a set bit is a free thread), and of each thread what acquire, schedule, the deadline and release look at; one step per procedure |
| `ThreadLives` | idle, waiting, ready, and who has been asked for: what the scheduler promises about a thread |
| `Avalon` | the ready and the timer ring as sequences, `priority` as stored by thread.schedule, `rank` as stored in the node; thread.schedule has no critical section, and takes one step per ring operation and one for the switch, between any of which the interrupt and other threads' calls may come; the PIT handler takes one step per timer it fires, one for the notifier's return and one for the exit |
| `PitClock` | `ticks_count`, `tick_drift`, the resolution, the PIT's divisor and the timer ring, in words of `Word` values; the handler is one step (interrupts are off in it), the procedures of threads one per word they read or write, with interrupts on between them |
| `Iridia` | the client rings as `next` pointers, the masks, the requests that wait at the controllers; irq.connect is one step (it is a critical section), irq.disconnect one for each access to shared state, irq.soft_irq one per client |
| `IrqSemaphore` | a count for each IRQ and a caller that waits for it |
| `IrqModule`, `MCIrqs` | irqmodule.c over Iridia: the interpreter is one of the threads, its handlers are clients; `irqflags[irq] -= 1` is a read and a write |
| `LogicalDisk` | sectors that are read and written at once, with failures that leave a part written, and crashes that forget what is not durable |
| `DiskCache` | `_cache` as a page or none for each sector, in each of the four write modes; `allows` is allow_read and allow_write; a flush takes a step for each sector |
| `NoBlame` | `frame` is memory_frame, `bytes` is memory; the five procedures of noblame.asm and malloc, calloc, realloc and free of alloc.c, one step each, in arithmetic modulo the word `W` |
| `Ext2`, `MCExt2` | `fs` is the FileSystem object: bitmaps, counts, cached inodes with their spare blocks; every call of `Write` in the code appends an image of the disk to `fs.images`, which `DiskWrite` takes one by one, and a crash may come before any of them |
| `Floppy` | the driver's request, phase and retries; the controller and the motor are its environment: a command ends at any time, with success only where the heads are on the right track |
| `ByteFiles` | files as sequences of bytes, descriptors as positions |
| `Files` | `memfs_fd` of kludges.c, the sectors of one device, `_data` of one ramfs node; each C call with the Python methods under it is a step |
| `Vfs`, `MCVfs` | `children` is `_children` of each node or the entries of a mounted directory; a bind, a mount, a creation and a change of directory are one step each, including the directories that a bind makes on its way |
| `RingQueue_proofs`, `Scheduler_proofs` (of ThreadPools and PitClock), `Avalon_proofs`, `Kernel_proofs` (of IrqModule and NoBlame), `DiskCache_proofs`, `Floppy_proofs`, `Files_proofs` (of Files and Vfs), `Ext2_proofs` | theorems |

Three abstractions carry the composition.  Avalon's rings are sequences and each ring
operation a single step: RingQueue shows that this is what ring.asm implements as long as a call
is not interrupted.  Avalon counts the time of a timer down (`due`), where the code compares 64-bit
times with a count: PitClock has the count and the comparison.  Two steps of two calls of thread.schedule may
alternate in Avalon, two accesses of two ring operations may not: RingQueue has a case where that breaks the rings (section 6).  Iridia has `next` only, since
RingQueue shows that `previous` agrees.  History variables are named as such where they are declared
(`owner`, `holders`, `channel`, `blocks`, `asked` and `heap_call` of NoBlame, `torn`, `lost` and `stale` of Ext2, `torn` of DiskCache, `mistaken` of Floppy, `put` of Vfs).

Definitions that no `Next` uses and that stand before the operator they resemble (`LoweredShort`,
`CorrectionAll`, `LocateFirst` and so on) are plausible slips of the code: PROJECT.json pairs each with the property that
notices it.

## 4. The runs

| run | question | bounds and why they are enough |
|---|---|---|
| RingQueue | do all sequences of uninterrupted calls on three rings of different order keep them sound, put each node where `Rings` says, and does each call return? | three members: a node with two distinct neighbours, ties and both ends occur; three times, of which two differ in the low word and one lies across a carry into the high word with a lower low word; two priorities |
| Pools | do free bits and holders add up, and is "no thread" only returned when all are held? | two pools of two threads: a full first pool, and the wrong bit of release in both positions |
| PoolsShared | does a thread have one holder? violated | one pool of three |
| Avalon | is the scheduler sound with interrupts and other threads' calls between any two steps of thread.schedule: rings, choice of thread, lives, timers; and what stops it? | two threads beside the kernel's two, of one priority before the init thread's, so that a caller readies one that goes before it; a start now or after an interrupt, deadlines before, with and after it, and none; two calls under way at once (`MaxCalls`), for the same thread or for two; a byte has four values |
| Cache | does a cache in the shadow, write-through and write-back modes, over a failing device, read as the disk it stands for, and does a shadow never reach the device? | three sectors and requests of two: a request is cached in full, in part, and not at all; a flush fails and stops at each place; the device fails any read or write, at any of its sectors, and may allow neither |
| Clock | is drift conserved and worked off, gently, and is no resolution forgotten, wherever the interrupt comes? | words of 4 values, with fractions of 2: the count carries into the high word and wraps at 16; a positive drift of two words and a negative one, of which the interrupt also finds the two mixtures; the rate has a fraction to cumulate; the new resolution does not fit the bits that the PIT is given; two timers in the ring |
| Irqs | is every connected client called, and does sleep_until return? | IRQs on both controllers and the cascade, two monitored IRQs, a client of another thread that joins either; counts up to 2 (`MaxFlag`: a device is quiet while its count is there) |
| Memory | are blocks apart and left alone, and does realloc copy? | words of 20 values, twelve bytes of memory: sizes that are no multiple of four, that fit thrice, and that round over the word; a product of calloc that overflows; requests of 20 bytes in all (`MaxAsked`), with which the frame wraps |
| Ext2 | has every block one owner and every name an inode, wherever the power goes? | two groups of four blocks, of which three are left to files, and of three inodes; one direct block and an index of two; two names, two opens, seven calls, one crash: a file that is unlinked while open, a block that changes its owner, a full disk |
| Floppy | does the driver wait for its own command, report what is so, behave as a disk, and end? | two cylinders of two heads with a sector each, requests of two (a change of head and of cylinder), two retries of each kind; commands end with the codes 0, 1 and 3 (3 stands for 2 as well: the driver overlooks both alike) |
| Files | are descriptors positions in sequences of bytes? | two sectors of two bytes, calls of two bytes: within a sector, across both, at either end and beyond; two descriptors, on either file, and an open without a slot |
| Vfs | is what was bound or created found, and is nothing hidden? | paths of two segments, one name; a device, an ext2, a read-only ext2 with a file, a ramfs, bound over each other up to three under a name |

Deadlock is not checked in Avalon (the system stops for good at a failed sanity check, and OnlyRacesLock says when), Irqs (a client that is connected twice makes the system jump through a wrong word,
and nothing is claimed after that), Memory (likewise after the error return of allocate_bare_zero, section 6), Ext2
and Vfs (the bounds on calls end them).

Each module has a type invariant, which the theorems use and the runs, which are kept for properties
that could be wrong, do not repeat.

Fairness, by the scheduling that gives it:

- RingQueue: a call that has begun goes on (weak): nothing waits in ring.asm.
- Avalon: the PIT interrupt is strongly fair, because the controller latches a request until interrupts are
  enabled again; the handler and a call that runs are weakly fair; the notifier of a thread
  returns after some calls (strong, as its calls come in between).  Nothing is asked of the threads.
- PitClock: the interrupt comes again and again (weak: the handler is always enabled).
- Irqs: requests that are not masked are delivered (strong, latched likewise), clients
  return (weak), and threads get to take their next step between interrupts (strong:
  the scheduler comes back to each, and devices leave time to run).
- Floppy: the driver or the controller goes on, and the motor spins up (both weak): the driver polls or
  sleeps for an interrupt, and the controller ends every command with one.  Nothing bounds the time of a command.

## 5. What is proved

All by TLAPS, for every value of the constants that satisfies the module's ASSUME and the condition named:

- `RingQueue_proofs`, assuming that calls are not interrupted (`~Preemptible`): TypeCorrect,
  RingsStaySound (links agree in both directions, no neighbour check fails), NodesStayApart,
  ReadyRingSorted.  The invariant `IInv` adds to these what the frame of the
  call in progress knows: the two nodes an insertion goes between are neighbours, those it has
  walked past are smaller, and the node to be removed still has the neighbours it had.  Without that,
  nothing can be said of the step that writes the links.
  RingsImplemented: every step of the pointers is a step of `Rings` or a stutter, also with times on both sides of a carry.
  What link_ordered_64 passes is less in both words, or equal in the high one and less in the low one, and so is less; what it stops at is
  not less, or is less with a low word that is not (`Carried`): that is what `Rings` promises, and no more.  `InOrder(R)` is its
  invariant: the sequences `R` have the members of the rings, each once, in the order of `next`, and the
  frame of an insertion is at a place of its sequence before which it has passed everything (`Between`).  There is
  one such `R` in every state, since the nodes are finitely many, and `RingSeqs` is that one.
- `Scheduler_proofs`, of ThreadPools, with releases and without any condition: TypeCorrect, CountIsConserved and ExhaustedIsHeld.  That a thread has
  one holder is false once a thread is given back (PoolsShared), and is not stated.  What is counted are pairs of a thread and one of its holders, so that a thread with two holders counts twice while the bit that
  release set in its place is free; the invariant `CountInv` adds that pools which are not in the ring yet have neither
  free threads nor holders, and that "no thread" is only said when all bitmaps are empty.
- `Avalon_proofs`, with interrupts between any two steps, any number of calls under way and no assumption about the callers:
  TypeCorrect; NodesLinkedOnce, since thread.schedule refuses what is linked and the interrupt takes out the node it fires; HighestRuns;
  OnlyRacesStop; and LivesImplemented.  The invariant has the types, the rings, that the kernel's threads stay ready, so that there is always
  one to load (`KernelReady`), and of the races: a deadline that is linked has its start linked, or a call that is about to link it (`DeadlineCovers`);
  calls of notifiers are under way only inside the interrupt (`NotifiersInside`); and an address that is no thread's
  was left by a call at its switch (`StrayAfterSwitch`).  RefusedIsLinked holds as long as no priority reaches
  the status byte; that is its only condition, and section 6 says what becomes of other priorities.
- `Scheduler_proofs`, of PitClock, without any condition on drifts, rates and resolutions: DriftIsConserved; DriftGoesGently, which speaks of every
  positive drift, however it was given and also half-written, but for one below a word whose low word would be
  negative as a signed number (`Sudden`: the interrupt takes it at once); NegativeDriftsLeap, what becomes of negative ones; and
  ResolutionIsProgrammed.  They rest on the types and on the arithmetic of two words.
- `Kernel_proofs`, of IrqModule, assuming that no call overlaps a disconnection and no one names the cascade's IRQ
  (`Careful`): ClientsNotMasked and ClientsCalled.  A ring of `next` pointers holds exactly the clients
  of its IRQ: there is an order of the clients that the pointers go down (`Ring`), and those that irq.soft_irq still has
  to call come behind the node it has reached (`OnTheWay`), whoever is put at the head meanwhile.  And, if each
  IRQ has a handler of its own, ModuleImplementsSemaphore.
- `Kernel_proofs`, of NoBlame: MemoryIsDivided, BlocksAreLeftAlone, ReallocCopies, as long as the sum of all requests
  is not above the end of memory (`Modest`, part of the properties).  The invariant: until then the frame is
  as far below the top as has been asked for, and every block is above the frame.
- `DiskCache_proofs`, for the modes 1 to 3 (`SoundModes`) over any device: CacheIsSound, FlushWritesAll and, with cached reads, CacheImplementsDisk: every step of the cache, flushes
  that fail and crashes included, is a step of LogicalDisk or a stutter.  The invariant adds that a
  flush in progress has written all dirty pages but the pending ones.  ShadowNeverFlushed needs no condition.
- `Floppy_proofs`, for any interrupt codes: SleepsThroughItsCommand, RequestsAreDone and FloppyIsADisk.  The last two excuse the
  request in which _check_st has overlooked an abnormal end (`mistaken`), and what it returned: no other request after it, and no sector that it did not name.
  `AwakeInv` says that the controller has a command only while the driver waits for
  it and that no interrupt is counted then; `DataInv` that the sectors done are in place.  That a write touches no other
  sector rests on ChsIsInjective: no two sectors have one position.
- `Files_proofs`, of Files, without any condition: TypesCorrect, ReadsAreTrue and FilesImplemented.  The types are the whole
  invariant, as long as they say that every sector has its size; the work is in the arithmetic of sectors and in what FlattenSeq
  makes of them: DeviceHolds says that byte `i` of sector `f` is byte `f * BlockSize + i` of the device, PaddedThere what the
  sectors around a write hold, and DeviceWritten what the device holds once any set of them is written.
- `Files_proofs`, of Vfs, without any condition: PutStaysFound and NothingIsHidden.  The invariant `VfsInv` says of `put` and of the current directory what StandsFor, the set of nodes behind a path,
  says; that the lookup in the code's order finds all of that set, and that a step can only add to it, is shown along
  the path.

- `Ext2_proofs`, if the last block and the last inode of every group belong to the file system itself (`Aligned`: the code gives
  back the last one of a group as the first of the next, section 6): NamesStayLive and TypesOfExt2, for any number of
  crashes.  A crash leaves the disk as it is, so that the invariant speaks of every image that is still to be written: in each a name
  leads to an inode in use (`NamesGood`), and in the last one an inode has no more names than its links in memory say, or
  in its table entry if it is not cached (`NamesKept`).  An inode is then only freed when no name is left.
- `Ext2_proofs`, under `Aligned` and for at most one crash (section 6 says what a second one does): OwnersAreUnique and
  CountsStayTrue.  That no block has two owners is not inductive: the invariant `OwnedInv` says instead that there are two
  functions, the owner of each block and its place with that owner, that the direct blocks, the index blocks and the spare
  blocks of every inode in memory or in the table agree with (`Owned`).  What a call does to one inode (allocate, put
  in place, truncate, free) changes the two functions for its blocks alone.  As each call saves an inode with its last write if at all, every
  image of the disk before that has the table the disk has now, and has owners of its own (`DiskImages`): this is
  where the order of the writes is needed.  An entry of the table whose inode is free has no blocks, but in `stale`.

Recursion along a path or a list of sectors is a function of an index in these modules.  What holds at 0 and goes from each index
to the next holds up to the end: the lemmas `Upwards` and `Recursion` say so of sets and of functions, from the least
counterexample, since the library's induction cannot be used.

Only model-checked: liveness everywhere (EveryCallReturns, TimersFire, DriftWorkedOff, Heard, SleepReturns, RequestEnds),
which is outside the proof system.  Every safety property of the runs is stated by a theorem, if under the conditions above.

## 6. Disagreements between code and documentation

By a run, with the lines in PROJECT.json: the bit that thread.release sets (PoolsShared).

The others are behaviours of the modules that no run of the table shows; the change of a cfg that does is given.

Kernel:

- link_ordered_64 compares the low words whatever the high ones, ring.asm:193, against its comment at line 154: a time may be put before an
  earlier one across a carry.  RingQueue with the invariant Ordered64 added violates it; `Rings` (`Carried`) says what remains true.
- An interrupt inside a thread's ring operation corrupts the ring: RingQueue with
  `Preemptible` TRUE violates NeverCorrupt.
- A deadline that fires before the start is linked ends in SANITYLOCK 5, avalon.asm:1593 and 917: thread.schedule (1533-1660) has no
  critical section and asks for none.  The run has such states; Avalon without `CHECK_DEADLOCK FALSE` stops at one.
- A thread that readies one that goes before it makes the switch in
  `__re_evaluate_execution_priority` use a popped return address as a thread, avalon.asm:1008, and the next interrupt ends in SANITYLOCK 90.  The run has such
  states too; with `Starts = {0}` and `Deadlines = {0}`, Avalon without `CHECK_DEADLOCK FALSE` stops at one.
- thread.schedule stores a dword over a byte, avalon.asm:1568, so that a priority of 65536 or more changes the
  thread's status: Avalon with `Priorities = {3, 22}` (22 has a bit in its third byte) and the invariant InUseIsLinked violates it; for lower ones it is proved (RefusedIsLinked).
- The time of a resolution's timer is stored twice in its high word, and never in its low one, avalon.asm:1860, and the timer is put at the
  head of the ring: it is due when the high word of the count reaches what the low one was, and holds back the timers behind it until then
  (the interrupt stops at the first that is not due).  Before that no new resolution is in use; ResolutionNotForgotten only says that it will be.
- A negative drift is corrected with the sign lost, avalon.asm:2027, though line 1759 calls drifts signed: each interrupt makes the count leap by nearly a word
  (NegativeDriftsLeap, proved).  The comparisons with the low word are signed ones as well, so that a drift that fits a word but not a signed one is taken at once.
  DriftIsProgressive excuses both (`Positive`, `Sudden`), and DriftWorkedOff the first.
- get_uuutime reads two words with interrupts enabled, avalon.asm:1698, as do its callers: across a carry the time that it gives, and that set_uuutime then
  sets, is off by the values of a word.  Clock with the property TimeIsSet added violates it.
- The PIT is given 15 bits of a resolution, avalon.asm:841, of which set_timer_resolution_ticks accepts 16, avalon.asm:1842, and all of which is
  counted at each interrupt: with `Resolutions = {3}` and words of four values the run has `divisor` 1 and `perIrq` 3.
- irq.disconnect reads and writes the mask around a check of the ring, iridia.asm:282, while a client may be connected (a
  client is to be called for every IRQ it is connected for, line 194): Iridia on its own with two threads, two clients, `Racing` TRUE,
  `SPECIFICATION Spec` violates NoDeafClient.
- Disconnecting the last client of IRQ 2 masks the cascade and with it the second controller, iridia.asm:298:
  Irqs with the cascade among `Users` violates NoDeafClient.
- The error return of irq.connect pops one word of two, iridia.asm:241: its caller never gets the error (ConnectTwice).
- An interrupt between the read and the write of `irqflags[irq] -= 1`, irqmodule.c:94, is lost; IrqSemaphore
  therefore lets a waiter take more than one.
- A request that does not fit lowers memory_frame before it is refused, noblame.asm:78; once the sum of requests passes the end of
  memory, the frame wraps and hands out what others have (Memory with `Modest` taken out of BlocksApart).  The error returns of
  allocate_bare_zero leave a word on the stack, noblame.asm:122.
- realloc copies the new size whatever the old one was, alloc.c:226, and to address 0 when there is no memory
  (the exception in OthersKept).

Drivers and filesystems:

- A write-through cache keeps what the device failed to write, disk_cache.py:121, as a clean page, until the page is dropped or written again: the exception
  (`torn`) in CleanMatchesDisk.  In mode 0 with cached reads, writes do not reach the cached pages (Cache with `Modes = {0}` violates ImplementsDisk).
- The two bits of the floppy's interrupt code are compared with 0x10 and 0x11, floppy.py:343: a drive that was not ready
  passes for success, and so do invalid commands.  The run has such endings, and the requests they befall are the exception (`mistaken`) in DoneIsDone and ImplementsDisk.  The comment of line 292, a calibration at every other attempt, is not what the loop does.
- The last block of a group of ext2 is freed as the first bit of the next group, ext2.py:1236: Ext2 with
  `Fixed = {1, 2, 7, 8}` violates FreedIsFree.
- After a crash, ext2 may find counts that are not those of the bitmaps (`torn`), an inode with fewer links than names (`lost`)
  and a free inode with blocks (`stale`); s_state never says that the disk is to be checked.  These are the exceptions of the three
  properties, and no test or text promises otherwise.  A second crash makes more of the last: a file is made in the inode that
  the first crash left free with blocks, and create does not save the inode (ext2.py:716); if the power goes before something
  else does, the name leads to the entry of the earlier life, with blocks that are free or another's.  With `MaxCrashes = 2`
  OwnedOnce and CountsAgree are violated.
- write() on a device returns -1 although all was written, since block_device.py:107 returns None; O_APPEND is ignored by
  files in memory; an open with O_TRUNC that finds no slot has truncated all the same (OpenFails of ByteFiles allows it); the
  65th open reads the byte behind the table first, kludges.c:304 (with `Behind` FALSE it would go on to use that slot, and is no step of the model).
- Creation under a device, whose method returns None, raises an AttributeError in open (vfs.py:223 and 242); "/" is not
  found until something is bound; a creation is refused where only directories of the root come into question, though the docstring of
  locate_nodes promises one when all nodes but the last are found (vfs.py:200); which of the nodes under a name open() takes changes when
  something is bound in front of it.

## 7. What is not modelled

- ATA driver: it polls registers and scans a partition table; it keeps no state that a property could be about.
- Keyboard: one byte of a buffer and a table of scan codes.
- Consoles: screen output.
- Boot, shell and glue: start-up in one thread, function tables, port access, commands.
- Vendored code: dietlibc (but for kludges.c and alloc.c, which are the system's own ends of it), Python's headers, SNAP, gatest and the
  documentation tools.  It is the greater part of the repository's lines, and the reason why the share of lines that the
  modules cover is small.

Left out of the modelled parts: the interrupt table of Iridia (written at boot, by one thread), IRQ numbers above 15 in
irqmodule.c, threads' registers and stacks, `uuu.reboot` (whose loop over the disks ends at the first that fails, uuu.py:8), set_timer_resolution in
microseconds, the magic-number checks that callers always pass; of ext2 the contents of files and directories; of the floppy the
reset and the timeouts of registers; of descriptors fstat, llseek, the console's three and closes that fail (kludges.c:263: such a descriptor is
lost); of the virtual filesystem what an open file does (Files) and unlinking, which no path reaches.
