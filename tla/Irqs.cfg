CONSTANTS
  irq6 = irq6
  irq9 = irq9
  floppy = floppy
  slow = slow
  Irqs = {cascade, irq6, irq9}
  Slave = {irq9}
  Cascade = cascade
  Clients = {floppy, slow, c1}
  Threads = {python, t1}
  Python = python
  Users = {irq6, irq9}
  Racing = FALSE
  Handler <- MCHandler
  MaxFlag = 2
  NoCall = nocall
  Wild = wild
SPECIFICATION ModuleFair
INVARIANTS NoDeafClient
PROPERTIES EveryClientCalled Heard ImplementsSemaphore SleepReturns
CHECK_DEADLOCK FALSE
