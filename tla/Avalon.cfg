CONSTANTS
  Users = {t1, t2}
  Init_ = init
  Idle_ = idle
  Irq = irqctx
  None = none
  Wild = wild
  Byte = 4
  Word = 3
  TicksPerIrq = 2
  Priorities = {3}
  Starts = {0, 2}
  Deadlines = {0, 1, 3}
  MaxCalls = 2
SPECIFICATION FairSpec
INVARIANTS LinkedOnce RunsHighest
PROPERTIES ImplementsLives OnlyRacesLock TimersFire
CHECK_DEADLOCK FALSE
