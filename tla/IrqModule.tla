----------------------------- MODULE IrqModule -----------------------------
(***************************************************************************)
(* The Python module `irq` (hardware/irqmodule.c) on top of the interrupt  *)
(* channels: each IRQ that Python monitors has a client that counts, and   *)
(* sleep_until polls the count.  Python runs in one of the threads; other  *)
(* threads connect and disconnect clients of their own meanwhile.          *)
(***************************************************************************)
EXTENDS Iridia

CONSTANTS
  Python,   \* the thread of the interpreter
  Handler,  \* for each IRQ that Python names, its handler
  MaxFlag   \* (bound) interrupts counted and not yet taken

Monitorable == DOMAIN Handler
Handlers == {Handler[irq] : irq \in Monitorable}

Procedures ==
  [at : {"hook", "unhook", "poll", "take"}, irq : Monitorable]
    \cup [at : {"store"}, irq : Monitorable, value : Nat]

ASSUME IrqModuleAssumption ==
  /\ Python \in Threads
  /\ NoCall \notin Procedures
  /\ Monitorable \subseteq Users /\ Handlers \subseteq Clients
  /\ MaxFlag \in Nat

VARIABLES
  monitored,  \* monitoredflag
  irqflags,
  python      \* the procedure the interpreter is in, NoCall between calls

moduleVars == <<monitored, irqflags, python>>
allVars == <<vars, moduleVars>>

ModuleInit ==
  /\ Init
  /\ monitored = {}
  /\ irqflags = [irq \in Monitorable |-> 0]
  /\ python = NoCall

Idle == python = NoCall /\ call[Python] = NoCall /\ walk = NoCall /\ ~Lost
In(label) == python # NoCall /\ walk = NoCall /\ ~Lost /\ python.at = label
Goes(label, irq) == python' = [at |-> label, irq |-> irq]

-----------------------------------------------------------------------------

(* monitor: the flag, then the client; a ValueError changes nothing.       *)
Monitor(irq) ==
  /\ Idle
  /\ irq \notin monitored
  /\ monitored' = monitored \cup {irq}
  /\ Goes("hook", irq)
  /\ UNCHANGED <<vars, irqflags>>
Hook ==
  /\ In("hook")
  /\ Connect(Python, python.irq, Handler[python.irq])
  /\ python' = NoCall
  /\ UNCHANGED <<monitored, irqflags>>

(* unmonitor: the flag, then the client.                                   *)
Unmonitor(irq) ==
  /\ Idle
  /\ irq \in monitored
  /\ monitored' = monitored \ {irq}
  /\ Goes("unhook", irq)
  /\ UNCHANGED <<vars, irqflags>>
Unhook ==
  /\ In("unhook")
  /\ Disconnect(Python, python.irq, Handler[python.irq])
  /\ python' = NoCall
  /\ UNCHANGED <<monitored, irqflags>>

(* sleep_until: refused unless the IRQ is monitored; the loop ends when the*)
(* count, which is volatile, is not 0; it is then read, and written back   *)
(* one less.                                                               *)
SleepUntil(irq) ==
  /\ Idle
  /\ irq \in monitored
  /\ Goes("poll", irq)
  /\ UNCHANGED <<vars, monitored, irqflags>>
Poll ==
  /\ In("poll")
  /\ irqflags[python.irq] # 0
  /\ Goes("take", python.irq)
  /\ UNCHANGED <<vars, monitored, irqflags>>
Take ==
  /\ In("take")
  /\ python' = [at |-> "store", irq |-> python.irq, value |-> irqflags[python.irq] - 1]
  /\ UNCHANGED <<vars, monitored, irqflags>>
Store ==
  /\ In("store")
  /\ irqflags' = [irqflags EXCEPT ![python.irq] = python.value]
  /\ python' = NoCall
  /\ UNCHANGED <<vars, monitored>>

(* reset                                                                   *)
Reset(irq) ==
  /\ Idle
  /\ irqflags' = [irqflags EXCEPT ![irq] = 0]
  /\ UNCHANGED <<vars, monitored, python>>

(* A handler that counts for all IRQs.                                     *)
CountedForAll(c) == [irq \in Monitorable |-> irqflags[irq] + 1]

(* irq_module_handler, in the walk of irq.soft_irq.                        *)
Counted(c) ==
  [irq \in Monitorable |-> IF Handler[irq] = c THEN irqflags[irq] + 1 ELSE irqflags[irq]]

CallAndCount ==
  /\ CallClient
  /\ irqflags' = Counted(next[walk.at])
  /\ UNCHANGED <<monitored, python>>

(* A device is quiet while its count is at the bound.                      *)
Uncounted(irq) == IF walk # NoCall /\ walk.irq = irq THEN 1 ELSE 0
InBound(irq) == irq \in Monitorable => irqflags[irq] + Uncounted(irq) < MaxFlag

(* What goes on besides.                                                   *)
Others ==
  /\ \/ \E t \in Threads \ {Python}, irq \in Users, c \in Clients \ Handlers :
          Connect(t, irq, c) \/ ConnectTwice(t, irq, c) \/ Disconnect(t, irq, c)
     \/ \E t \in Threads : CheckRing(t) \/ ReadMask(t) \/ WriteMask(t)
     \/ \E irq \in Irqs : Raise(irq) /\ InBound(irq)
     \/ \E irq \in Irqs : Interrupt(irq)
     \/ \E irq \in Users, c \in Clients \ Handlers : HandlerConnects(irq, c)
     \/ Cycled
  /\ UNCHANGED moduleVars

ModuleNext ==
  \/ \E irq \in Monitorable : Monitor(irq) \/ Unmonitor(irq) \/ SleepUntil(irq) \/ Reset(irq)
  \/ Hook \/ Unhook \/ Poll \/ Take \/ Store
  \/ CallAndCount
  \/ Others

ModuleSpec == ModuleInit /\ [][ModuleNext]_allVars

(* Clients return, a PIC that again and again has a request that is not    *)
(* masked delivers it, and the threads, the interpreter's too, get to go on*)
(* between the interrupts: the scheduler's queue returns to each of them,  *)
(* and interrupts leave time to run.                                       *)
ModuleFair ==
  /\ ModuleSpec
  /\ \A t \in Threads : SF_allVars((CheckRing(t) \/ ReadMask(t) \/ WriteMask(t)) /\ UNCHANGED moduleVars)
  /\ \A irq \in Irqs : SF_allVars(Interrupt(irq) /\ UNCHANGED moduleVars)
  /\ WF_allVars(CallAndCount) /\ WF_allVars(Cycled /\ UNCHANGED moduleVars)
  /\ SF_allVars(Hook \/ Unhook \/ Take \/ Store) /\ SF_allVars(Poll)

-----------------------------------------------------------------------------

(* Flags and counts are those of the IRQs that Python names.               *)
ModuleTypeOK ==
  /\ TypeOK
  /\ monitored \subseteq Monitorable
  /\ irqflags \in [Monitorable -> 0 .. MaxFlag]
  /\ python \in {NoCall} \cup Procedures

(* Between calls the flags say which handlers are in the rings.            *)
MonitoredIsConnected ==
  (python = NoCall /\ call[Python] = NoCall) =>
    \A irq \in Monitorable : irq \in monitored <=> channel[Handler[irq]] = irq

Sleeping(irq) == python # NoCall /\ python.irq = irq /\ python.at \in {"poll", "take", "store"}

Semaphore == INSTANCE IrqSemaphore WITH
  Irqs <- Monitorable,
  None <- NoCall,
  count <- irqflags,
  waiting <- IF \E irq \in Monitorable : Sleeping(irq) THEN python.irq ELSE NoCall

(* Every interrupt of a monitored IRQ is counted once, whenever it comes,  *)
(* and sleep_until returns for none that did not come: it takes at least   *)
(* one from the count.                                                     *)
ImplementsSemaphore == Semaphore!Spec

(* sleep_until returns when its IRQ is requested, whatever other threads   *)
(* connect and disconnect, unless the system is lost.                      *)
SleepReturns ==
  \A irq \in Monitorable : (Sleeping(irq) /\ irq \in requested) ~> (Lost \/ ~Sleeping(irq))
=============================================================================
