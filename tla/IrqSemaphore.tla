---------------------------- MODULE IrqSemaphore ----------------------------
(***************************************************************************)
(* What the Python module `irq` promises a driver: a count for each IRQ    *)
(* that rises with every interrupt, and a caller that waits until there is *)
(* one and takes it.  The caller may take more than one: the interrupts    *)
(* that come while it writes the count back are lost.                      *)
(***************************************************************************)
EXTENDS Naturals

CONSTANTS Irqs, None
VARIABLES count, waiting
vars == <<count, waiting>>

Init == count = [irq \in Irqs |-> 0] /\ waiting = None

Signal(irq) == count' = [count EXCEPT ![irq] = @ + 1] /\ UNCHANGED waiting

BeginWait(irq) == waiting = None /\ waiting' = irq /\ UNCHANGED count
Wait(irq) ==
  /\ waiting = irq
  /\ count[irq] > 0
  /\ \E left \in 0 .. count[irq] - 1 : count' = [count EXCEPT ![irq] = left]
  /\ waiting' = None

Reset(irq) == waiting = None /\ count' = [count EXCEPT ![irq] = 0] /\ UNCHANGED waiting

Next == \E irq \in Irqs : Signal(irq) \/ BeginWait(irq) \/ Wait(irq) \/ Reset(irq)

Spec == Init /\ [][Next]_vars
=============================================================================
