------------------------------- MODULE MCIrqs -------------------------------
(* IrqModule for TLC: Python monitors the floppy's IRQ and one of the      *)
(* slave PIC.                                                              *)
EXTENDS IrqModule, TLC

CONSTANTS irq6, irq9, floppy, slow

MCHandler == (irq6 :> floppy) @@ (irq9 :> slow)
=============================================================================
