---------------------------- MODULE MCInterrupts ----------------------------
(* Interrupts with LK's two vectors and two of NS, one behind the PIC.     *)
EXTENDS Interrupts
=============================================================================
