---------------------------- MODULE MCInterrupts ----------------------------
(* Two devices and a timer of four values. *)
EXTENDS Interrupts

CONSTANT VI
=============================================================================
