----------------------------- MODULE MCSpiFlash -----------------------------
(* Instances of SpiFlash: a chip of a few cells. *)
EXTENDS SpiFlash

MCByte == {"FF", "XX", "BF", "a"}
Resets == [mcu |-> 1, power |-> 1]

=============================================================================
