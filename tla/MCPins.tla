------------------------------- MODULE MCPins -------------------------------
(* The instance of Pins for TLC. *)
EXTENDS Pins

Bytes == 0 .. 3
Bounds == [baud |-> 2, restart |-> 2, power |-> 1]
=============================================================================
