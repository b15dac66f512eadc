------------------------------ MODULE MCMojoOs ------------------------------
(* Small instances of MojoOs for TLC. *)
EXTENDS MojoOs

(* Files of one header, one size and six data bytes, the last two padding. *)
(* The data of a "short" one end before the first fill of aBuffer does.    *)
MCDataLen == [f \in File |-> IF f = "short" THEN 2 ELSE 6]

NoBudget ==
  [cmd |-> 0, file |-> 0, baud |-> 0, reset |-> 0, drop |-> 0, fault |-> 0]

(* Commands and files, no disturbance. *)
LoadBudget == [NoBudget EXCEPT !.cmd = 2, !.file = 1, !.fault = 1]

(* Magic baud rates, resets, suspends and bus resets around one command     *)
(* and one file.                                                            *)
FaultBudget ==
  [NoBudget EXCEPT !.cmd = 1, !.file = 1, !.baud = 1, !.reset = 1, !.drop = 1]

(* One command, one file and a bus event. *)
PhantomBudget == [NoBudget EXCEPT !.cmd = 1, !.file = 1, !.drop = 1]

=============================================================================
