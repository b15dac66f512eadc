---------------------------- MODULE MCUsbDevice ----------------------------
(* Small instances of UsbDevice for TLC. *)
EXTENDS UsbDevice

AllRequests == Standard \cup Class \cup {Unknown}

(* A device the host has enumerated: a state Spec reaches with a bus reset *)
(* and the requests SetAddress, Configure and SetLineEncoding.             *)
Enumerated ==
  /\ main = [pc |-> "loop", ep |-> 0, prev |-> 0] /\ frames = <<>>
  /\ sel = 0 /\ request = "SetLineEncoding"
  /\ state = "Configured" /\ config = 1 /\ baud = TRUE /\ addressed = TRUE
  /\ ep0 = EmptyEp0(TRUE) /\ open = TRUE /\ suspInt = TRUE /\ wakeInt = FALSE
  /\ bus = "on" /\ disturbed = TRUE
  /\ host = [NobodyThere("idle", 1) EXCEPT !.addressed = TRUE]
  /\ left = Budget

MCSpec ==
  (Init \/ Enumerated) /\ [][Next]_vars /\ WF_vars(Cpu) /\ WF_vars(HostGoesOn)

QuietBudget == [request |-> 2, suspend |-> 1, reset |-> 1, unplug |-> 0,
                resetMidway |-> 0, unplugMidway |-> 1, eager |-> 0, late |-> 1]
ResetBudget == [QuietBudget EXCEPT !.resetMidway = 1, !.unplug = 0, !.unplugMidway = 0]
=============================================================================
