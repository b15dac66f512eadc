----------------------------- MODULE MCAppLoop -----------------------------
(* Small instances of AppLoop for TLC. *)
EXTENDS AppLoop

(* One packet of each kind; 1 and 2 are data, addresses and lengths. *)
KnownPackets == {<<SdrWr, 1, 1, 2>>, <<DdrWr, 1, 2, 1>>, <<SdrRd, 2, 1, 2>>,
                 <<DdrRd, 1>>, <<Hash, DdrRd>>}
AllPackets == KnownPackets \cup {<<Hash, 1>>, <<9, 2>>, <<SdrWr, 0>>}

(* An unknown packet whose payload looks like a DDR-RD packet. *)
UnknownPackets == {<<9, 1, DdrRd, 1>>}

QuietBudget == [packet |-> 3, lost |-> 0, drop |-> 0]
BusBudget == [packet |-> 2, lost |-> 1, drop |-> 1]
=============================================================================
