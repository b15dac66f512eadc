--------------------------- MODULE PacketProtocol ---------------------------
(***************************************************************************)
(* What the application loop promises a host, as long as the bus is quiet. *)
(* The bytes that arrive are packets <ID> <Length> [payload].  The header  *)
(* is echoed; then each of the Length words takes two bus cycles:          *)
(*                                                                         *)
(*    SDR-WR   a byte is the address, the next one is written there        *)
(*    DDR-WR   every byte is written                                       *)
(*    SDR-RD   a byte is the address, then the register's value goes back  *)
(*    DDR-RD   a value goes back in every cycle, nothing is taken          *)
(*                                                                         *)
(* #R ends the loop and drops what has arrived after it.  Of a packet with *)
(* any other ID only this much is promised, that it moves nothing; the     *)
(* README has it ignored, the code does something else (see Unknown).      *)
(* After a suspend, or an answer nobody took in time, nothing is promised. *)
(***************************************************************************)
EXTENDS Naturals, Sequences

CONSTANTS Data, SdrWr, DdrWr, SdrRd, DdrRd, Hash, Reconfigure

VARIABLES
  queue,     (* bytes that arrived and are not used yet              *)
  kind, due, (* ID of the packet at hand, bus cycles it still asks for *)
  address,   (* what the logic in the FPGA takes for the address     *)
  written,   (* all it was told to write                             *)
  answers,   (* all the host got back                                *)
  quiet      (* no suspend and no lost answer so far                 *)

pvars == <<queue, kind, due, address, written, answers>>

Transfers == {SdrWr, DdrWr, SdrRd, DdrRd}

Init ==
  /\ queue = <<>> /\ kind = Hash /\ due = 0
  /\ address = 0 /\ written = <<>> /\ answers = <<>> /\ quiet = TRUE

Arrive ==
  /\ queue' \in Seq(Data) /\ Len(queue') >= Len(queue)
  /\ SubSeq(queue', 1, Len(queue)) = queue
  /\ UNCHANGED <<kind, due, address, written, answers>>

Echo == <<<<"echo", queue[1]>>, <<"echo", queue[2]>>>>

IsReconfigure == queue[1] = Hash /\ queue[2] = Reconfigure

Header ==
  /\ due = 0 /\ Len(queue) >= 2 /\ queue[1] \in Transfers
  /\ answers' = answers \o Echo
  /\ due' = 2 * queue[2]
  /\ kind' = IF due' > 0 THEN queue[1] ELSE Hash
  /\ queue' = SubSeq(queue, 3, Len(queue))
  /\ UNCHANGED <<address, written>>

(* A packet with another ID.  Whether its header is echoed, and how many   *)
(* of the bytes that have arrived behind it are its own, is left open.     *)
Unknown ==
  /\ due = 0 /\ Len(queue) >= 2 /\ queue[1] \notin Transfers /\ ~IsReconfigure
  /\ answers' \in {answers, answers \o Echo}
  /\ \E k \in 3 .. Len(queue) + 1 : queue' = SubSeq(queue, k, Len(queue))
  /\ UNCHANGED <<kind, due, address, written>>

(* The firmware goes back to the command line; the FPGA is emptied and     *)
(* gets a new design before the loop starts again.                         *)
Return ==
  /\ due = 0 /\ Len(queue) >= 2 /\ IsReconfigure
  /\ answers' = answers \o Echo
  /\ queue' = <<>> /\ address' = 0
  /\ UNCHANGED <<kind, due, written>>

(* One bus cycle. *)
First == due % 2 = 0
Cycle == due > 0 /\ due' = due - 1 /\ kind' = IF due = 1 THEN Hash ELSE kind

SetAddress ==
  /\ kind \in {SdrWr, SdrRd} /\ First /\ queue # <<>>
  /\ Cycle
  /\ address' = Head(queue) /\ queue' = Tail(queue)
  /\ UNCHANGED <<written, answers>>

Write ==
  /\ (kind = SdrWr /\ ~First) \/ kind = DdrWr
  /\ queue # <<>>
  /\ Cycle
  /\ written' = Append(written, IF kind = SdrWr THEN <<address, Head(queue)>>
                                                ELSE <<Head(queue)>>)
  /\ queue' = Tail(queue)
  /\ UNCHANGED <<address, answers>>

Read ==
  /\ (kind = SdrRd /\ ~First) \/ kind = DdrRd
  /\ Cycle
  /\ answers' = Append(answers, <<"register", address>>)
  /\ UNCHANGED <<queue, address, written>>

Next == Arrive \/ Header \/ Unknown \/ Return \/ SetAddress \/ Write \/ Read

Spec == Init /\ [][quiet' => quiet /\ [Next]_pvars]_<<pvars, quiet>>
=============================================================================
