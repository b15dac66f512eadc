------------------------------ MODULE AppLoop ------------------------------
(***************************************************************************)
(* applicationLoop: bytes go from the endpoint through the ring buffer to  *)
(* the packet parser, which drives the bytewide interface (UCIF) of the    *)
(* logic in the FPGA pin by pin and answers the host.                      *)
(*                                                                         *)
(* An iteration of the loop is: take bytes (pc "rx", "insert"), one round  *)
(* of the switch ("switch", "dispatch", "loop"), where todo holds the port *)
(* operations and SendByte calls the code still has to do in this round,   *)
(* one after the other.  The logic in the FPGA (ucif.v) follows each edge  *)
(* before the next AVR instruction changes a pin: 60 ns at 50 MHz.         *)
(***************************************************************************)
EXTENDS RingBuffer

CONSTANTS
  SdrWr, DdrWr, SdrRd, DdrRd,  (* 'w', 'W', 'r', 'R' *)
  Hash,                        (* '#' *)
  Phantom,                     (* 0xFF, a -1 of ReceiveByte *)
  Float,                       (* what a bus nobody drives is read as *)
  EpSize,                      (* CDC_TXRX_EPSIZE *)
  Packet,                      (* the packets a host may send *)
  Budget                       (* bounds: packet of packets sent, lost of
                                  SendByte calls that time out, drop of
                                  suspends *)

ASSUME CodeAssumption ==
  /\ Data \subseteq Nat
  /\ {SdrWr, DdrWr, SdrRd, DdrRd, Hash, Phantom} \subseteq Data
  /\ SdrWr \notin {DdrWr, SdrRd, DdrRd, Hash} /\ DdrWr \notin {SdrRd, DdrRd, Hash}
  /\ SdrRd \notin {DdrRd, Hash} /\ DdrRd # Hash
  /\ Float \in Nat /\ EpSize \in Nat \ {0}
  /\ Packet \subseteq Seq(Data)
  /\ Budget \in [packet : Nat, lost : Nat, drop : Nat]

VARIABLES
  mode,                     (* "main" (and the CLI), "app" *)
  pc, todo,                 (* place in the iteration, port operations left *)
  inBuffer, id, size, appState,
  n,                        (* count of the insert loop, ready of the others *)
  e, rw, ddr, dir, port,    (* UCIF pins, DDRB and PORTB *)
  on, address, written,     (* FPGA configured; ucif.v; all it has written *)
  usb, ep, answers,         (* the bus, the OUT bank, all bytes sent back *)
  hostQ, left               (* what the host still has to send; Budget left *)

cpuVars  == <<mode, pc, inBuffer, id, size, appState, n>>
pinVars  == <<e, rw, ddr, dir, port>>
fpgaVars == <<on, address, written>>
usbVars  == <<usb, ep, answers>>
hostVars == <<hostQ, left>>
vars == <<mode, pc, todo, inBuffer, id, size, appState, n, e, rw, ddr, dir, port,
          on, address, written, usb, ep, answers, hostQ, left>>

-----------------------------------------------------------------------------
(* The sequences of port operations.                                       *)

BaseInit  == <<"rw0", "zero", "drive", "e0", "sdr">>     (* ucifBaseInit *)
Echoes    == <<"id", "size">>
WriteSetup == <<"rw0", "drive">>
WriteUnit == <<"data", "e1", "data", "e0">>
SdrReadInputEarly ==                            (* mutant of SdrReadUnit *)
  <<"rw0", "drive", "data", "input", "e1", "rw1", "e0", "read">>
SdrReadRwEarly ==                               (* mutant of SdrReadUnit *)
  <<"rw0", "drive", "data", "e1", "rw1", "input", "e0", "read">>
SdrReadRwLate ==                                (* mutant of SdrReadUnit *)
  <<"rw0", "drive", "data", "e1", "input", "e0", "rw1", "read">>
SdrReadUnit == <<"rw0", "drive", "data", "e1", "input", "rw1", "e0", "read">>
DdrReadSetup == <<"input", "rw1">>
DdrReadUnit == <<"read", "e1", "read", "e0">>

Writing == appState \in {"SDR_WR", "DDR_WR"}
Reading == appState \in {"SDR_RD", "DDR_RD"}

(* CDC_Device_BytesReceived and CDC_Device_ReceiveByte *)
BytesReceived == IF usb = "on" THEN Len(ep) ELSE 0
ReceivedByte == IF usb = "on" /\ ep # <<>> THEN Head(ep) ELSE Phantom
AfterReceive == IF usb = "on" /\ ep # <<>> THEN Tail(ep) ELSE ep

Least(a, b) == IF a > b THEN b ELSE a

-----------------------------------------------------------------------------
(* main has found DONE high: applicationLoop starts with fresh locals.     *)
Enter ==
  /\ mode = "main" /\ on /\ dir = "in"
  /\ mode' = "app" /\ pc' = "rx" /\ todo' = BaseInit
  /\ inBuffer' = InitBuffer(inBuffer.data)
  /\ id' = 0 /\ size' = 0 /\ appState' = "ID" /\ n' = 0
  /\ UNCHANGED pinVars /\ UNCHANGED fpgaVars /\ UNCHANGED usbVars
  /\ UNCHANGED hostVars

At(place) == mode = "app" /\ todo = <<>> /\ pc = place

Receive ==
  /\ At("rx")
  /\ n' = Least(GetFreeCount(inBuffer), BytesReceived)
  /\ pc' = IF n' = 0 THEN "switch" ELSE "insert"
  /\ UNCHANGED <<mode, todo, inBuffer, id, size, appState>>
  /\ UNCHANGED pinVars /\ UNCHANGED fpgaVars /\ UNCHANGED usbVars
  /\ UNCHANGED hostVars

InsertByte ==
  /\ At("insert")
  /\ inBuffer' = Insert(inBuffer, ReceivedByte)
  /\ ep' = AfterReceive
  /\ n' = n - 1
  /\ pc' = IF n = 1 THEN "switch" ELSE "insert"
  /\ UNCHANGED <<mode, todo, id, size, appState, usb, answers>>
  /\ UNCHANGED pinVars /\ UNCHANGED fpgaVars /\ UNCHANGED hostVars

PacketId ==
  /\ At("switch") /\ appState = "ID"
  /\ pc' = "rx"
  /\ IF GetCount(inBuffer) > 0
     THEN /\ id' = Peek(inBuffer) /\ inBuffer' = Remove(inBuffer)
          /\ appState' = "SIZE"
     ELSE UNCHANGED <<id, inBuffer, appState>>
  /\ UNCHANGED <<mode, todo, size, n>>
  /\ UNCHANGED pinVars /\ UNCHANGED fpgaVars /\ UNCHANGED usbVars
  /\ UNCHANGED hostVars

PacketSize ==
  /\ At("switch") /\ appState = "SIZE"
  /\ IF GetCount(inBuffer) > 0
     THEN /\ size' = Peek(inBuffer) /\ inBuffer' = Remove(inBuffer)
          /\ todo' = Echoes /\ pc' = "dispatch"
     ELSE pc' = "rx" /\ UNCHANGED <<size, inBuffer, todo>>
  /\ UNCHANGED <<mode, id, appState, n>>
  /\ UNCHANGED pinVars /\ UNCHANGED fpgaVars /\ UNCHANGED usbVars
  /\ UNCHANGED hostVars

(* switch(id), but for the packet #R *)
IsReconfigure == id = Hash /\ size = DdrRd

Dispatch ==
  /\ At("dispatch") /\ ~IsReconfigure
  /\ appState' = CASE id = SdrWr -> "SDR_WR" [] id = DdrWr -> "DDR_WR"
                   [] id = SdrRd -> "SDR_RD" [] id = DdrRd -> "DDR_RD"
                   [] OTHER -> "ID"
  /\ ddr' = CASE id \in {SdrWr, SdrRd} -> 0 [] id \in {DdrWr, DdrRd} -> 1
              [] OTHER -> ddr
  /\ pc' = "rx"
  /\ UNCHANGED <<mode, todo, inBuffer, id, size, n, e, rw, dir, port>>
  /\ UNCHANGED fpgaVars /\ UNCHANGED usbVars /\ UNCHANGED hostVars

(* #R: XilinxReset empties the FPGA and lets go of the data lines.         *)
Return ==
  /\ At("dispatch") /\ IsReconfigure
  /\ mode' = "main" /\ on' = FALSE /\ address' = 0 /\ dir' = "in"
  /\ UNCHANGED <<pc, todo, inBuffer, id, size, appState, n, e, rw, ddr, port>>
  /\ UNCHANGED written /\ UNCHANGED usbVars /\ UNCHANGED hostVars

(* The head of the cases of the transfers, before their while loops.       *)
StartTransfer ==
  /\ At("switch") /\ (Writing \/ Reading)
  /\ n' = GetCount(inBuffer)
  /\ todo' = CASE Writing -> WriteSetup
               [] appState = "SDR_RD" -> <<>>
               [] appState = "DDR_RD" -> DdrReadSetup
  /\ pc' = "loop"
  /\ UNCHANGED <<mode, inBuffer, id, size, appState>>
  /\ UNCHANGED pinVars /\ UNCHANGED fpgaVars /\ UNCHANGED usbVars
  /\ UNCHANGED hostVars

ReadyAtZero == Writing => n > 1                             (* mutant of Ready *)
ReadyThird ==                                               (* mutant of Ready *)
  size > 0 /\ (Writing => n > 2) /\ (appState = "SDR_RD" => n > 0)

(* The conditions of the while loops; one word, or byte, more or the end.  *)
Ready ==
  /\ size > 0
  /\ Writing => n > 1
  /\ appState = "SDR_RD" => n > 0

Unit == CASE Writing -> WriteUnit [] appState = "SDR_RD" -> SdrReadUnit
          [] appState = "DDR_RD" -> DdrReadUnit

NextUnit ==
  /\ At("loop")
  /\ IF Ready
     THEN todo' = Unit /\ UNCHANGED <<pc, appState>>
     ELSE /\ pc' = "rx" /\ UNCHANGED todo
          /\ appState' = IF size = 0 THEN "ID" ELSE appState
  /\ UNCHANGED <<mode, inBuffer, id, size, n>>
  /\ UNCHANGED pinVars /\ UNCHANGED fpgaVars /\ UNCHANGED usbVars
  /\ UNCHANGED hostVars

-----------------------------------------------------------------------------
(* Port operations                                                         *)

(* What the logic in the FPGA sees on its data pins. *)
Bus == IF dir = "out" THEN port ELSE Float

(* ucif.v: an edge on E while RW is 0 takes the address or writes. *)
Edge(rising) ==
  IF ~on \/ rw = 1 \/ e = (IF rising THEN 1 ELSE 0)
  THEN UNCHANGED <<address, written>>
  ELSE IF ddr = 0 /\ rising
       THEN address' = Bus /\ UNCHANGED written
       ELSE /\ written' = Append(written, IF ddr = 0 THEN <<address, Bus>> ELSE <<Bus>>)
            /\ UNCHANGED address

(* A unit ends with its last operation: ready and size count down. *)
CountDown ==
  IF pc = "loop" /\ Len(todo) = 1
  THEN /\ size' = size - 1
       /\ n' = CASE Writing -> n - 2 [] appState = "SDR_RD" -> n - 1 [] OTHER -> n
  ELSE UNCHANGED <<size, n>>

Doing(op) == todo # <<>> /\ Head(todo) = op /\ todo' = Tail(todo)

Direction ==
  /\ \/ Doing("drive") /\ dir' = "out" /\ UNCHANGED <<rw, ddr>>
     \/ Doing("input") /\ dir' = "in" /\ UNCHANGED <<rw, ddr>>
     \/ Doing("rw0") /\ rw' = 0 /\ UNCHANGED <<dir, ddr>>
     \/ Doing("rw1") /\ rw' = 1 /\ UNCHANGED <<dir, ddr>>
     \/ Doing("sdr") /\ ddr' = 0 /\ UNCHANGED <<dir, rw>>
  /\ UNCHANGED <<e, port>> /\ UNCHANGED cpuVars
  /\ UNCHANGED fpgaVars /\ UNCHANGED usbVars /\ UNCHANGED hostVars

PutByte ==
  /\ \/ Doing("data") /\ port' = Peek(inBuffer) /\ inBuffer' = Remove(inBuffer)
     \/ Doing("zero") /\ port' = 0 /\ UNCHANGED inBuffer
  /\ UNCHANGED <<mode, pc, id, size, appState, n, e, rw, ddr, dir>>
  /\ UNCHANGED fpgaVars /\ UNCHANGED usbVars /\ UNCHANGED hostVars

Strobe ==
  /\ \/ Doing("e1") /\ e' = 1 /\ Edge(TRUE)
     \/ Doing("e0") /\ e' = 0 /\ Edge(FALSE)
  /\ CountDown
  /\ UNCHANGED <<mode, pc, inBuffer, id, appState, rw, ddr, dir, port, on>>
  /\ UNCHANGED usbVars /\ UNCHANGED hostVars

(* CDC_Device_SendByte, whose result nobody looks at: the byte is lost     *)
(* when the bus is not there or the host leaves the IN bank full for longer *)
(* than Endpoint_WaitUntilReady waits.                                     *)
Value == IF dir = "in" /\ rw = 1 /\ on THEN <<"register", address>>
                                       ELSE <<"float", Float>>

SendByte(value) ==
  \/ usb = "on" /\ answers' = Append(answers, value) /\ UNCHANGED left
  \/ usb = "off" /\ UNCHANGED <<answers, left>>
  \/ /\ usb = "on" /\ left.lost > 0
     /\ left' = [left EXCEPT !.lost = @ - 1] /\ UNCHANGED answers

Answer ==
  /\ \/ Doing("id") /\ SendByte(<<"echo", id>>)
     \/ Doing("size") /\ SendByte(<<"echo", size>>)
     \/ Doing("read") /\ SendByte(Value)
  /\ CountDown
  /\ UNCHANGED <<mode, pc, inBuffer, id, appState, usb, ep, hostQ>>
  /\ UNCHANGED pinVars /\ UNCHANGED fpgaVars

-----------------------------------------------------------------------------
(* The command line, the host and the bus                                  *)

(* In main and the command line: what arrives is taken; XilinxWriteBlock   *)
(* drives the data lines to configure the FPGA, whose logic takes over     *)
(* with the last clocks of the bitstream's padding or with the clocks of   *)
(* XilinxFinishConfig, which lets go of the lines first.                   *)
CommandLine ==
  /\ mode = "main"
  /\ \/ usb = "on" /\ ~on /\ ep' = <<>> /\ UNCHANGED <<dir, on>>
     \/ ~on /\ dir' = "out" /\ UNCHANGED <<ep, on>>
     \/ dir = "out" /\ dir' = "in" /\ UNCHANGED <<ep, on>>
     \/ on' = TRUE /\ UNCHANGED <<ep, dir>>
  /\ UNCHANGED <<todo, e, rw, ddr, port, address, written, usb, answers>>
  /\ UNCHANGED cpuVars /\ UNCHANGED hostVars

HostRequest ==
  /\ hostQ = <<>> /\ left.packet > 0
  /\ hostQ' \in Packet
  /\ left' = [left EXCEPT !.packet = @ - 1]
  /\ UNCHANGED todo /\ UNCHANGED cpuVars /\ UNCHANGED pinVars
  /\ UNCHANGED fpgaVars /\ UNCHANGED usbVars

(* A USB packet holds any number of the bytes, up to the bank's size. *)
HostSend ==
  /\ usb = "on" /\ ep = <<>>
  /\ \E k \in 1 .. Least(Len(hostQ), EpSize) :
       /\ ep' = SubSeq(hostQ, 1, k)
       /\ hostQ' = SubSeq(hostQ, k + 1, Len(hostQ))
  /\ UNCHANGED <<todo, usb, answers, left>>
  /\ UNCHANGED cpuVars /\ UNCHANGED pinVars /\ UNCHANGED fpgaVars

(* Suspend and wake-up *)
Suspend ==
  /\ usb = "on" /\ left.drop > 0
  /\ usb' = "off" /\ left' = [left EXCEPT !.drop = @ - 1]
  /\ UNCHANGED <<todo, ep, answers, hostQ>>
  /\ UNCHANGED cpuVars /\ UNCHANGED pinVars /\ UNCHANGED fpgaVars

Resume ==
  /\ usb = "off" /\ usb' = "on"
  /\ UNCHANGED <<todo, ep, answers>> /\ UNCHANGED hostVars
  /\ UNCHANGED cpuVars /\ UNCHANGED pinVars /\ UNCHANGED fpgaVars

-----------------------------------------------------------------------------
Init ==
  /\ mode = "main" /\ pc = "rx" /\ todo = <<>>
  /\ inBuffer = InitBuffer([i \in 0 .. Size - 1 |-> Phantom])
  /\ id = 0 /\ size = 0 /\ appState = "ID" /\ n = 0
  /\ e = 0 /\ rw = 0 /\ ddr = 0 /\ dir = "in" /\ port = 0
  /\ on = FALSE /\ address = 0 /\ written = <<>>
  /\ usb = "on" /\ ep = <<>> /\ answers = <<>>
  /\ hostQ = <<>> /\ left = Budget

Loop ==
  \/ Receive \/ InsertByte \/ PacketId \/ PacketSize \/ Dispatch \/ Return
  \/ StartTransfer \/ NextUnit \/ Direction \/ PutByte \/ Strobe \/ Answer

Next ==
  \/ Enter \/ Loop \/ CommandLine
  \/ HostRequest \/ HostSend \/ Suspend \/ Resume

Spec == Init /\ [][Next]_vars

(* The loop never waits: every round of it ends.  The host that has begun  *)
(* to send goes on, on a bus that wakes up again.                          *)
FairSpec == Spec /\ WF_vars(Loop) /\ WF_vars(HostSend) /\ WF_vars(Resume)

-----------------------------------------------------------------------------
(* Properties                                                              *)

Pin == {0, 1}
Ops == {"rw0", "rw1", "drive", "input", "e0", "e1", "sdr", "zero", "data",
        "read", "id", "size"}

TypeOK ==
  /\ mode \in {"main", "app"}
  /\ pc \in {"rx", "insert", "switch", "dispatch", "loop"}
  /\ todo \in Seq(Ops)
  /\ inBuffer \in RingBuffers
  /\ id \in Nat /\ size \in Nat /\ n \in Nat
  /\ appState \in {"ID", "SIZE", "SDR_WR", "DDR_WR", "SDR_RD", "DDR_RD"}
  /\ e \in Pin /\ rw \in Pin /\ ddr \in Pin /\ dir \in {"in", "out"} /\ port \in Nat
  /\ on \in BOOLEAN /\ address \in Nat
  /\ written \in Seq(Seq(Nat)) /\ answers \in Seq({"echo", "register", "float"} \X Nat)
  /\ usb \in {"on", "off"} /\ ep \in Seq(Data) /\ hostQ \in Seq(Data)
  /\ left \in [packet : Nat, lost : Nat, drop : Nat]

(* The ring buffer is never overrun and never read when empty, although    *)
(* Insert and Remove test nothing and count and ready are taken before     *)
(* the loops that use them.                                                *)
RingUsedInBounds ==
  /\ Sound(inBuffer)
  /\ At("insert") => inBuffer.count + n <= Size
  /\ todo # <<>> /\ Head(todo) = "data" => inBuffer.count > 0

(* While the application loop runs, AVR and FPGA never drive the data lines *)
(* against each other, whatever kinds of packets follow one another.       *)
NoContention == mode = "app" => ~(on /\ rw = 1 /\ dir = "out")

(* Only the write packets write: no edge of E while a register is read, or *)
(* between two packets, reaches the logic as a write, and no write takes   *)
(* its data from lines nobody drives.                                      *)
OnlyWritesWrite ==
  [][written' # written =>
       /\ Writing /\ dir = "out"
       /\ written'[Len(written')][Len(written'[Len(written')])] = port]_vars

(***************************************************************************)
(* The inductive invariant.  What is left to do is the rest of one of the  *)
(* sequences above, and its length says how the pins are: E is 1 only      *)
(* inside a unit, the lines are driven only while RW is 0.  ready counts   *)
(* bytes that are in the buffer, or were before this unit took them.       *)
(***************************************************************************)
Rest(ops) ==
  /\ Len(todo) <= Len(ops)
  /\ \A i \in 1 .. Len(todo) : todo[i] = ops[Len(ops) - Len(todo) + i]

(* Between two transfers; at the beginning ucifBaseInit is under way. *)
OutsideOK ==
  pc # "loop" =>
    /\ e = 0 /\ (mode = "main" \/ pc \notin {"rx", "dispatch"} => todo = <<>>)
    /\ pc = "rx" => Rest(BaseInit)
    /\ pc = "rx" /\ Len(todo) \in {1, 2, 3, 4} => rw = 0
    /\ todo # <<>> => pc = "dispatch" \/ appState = "ID"
    /\ pc = "dispatch" => Rest(Echoes) /\ appState = "SIZE" /\ size \in Data
    /\ pc = "insert" => n > 0 /\ inBuffer.count + n <= Size

WritingOK ==
  pc = "loop" /\ Writing =>
    \/ /\ Rest(WriteSetup) /\ todo # <<>> /\ e = 0 /\ n <= inBuffer.count
       /\ Len(todo) = 1 => rw = 0
    \/ /\ Rest(WriteUnit) /\ rw = 0 /\ dir = "out"
       /\ Len(todo) \in {0, 3, 4} => e = 0
       /\ Len(todo) \in {1, 2} => e = 1
       /\ Len(todo) \in {1, 3} => port \in Data
       /\ todo # <<>> => size > 0 /\ n > 1
       /\ n <= inBuffer.count + 2
       /\ Len(todo) # 1 => n <= inBuffer.count + 1
       /\ Len(todo) \in {0, 4} => n <= inBuffer.count

SdrReadOK ==
  pc = "loop" /\ appState = "SDR_RD" =>
    /\ Rest(SdrReadUnit)
    /\ Len(todo) \in {0, 1, 5, 6, 7, 8} => e = 0
    /\ Len(todo) \in {2, 3, 4} => e = 1
    /\ Len(todo) \in {3, 4, 5, 6, 7} => rw = 0
    /\ Len(todo) \in {1, 2} => rw = 1
    /\ Len(todo) \in {4, 5, 6} => dir = "out"
    /\ Len(todo) \in {1, 2, 3} => dir = "in"
    /\ Len(todo) = 5 => port \in Data
    /\ todo # <<>> => size > 0 /\ n > 0
    /\ n <= inBuffer.count + 1
    /\ Len(todo) \in {0, 6, 7, 8} => n <= inBuffer.count

DdrReadOK ==
  pc = "loop" /\ appState = "DDR_RD" =>
    \/ /\ Rest(DdrReadSetup) /\ todo # <<>> /\ e = 0
       /\ Len(todo) = 1 => dir = "in"
    \/ /\ Rest(DdrReadUnit) /\ dir = "in" /\ rw = 1
       /\ Len(todo) \in {0, 3, 4} => e = 0
       /\ Len(todo) \in {1, 2} => e = 1
       /\ todo # <<>> => size > 0

(* The kind of transfer is the ID of the packet. *)
PacketOK ==
  /\ appState # "ID" => id \in Data
  /\ appState = "SDR_WR" => id = SdrWr /\ ddr = 0
  /\ appState = "DDR_WR" => id = DdrWr /\ ddr = 1
  /\ appState = "SDR_RD" => id = SdrRd /\ ddr = 0
  /\ appState = "DDR_RD" => id = DdrRd /\ ddr = 1
  /\ pc = "loop" => Writing \/ Reading

IInv ==
  /\ TypeOK /\ Sound(inBuffer) /\ (mode = "app" => on) /\ NoContention
  /\ (mode = "main" => pc # "loop")
  /\ OutsideOK /\ WritingOK /\ SdrReadOK /\ DdrReadOK /\ PacketOK

(* So far, no suspend and no answer that nobody took in time. *)
Undisturbed == left.lost = Budget.lost /\ left.drop = Budget.drop

(* On a quiet bus, what BytesReceived has counted is there, and the echo   *)
(* of an ID is the last answer until the one of the Length follows.        *)
QuietOK ==
  /\ Undisturbed /\ usb = "on"
  /\ pc = "insert" => mode = "app" /\ n <= Len(ep)
  /\ pc = "dispatch" /\ Len(todo) = 1 =>
       answers # <<>> /\ answers[Len(answers)] = <<"echo", id>>

(***************************************************************************)
(* The loop implements PacketProtocol.  A byte counts as used when the     *)
(* edge comes that brings it to the FPGA, a packet begins with the echo of *)
(* its Length.                                                             *)
(***************************************************************************)
InUnit == pc = "loop" /\ todo # <<>> /\ todo[Len(todo)] \in {"e0", "read"}

CyclesDone ==
  IF ~InUnit THEN 0
  ELSE IF Writing THEN IF Len(todo) <= 2 THEN 1 ELSE 0
  ELSE IF appState = "SDR_RD" THEN IF Len(todo) <= 4 THEN 1 ELSE 0
  ELSE IF Len(todo) = 1 THEN 2 ELSE IF Len(todo) <= 3 THEN 1 ELSE 0

OnPort ==
  InUnit /\ IF Writing THEN Head(todo) \in {"e0", "e1"}
            ELSE appState = "SDR_RD" /\ Head(todo) = "e1"

(* Bytes the loop has taken out of the ring buffer and not used yet. *)
Taken ==
  IF appState = "SIZE"
  THEN IF pc # "dispatch" THEN <<id>>
       ELSE IF todo = <<>> THEN <<>> ELSE <<id, size>>
  ELSE IF OnPort THEN <<port>> ELSE <<>>

Returning == At("dispatch") /\ IsReconfigure

Queue == IF mode = "main" \/ Returning THEN <<>>
         ELSE Taken \o (Contents(inBuffer) \o ep)

Due ==
  IF mode = "main" THEN 0
  ELSE IF Writing \/ Reading THEN 2 * size - CyclesDone
  ELSE IF At("dispatch") /\ id \in {SdrWr, DdrWr, SdrRd, DdrRd} THEN 2 * size
  ELSE 0

Kind == IF Due = 0 THEN Hash ELSE id

Latched == IF Returning THEN 0 ELSE address

Answered == IF pc = "dispatch" /\ Len(todo) = 1
            THEN SubSeq(answers, 1, Len(answers) - 1) ELSE answers

Protocol == INSTANCE PacketProtocol WITH
  Reconfigure <- DdrRd, queue <- Queue, due <- Due, kind <- Kind,
  address <- Latched, answers <- Answered, quiet <- Undisturbed

(* As long as the bus is quiet, a host sees the packet protocol. *)
ImplementsProtocol == Protocol!Spec

(* README.md: "Unknown packets get ignored."  The host gets bytes back     *)
(* only for the packets the README describes.                              *)
Described == id \in {SdrWr, DdrWr, SdrRd, DdrRd} \/ IsReconfigure

UnknownIgnored == [][answers' # answers => Described]_vars

(* Whatever the host has sent, also when the command line ate the head of  *)
(* it, or a suspend put bytes into it that nobody sent, the loop takes all *)
(* of it out of the endpoint and leaves nothing in the ring buffer but the *)
(* first half of a word: a transfer never waits for more bytes than a full *)
(* buffer or the end of the stream can give.                               *)
Drained ==
  /\ hostQ = <<>> /\ ep = <<>>
  /\ GetCount(inBuffer) = 0 \/ (Writing /\ GetCount(inBuffer) = 1)

PacketsHandled == mode = "app" ~> mode = "main" \/ Drained

(* When the logic takes over the pins, the AVR has let go of the data lines *)
(* or the logic keeps off them.                                            *)
QuietTakeOver == mode = "main" => ~(on /\ rw = 1 /\ dir = "out")
=============================================================================
