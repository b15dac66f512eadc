----------------------------- MODULE UsbDevice -----------------------------
(***************************************************************************)
(* The control endpoint of the USB device: the interrupt that serves it,   *)
(* the bus event interrupt, and the main loop they both interrupt.         *)
(*                                                                         *)
(* All of them share one register that selects the endpoint the others     *)
(* refer to, one request header and the device state.  The control         *)
(* interrupt enables interrupts while it runs: frames is the stack of its  *)
(* activations, and of USB_DeviceTask's when the main loop calls it.  The  *)
(* bus event interrupt runs with interrupts disabled, each branch is one   *)
(* step.  A step of a handler is one access to the hardware it shares.     *)
(***************************************************************************)
EXTENDS Integers, Sequences, FiniteSets

CONSTANTS
  Requests,   (* the requests the host uses *)
  Packets,    (* IN packets of a descriptor *)
  Budget      (* bounds what the host and the bus do *)

In == {"GetDescriptor", "GetConfiguration", "GetStatus", "GetLineEncoding"}
Standard == {"GetDescriptor", "GetConfiguration", "GetStatus",
             "SetAddress", "Configure", "Deconfigure"}
Class == {"GetLineEncoding", "SetLineEncoding", "SetControlLineState"}
Unknown == "Vendor"
Junk == "Junk"                        (* read from an empty endpoint *)

Budgets == [request : Nat, suspend : Nat, reset : Nat, unplug : Nat,
            resetMidway : Nat, unplugMidway : Nat, eager : Nat, late : Nat]

ASSUME DeviceAssumption ==
  /\ Requests \subseteq Standard \cup Class \cup {Unknown}
  /\ Packets \in Nat \ {0} /\ Budget \in Budgets

VARIABLES
  main,        (* [pc, ep, prev]: the main loop's place, the endpoint it   *)
               (* works on, and the one USB_DeviceTask puts back           *)
  frames,      (* [isr, pc, saw, then, n, prev]: activations of            *)
               (* USB_Device_ProcessControlRequest, innermost last         *)
  sel,         (* UENUM *)
  request,     (* USB_ControlRequest *)
  state,       (* USB_DeviceState *)
  config,      (* USB_Device_ConfigurationNumber *)
  baud,        (* a line encoding was set *)
  addressed,   (* ADDEN: the device listens to its address, not to 0 *)
  ep0,         (* control endpoint: [setup, out : BOOLEAN (received flags),  *)
               (* in: "free", or what waits for the host, stall, irq :       *)
               (* BOOLEAN (stall request, interrupt on SETUP)]               *)
  open,        (* the data endpoints are configured *)
  suspInt, wakeInt,   (* enabled bus event interrupts *)
  bus,         (* "off", "on", "asleep" *)
  host,        (* [req, stage, n, addressed, config]: the request under    *)
               (* way and its data packets, whether the host uses the      *)
               (* address, its SetConfiguration since the last bus reset   *)
  disturbed,   (* a bus reset came since the main loop selected *)
  left

devVars == <<state, config, addressed, open, suspInt, wakeInt>>
vars == <<main, frames, sel, request, state, config, baud, addressed, ep0, open,
          suspInt, wakeInt, bus, host, disturbed, left>>

DataEndpoints == {3, 4}               (* TX IN, RX OUT *)
TableBeyond == <<3, 4, 5>>            (* mutant of Table *)
Table == <<3, 4, 2>>                  (* the order they are configured in *)
Zlp == "zlp"                          (* an empty IN packet *)

Top == frames[Len(frames)]
Become(f) == frames' = [frames EXCEPT ![Len(frames)] = f]
GoTo(to) == Become([Top EXCEPT !.pc = to])
Spend(what) == left[what] > 0 /\ left' = [left EXCEPT ![what] = @ - 1]

(* USB_COM_vect is taken before the next instruction of whatever runs. *)
ComPending == ep0.setup /\ ep0.irq

At(p) == frames # <<>> /\ Top.pc = p /\ ~ComPending

-----------------------------------------------------------------------------
(* ISR(USB_COM_vect)                                                       *)

Frame(isr) ==
  [isr |-> isr, pc |-> "header", saw |-> FALSE, then |-> "check?", n |-> 0,
   prev |-> sel]

EntryKeepsInterrupt == ep0' = ep0                  (* mutant of MaskSetup *)
MaskSetup == ep0' = [ep0 EXCEPT !.irq = FALSE]

ComEnter ==
  /\ ComPending
  /\ frames' = Append(frames, Frame(TRUE))
  /\ sel' = 0 /\ MaskSetup
  /\ UNCHANGED <<main, request, baud, bus, host, disturbed, left>>
  /\ UNCHANGED devVars

(* Back at endpoint 0, interrupt on again ... *)
ComLeave ==
  /\ At("leave")
  /\ IF Top.isr
     THEN sel' = 0 /\ ep0' = [ep0 EXCEPT !.irq = TRUE] /\ GoTo("restore")
     ELSE UNCHANGED <<sel, ep0>> /\ frames' = SubSeq(frames, 1, Len(frames) - 1)
  /\ UNCHANGED <<main, request, baud, bus, host, disturbed, left>>
  /\ UNCHANGED devVars

SelectionLost == sel' = sel                        (* mutant of Reselect *)
Reselect == sel' = Top.prev

(* ... and at last the endpoint the interrupted code had selected. *)
ComReturn ==
  /\ At("restore")
  /\ Reselect
  /\ frames' = SubSeq(frames, 1, Len(frames) - 1)
  /\ UNCHANGED <<main, request, baud, ep0, bus, host, disturbed, left>>
  /\ UNCHANGED devVars

-----------------------------------------------------------------------------
(* USB_Device_ProcessControlRequest                                        *)

Header(r) ==
  /\ At("header")
  /\ request' = r
  /\ GoTo("class?")
  /\ UNCHANGED <<main, sel, baud, ep0, bus, host, disturbed, left>>
  /\ UNCHANGED devVars

ReadHeader == Header(IF ep0.setup THEN host.req ELSE Junk)

(* A SETUP that arrives during the instruction that reads the flag is      *)
(* seen, and the interrupt comes after it.                                 *)
RememberedSetup ==                                 (* mutant of IsSETUPReceived *)
  ep0.setup \/ (frames # <<>> /\ Top.saw)
IsSETUPReceived == sel = 0 /\ ep0.setup

ReadFlag(from, to) ==
  /\ frames # <<>> /\ Top.pc = from
  /\ IF ComPending THEN Spend("late") ELSE UNCHANGED left
  /\ Become([Top EXCEPT !.pc = to, !.saw = IsSETUPReceived])
  /\ UNCHANGED <<main, sel, request, baud, ep0, bus, host, disturbed>>
  /\ UNCHANGED devVars

ReadFlags == \/ ReadFlag("class?", "class") \/ ReadFlag("standard?", "standard")
             \/ ReadFlag("check?", "check")

Acknowledged == [ep0 EXCEPT !.setup = FALSE]
Answer(e) == [e EXCEPT !.in = request]
StatusStage == IF request \in In THEN "statusOut" ELSE "statusIn"

(* CDC_Device_ProcessControlRequest *)
Begin(from, r, to, then) ==
  /\ At(from) /\ Top.saw /\ request = r
  /\ Become([Top EXCEPT !.pc = to, !.then = then, !.n = Packets])
  /\ UNCHANGED <<main, request, baud, bus, host, disturbed, left>>

Pass(from, handled, to) ==
  /\ At(from) /\ ~(Top.saw /\ request \in handled)
  /\ GoTo(to)
  /\ UNCHANGED <<main, sel, request, baud, ep0, bus, host, disturbed, left>>
  /\ UNCHANGED devVars

ClassRequest ==
  \/ Pass("class", Class, "standard?")
  \/ /\ \/ Begin("class", "GetLineEncoding", "lineWait", "standard?")
        \/ Begin("class", "SetLineEncoding", "lineData", "standard?")
        \/ Begin("class", "SetControlLineState", StatusStage, "standard?")
     /\ ep0' = Acknowledged /\ UNCHANGED sel /\ UNCHANGED devVars

Gone == state = "Unattached"

(* A wait of the handler comes to its end. *)
Proceed(from, ready, e, to) ==
  /\ At(from) /\ ready /\ ep0' = e /\ GoTo(to)
  /\ UNCHANGED <<main, sel, request, bus, host, disturbed, left>>

GetLineEncoding ==
  /\ Proceed("lineWait", ep0.in = "free", Answer(ep0), StatusStage)
  /\ UNCHANGED baud /\ UNCHANGED devVars

DataAssumed == TRUE                                (* mutant of DataReceived *)
DataReceived == ep0.out

SetLineEncoding ==
  /\ Proceed("lineData", DataReceived \/ Gone, [ep0 EXCEPT !.out = FALSE],
             IF DataReceived THEN StatusStage ELSE Top.then)
  /\ baud' = (baud \/ DataReceived)
  /\ UNCHANGED devVars

(* Endpoint_ClearStatusStage *)
NothingSent == ep0                                 (* mutant of EmptyPacket *)
EmptyPacket == [ep0 EXCEPT !.in = Zlp]

ClearStatusStage ==
  /\ \/ Proceed("statusOut", ep0.out \/ Gone, [ep0 EXCEPT !.out = FALSE], Top.then)
     \/ Proceed("statusIn", ep0.in = "free" \/ Gone,
                IF ep0.in = "free" THEN EmptyPacket ELSE ep0, Top.then)
  /\ UNCHANGED baud /\ UNCHANGED devVars

(* The standard requests begin. *)
SetConfiguration(r, c) ==
  /\ Begin("standard", r, StatusStage, "configState")
  /\ config' = c /\ ep0' = Acknowledged
  /\ UNCHANGED <<sel, state, addressed, open, suspInt, wakeInt>>

StandardRequest ==
  \/ Pass("standard", Standard, "check?")
  \/ /\ \/ Begin("standard", "GetDescriptor", "stream", "check?")
        \/ Begin("standard", "SetAddress", StatusStage, "addressWait")
     /\ ep0' = Acknowledged /\ UNCHANGED sel /\ UNCHANGED devVars
  \/ /\ Begin("standard", "GetConfiguration", StatusStage, "check?")
     /\ ep0' = Answer(Acknowledged) /\ UNCHANGED sel /\ UNCHANGED devVars
  \/ /\ Begin("standard", "GetStatus", "status", "check?")
     /\ sel' \in DataEndpoints /\ UNCHANGED ep0 /\ UNCHANGED devVars
  \/ SetConfiguration("Configure", 1)
  \/ SetConfiguration("Deconfigure", 0)

ControlForgotten == sel' = sel                     (* mutant of ControlAgain *)
ControlAgain == sel' = 0

(* GetStatus of an endpoint looks at it and comes back to endpoint 0. *)
GetStatus ==
  /\ At("status") /\ GoTo(StatusStage)
  /\ ControlAgain /\ ep0' = Answer(Acknowledged)
  /\ UNCHANGED <<main, request, baud, bus, host, disturbed, left>>
  /\ UNCHANGED devVars

(* Endpoint_Write_Control_PStream_LE of a descriptor: until the host has   *)
(* all packets or says that it has enough.                                 *)
Cut == state \in {"Unattached", "Suspended"} \/ ep0.setup

Stream ==
  /\ At("stream")
  /\ IF ~Cut /\ ~ep0.out /\ Top.n > 0
     THEN /\ ep0.in = "free" /\ ep0' = Answer(ep0)
          /\ Become([Top EXCEPT !.n = @ - 1])
     ELSE /\ GoTo(IF Cut /\ Top.n > 0 THEN "clearOut" ELSE "streamOut")
          /\ UNCHANGED ep0
  /\ UNCHANGED <<main, sel, request, baud, bus, host, disturbed, left>>
  /\ UNCHANGED devVars

StreamEnds ==
  /\ \/ Proceed("streamOut", ep0.out \/ Cut, ep0, "clearOut")
     \/ Proceed("clearOut", TRUE, [ep0 EXCEPT !.out = FALSE], "check?")
  /\ UNCHANGED baud /\ UNCHANGED devVars

(* SetAddress listens to the new address after the host has taken the      *)
(* status stage from the old one.                                          *)
AddressAtOnce == TRUE                              (* mutant of AddressTaken *)
AddressTaken == ep0.in = "free"

EnableAddress ==
  /\ Proceed("addressWait", AddressTaken, ep0, "addressState")
  /\ addressed' = TRUE
  /\ UNCHANGED <<baud, state, config, open, suspInt, wakeInt>>

AddressState ==
  /\ Proceed("addressState", TRUE, ep0, "check?")
  /\ state' = "Addressed"
  /\ UNCHANGED <<baud, config, addressed, open, suspInt, wakeInt>>

(* SetConfiguration sets the state, and the event configures the endpoints *)
(* of the CDC class, which forgets the line encoding.                      *)
ConfigState ==
  /\ At("configState") /\ Become([Top EXCEPT !.pc = "configure", !.n = 1])
  /\ state' = IF config # 0 \/ addressed THEN "Configured" ELSE "Powered"
  /\ baud' = FALSE
  /\ UNCHANGED <<main, sel, request, ep0, bus, host, disturbed, left>>
  /\ UNCHANGED <<config, addressed, open, suspInt, wakeInt>>

ConfigureEndpoints ==
  /\ At("configure")
  /\ sel' = Table[Top.n]
  /\ IF Top.n = Len(Table)
     THEN GoTo("check?") /\ open' = TRUE
     ELSE Become([Top EXCEPT !.n = @ + 1]) /\ UNCHANGED open
  /\ UNCHANGED <<main, request, baud, ep0, bus, host, disturbed, left>>
  /\ UNCHANGED <<state, config, addressed, suspInt, wakeInt>>

(* Whatever is left unhandled is stalled. *)
StallRest ==
  /\ At("check") /\ GoTo("leave")
  /\ ep0' = IF Top.saw THEN [Acknowledged EXCEPT !.stall = TRUE] ELSE ep0
  /\ UNCHANGED <<main, sel, request, baud, bus, host, disturbed, left>>
  /\ UNCHANGED devVars

Handler ==
  \/ ReadHeader \/ ReadFlags \/ ClassRequest \/ GetLineEncoding \/ SetLineEncoding
  \/ ClearStatusStage \/ StandardRequest \/ GetStatus \/ Stream \/ StreamEnds
  \/ EnableAddress \/ AddressState \/ ConfigState \/ ConfigureEndpoints
  \/ StallRest \/ ComLeave \/ ComReturn

-----------------------------------------------------------------------------
(* The main loop                                                           *)

MainAt(p) == frames = <<>> /\ main.pc = p

MainStep(m) ==
  /\ main' = m
  /\ UNCHANGED <<request, baud, bus, host, left>> /\ UNCHANGED devVars

(* SendByte, Flush, BytesReceived, ReceiveByte: the test, the selection,   *)
(* and the accesses to the endpoint.                                       *)
DataTest ==
  /\ MainAt("loop") /\ ~ComPending
  /\ state = "Configured" /\ baud
  /\ \E e \in DataEndpoints : MainStep([main EXCEPT !.pc = "select", !.ep = e])
  /\ UNCHANGED <<frames, sel, ep0, disturbed>>

DataSelect ==
  /\ MainAt("select") /\ ~ComPending
  /\ MainStep([main EXCEPT !.pc = "access"])
  /\ sel' = main.ep /\ disturbed' = FALSE /\ UNCHANGED <<frames, ep0>>

(* On the control endpoint, which has no RWAL flag, SendByte and Flush     *)
(* would send an empty packet, BytesReceived and ReceiveByte drop one.     *)
DataAccess ==
  /\ MainAt("access") /\ ~ComPending
  /\ MainStep([main EXCEPT !.pc = "loop", !.ep = 0])
  /\ ep0' = CASE sel = 0 /\ main.ep = 3 -> EmptyPacket
              [] sel = 0 /\ main.ep = 4 -> [ep0 EXCEPT !.out = FALSE]
              [] OTHER -> ep0
  /\ UNCHANGED <<frames, sel, disturbed>>

(* USB_DeviceTask, which main calls although the interrupt does its work.  *)
TaskBegin ==
  /\ MainAt("loop") /\ ~ComPending /\ state # "Unattached"
  /\ MainStep([main EXCEPT !.pc = "task", !.prev = sel])
  /\ sel' = 0 /\ UNCHANGED <<frames, ep0, disturbed>>

TaskLook ==
  /\ MainAt("task")
  /\ main' = [main EXCEPT !.pc = "taskEnd"]
  /\ IF ComPending THEN Spend("late") ELSE UNCHANGED left
  /\ frames' = IF IsSETUPReceived THEN <<Frame(FALSE)>> ELSE <<>>
  /\ UNCHANGED <<sel, request, baud, ep0, bus, host, disturbed>>
  /\ UNCHANGED devVars

TaskEnd ==
  /\ MainAt("taskEnd") /\ ~ComPending
  /\ MainStep([main EXCEPT !.pc = "loop", !.prev = 0])
  /\ sel' = main.prev /\ UNCHANGED <<frames, ep0, disturbed>>

Main == DataTest \/ DataSelect \/ DataAccess \/ TaskBegin \/ TaskLook \/ TaskEnd

-----------------------------------------------------------------------------
(* ISR(USB_GEN_vect)                                                       *)

(* What happens to the bus while a request is under way, or the handler   *)
(* is still in it, is bounded apart.                                       *)
Quiet == frames = <<>> /\ host.stage \in {"off", "idle"} /\ ~ep0.setup

Disturb(what, midway) == Spend(IF Quiet THEN what ELSE midway)

NobodyThere(s, c) ==
  [req |-> Junk, stage |-> s, n |-> 0, addressed |-> FALSE, config |-> c]
EmptyEp0(irq) == [setup |-> FALSE, out |-> FALSE, in |-> "free",
                  stall |-> FALSE, irq |-> irq]

(* VBUS goes away and comes back. *)
Disconnect ==
  /\ bus # "off" /\ Disturb("unplug", "unplugMidway")
  /\ bus' = "off" /\ state' = "Unattached"
  /\ host' = [host EXCEPT !.stage = "off", !.addressed = FALSE]
  /\ UNCHANGED <<main, frames, sel, request, config, baud, addressed, ep0, open,
                 suspInt, wakeInt, disturbed>>

(* VBUS stays away longer than the handler takes to see it. *)
Connect ==
  /\ bus = "off" /\ frames = <<>> /\ ~ep0.setup
  /\ bus' = "on" /\ state' = "Powered"
  /\ UNCHANGED <<main, frames, sel, request, config, baud, addressed, ep0, open,
                 suspInt, wakeInt, host, disturbed, left>>

Suspend ==
  /\ bus = "on" /\ suspInt /\ Quiet /\ Spend("suspend")
  /\ bus' = "asleep" /\ state' = "Suspended"
  /\ suspInt' = FALSE /\ wakeInt' = TRUE
  /\ UNCHANGED <<main, frames, sel, request, config, baud, addressed, ep0, open,
                 host, disturbed>>

WokenAlways == "Configured"                        (* mutant of WokenState *)
WokenState == IF config # 0 THEN "Configured"
              ELSE IF addressed THEN "Addressed" ELSE "Powered"

(* Activity on the bus, also the first after a bus reset. *)
WakeUp ==
  /\ bus # "off" /\ wakeInt
  /\ bus' = "on" /\ state' = WokenState
  /\ suspInt' = TRUE /\ wakeInt' = FALSE
  /\ UNCHANGED <<main, frames, sel, request, config, baud, addressed, ep0, open,
                 host, disturbed, left>>

BusReset ==
  /\ bus = "on" /\ Disturb("reset", "resetMidway")
  /\ state' = "Default" /\ config' = 0 /\ addressed' = FALSE
  /\ suspInt' = FALSE /\ wakeInt' = TRUE
  /\ sel' = 0 /\ disturbed' = TRUE
  /\ ep0' = EmptyEp0(TRUE)
  /\ host' = NobodyThere("idle", 0)
  /\ UNCHANGED <<main, frames, request, baud, open, bus>>

-----------------------------------------------------------------------------
(* The host: one control transfer at a time.  The endpoint takes a SETUP   *)
(* always, frees its IN bank for it and refuses everything else until it   *)
(* is acknowledged.                                                        *)

Reached == bus = "on" /\ host.addressed = addressed

Handled == \A i \in 1 .. Len(frames) : frames[i].isr => frames[i].pc = "restore"

Legal(r) ==
  /\ r = "SetAddress" => ~host.addressed
  /\ r = "Configure" => host.addressed
  /\ r \in {"Deconfigure", "GetStatus"} \cup Class => host.config = 1

FirstStage(r) ==
  CASE r \in In -> "in" [] r = "SetLineEncoding" -> "out" [] OTHER -> "status"

Setup(r) ==
  /\ Reached /\ host.stage = "idle" /\ Legal(r)
  /\ IF Handled THEN Spend("request")
     ELSE left.eager > 0 /\ left.request > 0
          /\ left' = [left EXCEPT !.eager = @ - 1, !.request = @ - 1]
  /\ host' = [host EXCEPT !.req = r, !.stage = FirstStage(r), !.n = 0,
                !.config = CASE r = "Configure" -> 1 [] r = "Deconfigure" -> 0
                             [] OTHER -> @]
  /\ ep0' = [ep0 EXCEPT !.setup = TRUE, !.in = "free", !.stall = FALSE]
  /\ UNCHANGED <<main, frames, sel, request, baud, bus, disturbed>>
  /\ UNCHANGED devVars

HostStep(h, e) ==
  /\ Reached /\ ~ep0.setup
  /\ host' = h /\ ep0' = e
  /\ UNCHANGED <<main, frames, sel, request, baud, bus, disturbed, left>>
  /\ UNCHANGED devVars

Over(h) == [h EXCEPT !.stage = "idle", !.req = Junk, !.n = 0]

(* The host takes all of a descriptor, or what it needs. *)
TakeData ==
  /\ host.stage = "in" /\ ep0.in # "free"
  /\ \E s \in {"in", "statusOut"} :
       /\ s = "in" => host.req = "GetDescriptor" /\ host.n + 1 < Packets
       /\ HostStep([host EXCEPT !.stage = s, !.n = @ + 1], [ep0 EXCEPT !.in = "free"])

SendStatus ==
  /\ host.stage = "statusOut" /\ ~ep0.out
  /\ HostStep(Over(host), [ep0 EXCEPT !.out = TRUE])

SendData ==
  /\ host.stage = "out" /\ ~ep0.out
  /\ HostStep([host EXCEPT !.stage = "status"], [ep0 EXCEPT !.out = TRUE])

TakeStatus ==
  /\ host.stage = "status" /\ ep0.in # "free"
  /\ HostStep([Over(host) EXCEPT !.addressed = @ \/ host.req = "SetAddress"],
              [ep0 EXCEPT !.in = "free"])

TakeStall ==
  /\ host.stage \notin {"off", "idle"} /\ ep0.stall
  /\ HostStep(Over(host), ep0)

Host == TakeData \/ SendStatus \/ SendData \/ TakeStatus \/ TakeStall
        \/ \E r \in Requests : Setup(r)

-----------------------------------------------------------------------------
Init ==
  /\ main = [pc |-> "loop", ep |-> 0, prev |-> 0] /\ frames = <<>>
  /\ sel = 0 /\ request = Junk
  /\ state = "Powered" /\ config = 0 /\ baud = FALSE /\ addressed = FALSE
  /\ ep0 = EmptyEp0(FALSE) /\ open = FALSE /\ suspInt = TRUE /\ wakeInt = FALSE
  /\ bus = "on" /\ host = NobodyThere("off", 0) /\ disturbed = TRUE
  /\ left = Budget

Cpu == ComEnter \/ Handler \/ Main
Bus == Disconnect \/ Connect \/ Suspend \/ WakeUp \/ BusReset

Next == Cpu \/ Bus \/ Host

Spec == Init /\ [][Next]_vars

(* The CPU runs, and the host goes on with a transfer it has begun. *)
HostGoesOn == TakeData \/ SendStatus \/ SendData \/ TakeStatus \/ TakeStall
FairSpec == Spec /\ WF_vars(Cpu) /\ WF_vars(HostGoesOn)

-----------------------------------------------------------------------------
(* Properties                                                              *)

Waits == {"lineWait", "lineData", "statusIn", "statusOut", "stream", "streamOut",
          "addressWait"}
Places == {"header", "class?", "class", "standard?", "standard", "status", "clearOut",
           "addressState", "configState", "configure", "check?", "check",
           "leave", "restore"} \cup Waits
Kinds == Requests \cup {Junk}

TypeOK ==
  /\ main \in [pc : {"loop", "select", "access", "task", "taskEnd"},
               ep : DataEndpoints \cup {0}, prev : 0 .. 4]
  /\ frames \in Seq([isr : BOOLEAN, pc : Places, saw : BOOLEAN, then : Places,
                     n : Nat, prev : 0 .. 4])
  /\ sel \in 0 .. 4 /\ request \in Kinds
  /\ state \in {"Unattached", "Powered", "Default", "Addressed", "Configured",
                "Suspended"}
  /\ config \in {0, 1} /\ baud \in BOOLEAN /\ addressed \in BOOLEAN
  /\ ep0 \in [setup : BOOLEAN, out : BOOLEAN, in : {"free", Zlp} \cup Kinds,
              stall : BOOLEAN, irq : BOOLEAN]
  /\ open \in BOOLEAN /\ suspInt \in BOOLEAN /\ wakeInt \in BOOLEAN
  /\ bus \in {"off", "on", "asleep"}
  /\ host \in [req : Kinds, stage : {"off", "idle", "in", "out", "status", "statusOut"},
               n : Nat, addressed : BOOLEAN, config : {0, 1}]
  /\ disturbed \in BOOLEAN /\ left \in Budgets

(* The main loop works on the endpoint it has selected, whatever requests  *)
(* interrupt it and whatever endpoints they select.  After a bus reset it  *)
(* may meet the control endpoint instead, never another one.               *)
SelectionKept ==
  main.pc = "access" /\ frames = <<>> =>
    open /\ (sel = main.ep \/ (disturbed /\ sel = 0))

(* A handler works on the control endpoint, whatever other endpoints it or *)
(* a handler it was interrupted by have selected.                          *)
ControlOnEp0 ==
  frames # <<>> =>
    /\ Top.pc \in Waits \cup {"header", "class", "standard", "clearOut"} => sel = 0
    /\ Top.pc = "check" /\ Top.saw => sel = 0

(* Only one request is handled at a time. *)
NotReentered ==
  Cardinality({i \in 1 .. Len(frames) : frames[i].isr /\ frames[i].pc # "restore"}) <= 1

AtRequest == host.stage \notin {"off", "idle"}

(* What waits in the control endpoint is for the stage and the request the *)
(* host is at.                                                             *)
AnswersHost ==
  /\ host.stage = "in"     => ep0.in \in {"free", host.req}
  /\ host.stage = "status" => ep0.in \in {"free", Zlp}
  /\ host.stage = "out"    => ep0.in = "free"

(* A request the device knows is never stalled. *)
KnownAccepted == ep0.stall /\ AtRequest => host.req = Unknown

(* As long as the host is at a request the device listens to the address   *)
(* the host uses: it does not change before the host has the status stage. *)
AddressAgrees == AtRequest => host.addressed = addressed

(* The main loop starts no access to a data endpoint before the host has   *)
(* configured the device since the last bus reset, although the wake-up    *)
(* interrupt only guesses the state.                                       *)
OnlyAfterConfiguration ==
  [][main'.pc = "select" /\ main.pc # "select" => host.config = 1]_vars

(* Every request comes to its end. *)
RequestDone == AtRequest ~> ~AtRequest

(* The main loop goes on. *)
MainRuns == []<>(main.pc = "loop" /\ frames = <<>>)

=============================================================================
