-------------------------- MODULE UsbDevice_proof --------------------------
(***************************************************************************)
(* Proofs about UsbDevice: whatever requests, bus events and late          *)
(* interrupts come, and however deep the activations of the control        *)
(* request handler are nested, each works on the endpoint it believes it   *)
(* has selected, and so does the main loop below them.  As long as no bus  *)
(* reset hits a request, only one request is handled at a time and the     *)
(* device never changes its address under a request; if the host also      *)
(* waits for the handlers and the interrupt is not late twice, host and    *)
(* handlers go through every request in step.                              *)
(***************************************************************************)
EXTENDS UsbDevice, SequenceTheorems, FiniteSetTheorems, TLAPS

(***************************************************************************)
(* The invariant                                                           *)
(***************************************************************************)

FrameType == [isr : BOOLEAN, pc : Places, saw : BOOLEAN, then : Places,
              n : Nat, prev : 0 .. 4]

(* Where a handler goes on after the status stage, and its place in Table. *)
FrameOK(f) ==
  /\ f.then \in {"standard?", "check?", "configState", "addressWait"}
  /\ f.pc = "configure" => f.n \in 1 .. 3
  /\ f.pc = "restore" => f.isr

(* The places of a handler that refer to the control endpoint.             *)
NeedsEp0(f) ==
  \/ f.pc \in Waits \cup {"header", "class?", "class", "standard?", "standard", "clearOut"}
  \/ f.pc = "check" /\ f.saw

(* What UENUM will be when the activations above the i-th have returned,   *)
(* and when all have.                                                      *)
SelAt(i) == IF i = Len(frames) THEN sel ELSE frames[i + 1].prev
Base == IF frames = <<>> THEN sel ELSE frames[1].prev

EveryNeedMet ==
  \A i \in 1 .. Len(frames) : FrameOK(frames[i]) /\ (NeedsEp0(frames[i]) => SelAt(i) = 0)

(* USB_DeviceTask is the outermost activation, the others are interrupts.  *)
TaskOutermost ==
  \A i \in 1 .. Len(frames) : frames[i].isr \/ (i = 1 /\ main.pc = "taskEnd")

MainSelected ==
  /\ main.pc = "access" => Base = main.ep \/ (disturbed /\ Base = 0)
  /\ main.pc \in {"select", "access"} => open

(* A configuration the device has without its endpoints is still being     *)
(* made by an activation: the main loop does not run.                      *)
Configures(f) ==
  f.pc \in {"configState", "configure"} \/ (f.pc = "statusIn" /\ f.then = "configState")
HasConfig == config # 0 \/ state = "Configured"
OpenInTime == HasConfig => open \/ \E i \in 1 .. Len(frames) : Configures(frames[i])

Stacked == EveryNeedMet /\ TaskOutermost /\ MainSelected /\ OpenInTime
IInv == TypeOK /\ Stacked

(* Without a bus reset in the middle of a request the interrupt stays off  *)
(* until its handler leaves.                                               *)
Active == frames # <<>> /\ Top.isr /\ Top.pc # "restore"

MaskedWhileActive ==
  /\ left.resetMidway = 0
  /\ \A i \in 1 .. Len(frames) - 1 : frames[i].isr => frames[i].pc = "restore"
  /\ Active => ~ep0.irq
  /\ ~ep0.irq => Active \/ host.stage = "off"

(* Nothing can go wrong with the address any more: the host h uses it, or  *)
(* is away until the handlers have returned.                               *)
Settled(h) == h.addressed \/ h.stage = "off"

(* The host waits for the status stage of a SetAddress.                    *)
Requested(h, e) == h.stage = "status" /\ h.req = "SetAddress" /\ ~e.stall

WillEnable(f) ==
  f.pc = "addressWait" \/ (f.pc = "statusIn" /\ f.then = "addressWait")
Decides == {"class?", "class", "standard?", "standard"}

(* What the innermost activation f may still do to the address is what the *)
(* host h waits for, if it is not settled: rq is the header, e endpoint 0. *)
ThenOK(f) ==
  f.pc \in {"lineWait", "lineData", "status", "statusOut"} => f.then \in {"standard?", "check?"}

Agrees(f, rq, e, h) ==
  /\ ThenOK(f)
  /\ f.pc = "header" /\ f.isr => e.setup
  /\ WillEnable(f) =>
       \/ Settled(h)
       \/ Requested(h, e) /\ ~e.setup /\ f.isr /\ (f.pc = "addressWait" => e.in # "free")
  /\ f.pc \in Decides /\ rq = "SetAddress" =>
       \/ Settled(h)
       \/ Requested(h, e) /\ e.setup /\ f.isr /\ (f.pc \in {"class", "standard"} => f.saw)
  /\ f.pc \notin Decides \cup {"header"} /\ ~WillEnable(f) /\ rq = "SetAddress" => Settled(h)

(* ... and the others wait until it is settled.                            *)
Waiting(f, h) == ThenOK(f) /\ (WillEnable(f) => Settled(h))

SetupFresh ==
  ep0.setup => host.stage = "off" \/ (host.stage = FirstStage(host.req) /\ ~ep0.stall)
AwayIsOff == state = "Unattached" => host.stage = "off"
TopAgrees == frames # <<>> => Agrees(Top, request, ep0, host)
RestWaits == \A i \in 1 .. Len(frames) - 1 : Waiting(frames[i], host)

AddressOK == AddressAgrees /\ SetupFresh /\ AwayIsOff /\ TopAgrees /\ RestWaits

(***************************************************************************)
(* The order of the requests                                               *)
(***************************************************************************)

(* Requests the host may make only of a configured device.                 *)
NeedsConfig == {"Configure", "SetLineEncoding"}

(* A SETUP waits in the endpoint e.                                        *)
Pending(e, h) ==
  /\ e.setup /\ h.req # Junk /\ (h.req \in NeedsConfig => h.config = 1)
  /\ h.stage = "off" \/ (h.stage = FirstStage(h.req) /\ e.in = "free" /\ ~e.out /\ ~e.stall)

(* The device has done its part of the last request.                       *)
Answered(e, h) ==
  /\ ~e.setup
  /\ \/ h.stage = "off"
     \/ h.stage = "idle" /\ ~e.out
     \/ /\ h.stage = "status" /\ ~e.out /\ e.in \in {"free", Zlp}
        /\ e.stall => h.req = Unknown

(* The host takes data, or has said that it has enough.                    *)
Sending(e, h) ==
  /\ ~e.setup
  /\ \/ h.stage = "off"
     \/ h.stage = "in" /\ ~e.out /\ ~e.stall /\ e.in \in {"free", h.req}
     \/ h.stage = "statusOut" /\ ~e.out /\ ~e.stall
     \/ h.stage = "idle" /\ e.out

(* The host h has come to the stage s, and nothing waits in e.             *)
Bare(s, e, h) ==
  ~e.setup /\ (h.stage = "off" \/ (h.stage = s /\ e.in = "free" /\ ~e.out /\ ~e.stall))

Unhandled(f, rq, e, h) ==
  /\ Pending(e, h) /\ rq = h.req
  /\ f.pc \in {"standard?", "standard", "check?", "check"} => rq \notin Class
  /\ f.pc \in {"check?", "check"} => rq \notin Standard
  /\ f.pc \in {"class", "standard"} => f.saw
Done(f, e, h) == Answered(e, h) /\ (f.pc \in {"standard", "check"} => ~f.saw)

(* An activation f of the interrupt goes in step with the host h: rq is    *)
(* the header, e endpoint 0.                                               *)
Serves(f, rq, e, h) ==
  /\ f.pc = "header" => Pending(e, h)
  /\ f.pc \in {"class?", "class"} => Unhandled(f, rq, e, h)
  /\ f.pc \in {"standard?", "standard", "check?", "check"} =>
       Unhandled(f, rq, e, h) \/ Done(f, e, h)
  /\ f.pc = "status" => Pending(e, h) /\ rq = h.req /\ rq = "GetStatus"
  /\ f.pc = "lineWait" =>
       Bare("in", e, h) /\ (h.stage = "in" => rq = h.req /\ rq = "GetLineEncoding")
  /\ f.pc = "lineData" =>
       /\ ~e.setup /\ h.config = 1
       /\ h.stage = "off" \/ (h.stage = (IF e.out THEN "status" ELSE "out") /\ e.in = "free"
                              /\ ~e.stall /\ rq = "SetLineEncoding")
  /\ f.pc = "statusIn" => Bare("status", e, h)
  /\ f.pc \in {"stream", "streamOut", "statusOut"} => Sending(e, h)
  /\ f.pc = "stream" /\ h.stage = "in" => rq = h.req
  /\ f.pc = "clearOut" => ~e.setup /\ h.stage \in {"off", "idle"}
  /\ f.pc \in {"addressWait", "addressState", "configState", "configure"} => Answered(e, h)
  /\ f.pc = "leave" => Pending(e, h) \/ Answered(e, h)

InStep ==
  /\ Active => Serves(Top, request, ep0, host)
  /\ ~Active => Pending(ep0, host) \/ Answered(ep0, host)

(* An activation of the main loop finds no request.                        *)
Idles == {"header", "class?", "class", "standard?", "standard", "check?", "check", "leave"}
Inert(f) == f.pc \in Idles /\ ~f.saw
TaskInert ==
  /\ left.eager = 0 /\ left.late <= 1
  /\ \A i \in 1 .. Len(frames) : ~frames[i].isr => left.late = 0 /\ Inert(frames[i])
  /\ ~ep0.irq => Active \/ ~ep0.setup

AsleepIsQuiet == state = "Suspended" => frames = <<>> /\ ~ep0.setup /\ bus = "asleep"

(* A line encoding set in a configuration the host has left is on its way  *)
(* to be forgotten.                                                        *)
Forgets(f) == f.pc = "configState" \/ (f.pc = "statusIn" /\ f.then = "configState")
Deconfigures(e, h) == e.setup /\ h.req = "Deconfigure"
LineForgotten ==
  baud /\ HasConfig =>
    host.config = 1 \/ Deconfigures(ep0, host) \/ (Active /\ Forgets(Top))

OrderOK == TaskInert /\ AsleepIsQuiet /\ InStep /\ LineForgotten

(***************************************************************************)
(* The stack of activations                                                *)
(***************************************************************************)

LEMMA TopIs ==
  ASSUME frames \in Seq(FrameType), frames # <<>>
  PROVE  /\ Len(frames) \in Nat /\ Len(frames) > 0 /\ Len(frames) \in 1 .. Len(frames)
         /\ 1 \in 1 .. Len(frames) /\ Top = frames[Len(frames)] /\ Top \in FrameType
BY DEF Top

LEMMA BecomeIs ==
  ASSUME frames \in Seq(FrameType), frames # <<>>, NEW f \in FrameType, Become(f)
  PROVE  /\ frames' \in Seq(FrameType) /\ frames' # <<>> /\ Len(frames') = Len(frames)
         /\ Top' = f /\ frames'[Len(frames)] = f
         /\ \A i \in 1 .. Len(frames) - 1 : frames'[i] = frames[i]
<1>1. Len(frames) \in Nat /\ Len(frames) > 0
  OBVIOUS
<1>2. frames' = [frames EXCEPT ![Len(frames)] = f]
  BY DEF Become
<1>3. frames' \in Seq(FrameType) /\ Len(frames') = Len(frames)
  BY <1>1, <1>2
<1>4. frames'[Len(frames)] = f /\ \A i \in 1 .. Len(frames) - 1 : frames'[i] = frames[i]
  BY <1>1, <1>2
<1>5. frames' # <<>>
  BY <1>1, <1>3
<1> QED
  BY <1>3, <1>4, <1>5 DEF Top

LEMMA PushIs ==
  ASSUME frames \in Seq(FrameType), NEW f \in FrameType, frames' = Append(frames, f)
  PROVE  /\ frames' \in Seq(FrameType) /\ frames' # <<>> /\ Len(frames') = Len(frames) + 1
         /\ Top' = f /\ frames'[Len(frames) + 1] = f
         /\ \A i \in 1 .. Len(frames) : frames'[i] = frames[i]
<1>1. /\ frames' \in Seq(FrameType) /\ Len(frames') = Len(frames) + 1
      /\ frames'[Len(frames) + 1] = f
      /\ \A i \in 1 .. Len(frames) : frames'[i] = frames[i]
  OBVIOUS
<1>2. frames' # <<>>
  BY <1>1
<1> QED
  BY <1>1, <1>2 DEF Top

LEMMA PopIs ==
  ASSUME frames \in Seq(FrameType), frames # <<>>,
         frames' = SubSeq(frames, 1, Len(frames) - 1)
  PROVE  /\ frames' \in Seq(FrameType) /\ Len(frames') = Len(frames) - 1
         /\ \A i \in 1 .. Len(frames) - 1 : frames'[i] = frames[i]
         /\ frames' = <<>> <=> Len(frames) = 1
         /\ frames' # <<>> => Top' = frames[Len(frames) - 1]
<1>1. /\ Len(frames) \in Nat /\ Len(frames) > 0
  OBVIOUS
<1>2. /\ frames' \in Seq(FrameType) /\ Len(frames') = Len(frames) - 1
      /\ \A i \in 1 .. Len(frames) - 1 : frames'[i] = frames[i]
  <2> DEFINE m == Len(frames) - 1
             t == SubSeq(frames, 1, m)
  <2>1. m \in Nat /\ \A i \in 1 .. m : frames[i] \in FrameType
    BY <1>1
  <2> HIDE DEF m, t
  <2>2. /\ t \in Seq(FrameType) /\ Len(t) = IF 1 <= m THEN m - 1 + 1 ELSE 0
        /\ \A i \in 1 .. m - 1 + 1 : t[i] = frames[1 + i - 1]
    BY <2>1, SubSeqProperties DEF t
  <2>3. /\ t \in Seq(FrameType) /\ Len(t) = m
        /\ \A i \in 1 .. m : t[i] = frames[i]
    BY <2>1, <2>2
  <2> QED
    BY <2>3 DEF m, t
<1>3. frames' = <<>> <=> Len(frames) = 1
  <2>1. frames' = <<>> <=> Len(frames') = 0
    BY <1>2
  <2> QED
    BY <1>1, <1>2, <2>1
<1>4. frames' # <<>> => Top' = frames[Len(frames) - 1]
  <2>1. frames' # <<>> => Len(frames') \in 1 .. Len(frames) - 1
    BY <1>1, <1>2
  <2> QED
    BY <1>2, <2>1 DEF Top
<1> QED
  BY <1>2, <1>3, <1>4

LEMMA Spends ==
  ASSUME left \in Budgets,
         NEW what \in {"request", "suspend", "reset", "unplug", "resetMidway",
                       "unplugMidway", "eager", "late"},
         Spend(what)
  PROVE  /\ left' \in Budgets
         /\ left.resetMidway = 0 => what # "resetMidway" /\ left'.resetMidway = 0
BY DEF Spend, Budgets

(***************************************************************************)
(* Steps of a handler: the innermost activation goes on to f.              *)
(***************************************************************************)

GoesOn(f) ==
  /\ frames # <<>> /\ Become(f) /\ f \in FrameType /\ FrameOK(f)
  /\ f.isr = Top.isr /\ f.prev = Top.prev
  /\ sel' \in 0 .. 4 /\ (NeedsEp0(f) => sel' = 0)
  /\ UNCHANGED <<main, disturbed>>
  /\ open => open'
  /\ HasConfig' => open' \/ Configures(f) \/ (HasConfig /\ ~Configures(Top))

LEMMA GoesOnKeeps ==
  ASSUME IInv, NEW f, GoesOn(f)
  PROVE  Stacked' /\ frames' \in Seq(FrameType)
<1> DEFINE n == Len(frames)
<1>1. /\ n \in Nat /\ n > 0 /\ n \in 1 .. n /\ 1 \in 1 .. n
      /\ Top = frames[n] /\ frames \in Seq(FrameType)
  BY TopIs DEF IInv, TypeOK, GoesOn, FrameType
<1>2. /\ frames' \in Seq(FrameType) /\ frames' # <<>> /\ Len(frames') = n
      /\ Top' = f /\ frames'[n] = f
      /\ \A i \in 1 .. n - 1 : frames'[i] = frames[i]
  BY <1>1, BecomeIs DEF GoesOn
<1>3. \A i \in 1 .. n : i = n \/ (i \in 1 .. n - 1 /\ i + 1 \in 1 .. n)
  BY <1>1
<1> HIDE DEF n
<1>4. ASSUME NEW i \in 1 .. n PROVE frames'[i].prev = frames[i].prev /\ frames'[i].isr = frames[i].isr
  BY <1>1, <1>2, <1>3 DEF GoesOn
<1>5. EveryNeedMet'
  <2> SUFFICES ASSUME NEW i \in 1 .. n
               PROVE  FrameOK(frames'[i]) /\ (NeedsEp0(frames'[i]) => SelAt(i)' = 0)
    BY <1>2 DEF EveryNeedMet
  <2>1. CASE i = n
    BY <1>2, <2>1 DEF GoesOn, SelAt
  <2>2. CASE i \in 1 .. n - 1 /\ i + 1 \in 1 .. n
    <3>1. i # n /\ i # Len(frames) /\ i # Len(frames')
      BY <1>1, <1>2, <2>2 DEF n
    <3>2. SelAt(i)' = SelAt(i)
      BY <1>4, <2>2, <3>1 DEF SelAt
    <3> QED
      BY <1>1, <1>2, <2>2, <3>2 DEF IInv, Stacked, EveryNeedMet, n
  <2> QED
    BY <1>3, <2>1, <2>2
<1>6. TaskOutermost'
  BY <1>2, <1>4 DEF TaskOutermost, IInv, Stacked, GoesOn, n
<1>7. MainSelected'
  <2>1. Base' = Base
    BY <1>1, <1>2, <1>4 DEF Base, GoesOn
  <2> QED
    BY <2>1 DEF MainSelected, IInv, Stacked, GoesOn
<1>8. OpenInTime'
  <2> SUFFICES ASSUME HasConfig', ~open' PROVE \E i \in 1 .. n : Configures(frames'[i])
    BY <1>2, Zenon DEF OpenInTime
  <2>1. CASE Configures(f)
    BY <1>1, <1>2, <2>1
  <2>2. CASE HasConfig /\ ~Configures(Top)
    <3>1. PICK i \in 1 .. n : Configures(frames[i])
      BY <2>2 DEF IInv, Stacked, OpenInTime, GoesOn, n
    <3>2. i # n
      BY <1>1, <2>2, <3>1
    <3> QED
      BY <1>2, <1>3, <3>1, <3>2
  <2> QED
    BY <2>1, <2>2 DEF GoesOn
<1> QED
  BY <1>2, <1>5, <1>6, <1>7, <1>8 DEF Stacked

(* A new activation.                                                       *)
LEMMA PushKeeps ==
  ASSUME IInv, NEW b \in BOOLEAN, frames' = Append(frames, Frame(b)), sel' = 0,
         b \/ (frames = <<>> /\ main'.pc = "taskEnd"),
         main' = main \/ (frames = <<>> /\ main'.pc = "taskEnd"),
         UNCHANGED <<disturbed, open, config, state>>
  PROVE  Stacked' /\ frames' \in Seq(FrameType)
<1> DEFINE n == Len(frames)
<1>1. n \in Nat /\ frames \in Seq(FrameType) /\ (frames = <<>> <=> n = 0)
  BY DEF IInv, TypeOK, FrameType
<1>2. Frame(b) \in FrameType /\ FrameOK(Frame(b)) /\ Frame(b).prev = sel /\ Frame(b).isr = b
  BY DEF Frame, FrameType, FrameOK, Places, IInv, TypeOK
<1>3. /\ frames' \in Seq(FrameType) /\ frames' # <<>> /\ Len(frames') = n + 1
      /\ frames'[n + 1] = Frame(b)
      /\ \A i \in 1 .. n : frames'[i] = frames[i]
  BY <1>1, <1>2, PushIs
<1> HIDE DEF n
<1>4. EveryNeedMet'
  <2> SUFFICES ASSUME NEW i \in 1 .. n + 1
               PROVE  FrameOK(frames'[i]) /\ (NeedsEp0(frames'[i]) => SelAt(i)' = 0)
    BY <1>3 DEF EveryNeedMet
  <2>1. CASE i = n + 1
    BY <1>2, <1>3, <2>1 DEF SelAt
  <2>2. CASE i \in 1 .. n
    <3>1. SelAt(i)' = SelAt(i)
      <4>1. CASE i = n
        <5>1. SelAt(i)' = frames'[n + 1].prev
          BY <1>1, <1>3, <4>1 DEF SelAt
        <5> QED
          BY <1>2, <1>3, <4>1, <5>1 DEF SelAt, n
      <4>2. CASE i # n
        <5>1. i + 1 \in 1 .. n /\ i # n + 1
          BY <1>1, <2>2, <4>2
        <5> QED
          BY <1>3, <4>2, <5>1 DEF SelAt, n
      <4> QED
        BY <4>1, <4>2
    <3> QED
      BY <1>3, <2>2, <3>1 DEF IInv, Stacked, EveryNeedMet, n
  <2>3. i = n + 1 \/ i \in 1 .. n
    BY <1>1
  <2> QED
    BY <2>1, <2>2, <2>3, Zenon
<1>5. TaskOutermost'
  <2> SUFFICES ASSUME NEW i \in 1 .. n + 1
               PROVE  frames'[i].isr \/ (i = 1 /\ main'.pc = "taskEnd")
    BY <1>3 DEF TaskOutermost
  <2>1. CASE i = n + 1
    BY <1>1, <1>2, <1>3, <2>1
  <2>2. CASE i \in 1 .. n
    <3>1. frames # <<>>
      BY <1>1, <2>2
    <3>2. frames[i].isr \/ (i = 1 /\ main.pc = "taskEnd")
      BY <2>2 DEF IInv, Stacked, TaskOutermost, n
    <3> QED
      BY <1>3, <2>2, <3>1, <3>2
  <2>3. i = n + 1 \/ i \in 1 .. n
    BY <1>1
  <2> QED
    BY <2>1, <2>2, <2>3, Zenon
<1>6. MainSelected'
  <2>1. Base' = Base
    <3>1. CASE frames = <<>>
      BY <1>1, <1>2, <1>3, <3>1 DEF Base
    <3>2. CASE frames # <<>>
      <4>1. 1 \in 1 .. n
        BY <1>1, <3>2
      <4> QED
        BY <1>3, <3>2, <4>1 DEF Base
    <3> QED
      BY <3>1, <3>2
  <2> QED
    BY <2>1 DEF IInv, Stacked, MainSelected
<1>7. OpenInTime'
  <2>1. \A i \in 1 .. n : i \in 1 .. n + 1
    BY <1>1
  <2> QED
    BY <1>3, <2>1 DEF IInv, Stacked, OpenInTime, HasConfig, n
<1> QED
  BY <1>3, <1>4, <1>5, <1>6, <1>7 DEF Stacked

(* An activation returns.                                                  *)
LEMMA PopKeeps ==
  ASSUME IInv, frames # <<>>, frames' = SubSeq(frames, 1, Len(frames) - 1),
         Top.pc \in {"leave", "restore"}, UNCHANGED <<main, disturbed, open, config, state>>,
         IF Top.isr THEN sel' = Top.prev ELSE sel' = sel
  PROVE  Stacked' /\ frames' \in Seq(FrameType)
<1> DEFINE n == Len(frames)
<1>1. /\ n \in Nat /\ n > 0 /\ n \in 1 .. n /\ 1 \in 1 .. n
      /\ Top = frames[n] /\ frames \in Seq(FrameType)
  BY TopIs DEF IInv, TypeOK, FrameType
<1>2. /\ frames' \in Seq(FrameType) /\ Len(frames') = n - 1
      /\ \A i \in 1 .. n - 1 : frames'[i] = frames[i]
      /\ frames' = <<>> <=> n = 1
  BY <1>1, PopIs
<1>3. Top.isr \/ (n = 1 /\ main.pc = "taskEnd")
  BY <1>1 DEF IInv, Stacked, TaskOutermost
<1> HIDE DEF n
<1>4. EveryNeedMet'
  <2> SUFFICES ASSUME NEW i \in 1 .. n - 1
               PROVE  FrameOK(frames'[i]) /\ (NeedsEp0(frames'[i]) => SelAt(i)' = 0)
    BY <1>2 DEF EveryNeedMet
  <2>1. i \in 1 .. n /\ i # n /\ n # 1 /\ (i = n - 1 \/ i + 1 \in 1 .. n - 1)
    BY <1>1
  <2>2. SelAt(i)' = SelAt(i)
    <3>1. CASE i = n - 1
      <4>1. SelAt(i)' = sel'
        BY <1>2, <3>1 DEF SelAt
      <4>2. i # Len(frames) /\ i + 1 = n
        BY <1>1, <2>1, <3>1 DEF n
      <4>3. SelAt(i) = frames[n].prev
        BY <4>2, Zenon DEF SelAt
      <4> QED
        BY <1>1, <1>3, <2>1, <4>1, <4>3
    <3>2. CASE i # n - 1
      BY <1>2, <2>1, <3>2 DEF SelAt, n
    <3> QED
      BY <3>1, <3>2
  <2> QED
    BY <1>2, <2>1, <2>2 DEF IInv, Stacked, EveryNeedMet, n
<1>5. TaskOutermost'
  <2>1. \A i \in 1 .. n - 1 : i \in 1 .. n
    BY <1>1
  <2> QED
    BY <1>2, <2>1 DEF IInv, Stacked, TaskOutermost, n
<1>6. MainSelected'
  <2>1. main.pc = "access" => Base' = Base
    <3>1. CASE n = 1
      BY <1>1, <1>2, <1>3, <3>1 DEF Base
    <3>2. CASE n # 1
      <4>1. 1 \in 1 .. n - 1
        BY <1>1, <3>2
      <4> QED
        BY <1>2, <3>2, <4>1 DEF Base
    <3> QED
      BY <3>1, <3>2
  <2> QED
    BY <2>1 DEF IInv, Stacked, MainSelected
<1>7. OpenInTime'
  <2> SUFFICES ASSUME HasConfig', ~open' PROVE \E i \in 1 .. n - 1 : Configures(frames'[i])
    BY <1>2, Zenon DEF OpenInTime
  <2>1. PICK i \in 1 .. n : Configures(frames[i])
    BY DEF IInv, Stacked, OpenInTime, HasConfig, n
  <2>2. i # n
    BY <1>1, <2>1 DEF Configures
  <2>3. i \in 1 .. n - 1
    BY <1>1, <2>2
  <2> QED
    BY <1>2, <2>1, <2>3
<1> QED
  BY <1>2, <1>4, <1>5, <1>6, <1>7 DEF Stacked

Ep0Type == [setup : BOOLEAN, out : BOOLEAN, in : {"free", Zlp} \cup Kinds,
            stall : BOOLEAN, irq : BOOLEAN]
HostType == [req : Kinds, stage : {"off", "idle", "in", "out", "status", "statusOut"},
             n : Nat, addressed : BOOLEAN, config : {0, 1}]
DevTypes ==
  /\ state \in {"Unattached", "Powered", "Default", "Addressed", "Configured", "Suspended"}
  /\ config \in {0, 1} /\ addressed \in BOOLEAN
  /\ open \in BOOLEAN /\ suspInt \in BOOLEAN /\ wakeInt \in BOOLEAN

LEMMA Types ==
  TypeOK <=>
    /\ main \in [pc : {"loop", "select", "access", "task", "taskEnd"},
                 ep : DataEndpoints \cup {0}, prev : 0 .. 4]
    /\ frames \in Seq(FrameType) /\ sel \in 0 .. 4 /\ request \in Kinds
    /\ DevTypes /\ baud \in BOOLEAN /\ ep0 \in Ep0Type
    /\ bus \in {"off", "on", "asleep"} /\ host \in HostType
    /\ disturbed \in BOOLEAN /\ left \in Budgets
BY Zenon DEF TypeOK, FrameType, DevTypes, Ep0Type, HostType

LEMMA TopOK ==
  ASSUME IInv, frames # <<>>
  PROVE  Top \in FrameType /\ FrameOK(Top) /\ (NeedsEp0(Top) => sel = 0)
<1>1. frames \in Seq(FrameType)
  BY Types DEF IInv
<1>2. Len(frames) \in 1 .. Len(frames) /\ Top = frames[Len(frames)] /\ Top \in FrameType
  BY <1>1, TopIs
<1> QED
  BY <1>2, Zenon DEF IInv, Stacked, EveryNeedMet, SelAt

LEMMA HandlerTypes ==
  ASSUME IInv, NEW f, GoesOn(f), request' \in Kinds, DevTypes', baud' \in BOOLEAN,
         ep0' \in Ep0Type, UNCHANGED <<bus, host>>, left' \in Budgets
  PROVE  IInv'
<1>1. Stacked' /\ frames' \in Seq(FrameType)
  BY GoesOnKeeps
<1>2. main' = main /\ disturbed' = disturbed /\ sel' \in 0 .. 4
  BY DEF GoesOn
<1>3. TypeOK
  BY DEF IInv
<1>4. TypeOK' <=>
    /\ main' \in [pc : {"loop", "select", "access", "task", "taskEnd"},
                 ep : DataEndpoints \cup {0}, prev : 0 .. 4]
    /\ frames' \in Seq(FrameType) /\ sel' \in 0 .. 4 /\ request' \in Kinds
    /\ DevTypes' /\ baud' \in BOOLEAN /\ ep0' \in Ep0Type
    /\ bus' \in {"off", "on", "asleep"} /\ host' \in HostType
    /\ disturbed' \in BOOLEAN /\ left' \in Budgets
  BY Zenon DEF TypeOK, FrameType, DevTypes, Ep0Type, HostType
<1> QED
  BY <1>1, <1>2, <1>3, <1>4, Types, Zenon DEF IInv

(* A step that leaves the device alone: the activation goes on at another  *)
(* place.                                                                  *)
LEMMA AtPlace ==
  ASSUME IInv, frames # <<>>, NEW to \in Places \ {"configure", "restore"},
         GoTo(to), UNCHANGED <<main, disturbed>>, UNCHANGED devVars,
         sel' = sel \/ sel' = 0, sel' = 0 \/ to \in {"check?", "leave"} \/ (to = "check" /\ ~Top.saw),
         Configures(Top) => to = "configState"
  PROVE  GoesOn([Top EXCEPT !.pc = to])
<1> DEFINE f == [Top EXCEPT !.pc = to]
<1>1. Top \in FrameType /\ FrameOK(Top)
  BY TopOK
<1>2. /\ f \in FrameType /\ f.pc = to /\ f.isr = Top.isr /\ f.prev = Top.prev
      /\ f.then = Top.then /\ f.saw = Top.saw
  BY <1>1 DEF FrameType
<1>3. Become(f)
  BY DEF GoTo
<1> HIDE DEF f
<1>4. FrameOK(f)
  BY <1>1, <1>2 DEF FrameOK
<1>5. NeedsEp0(f) => sel' = 0
  BY <1>2 DEF NeedsEp0, Waits
<1>6. Configures(Top) => Configures(f)
  BY <1>2 DEF Configures
<1>7. HasConfig' = HasConfig /\ open' = open
  BY DEF HasConfig, devVars
<1>8. sel' \in 0 .. 4
  BY DEF IInv, TypeOK
<1> QED
  BY <1>2, <1>3, <1>4, <1>5, <1>6, <1>7, <1>8 DEF GoesOn, f

(* Handlers that change nothing of the device but ep0, and stay at the     *)
(* control endpoint.                                                       *)
LEMMA PlainStep ==
  ASSUME IInv, frames # <<>>, NEW to \in Places \ {"configure", "restore"},
         GoTo(to), UNCHANGED <<main, disturbed, bus, host>>, UNCHANGED devVars,
         sel' = sel \/ sel' = 0, sel' = 0 \/ to \in {"check?", "leave"} \/ (to = "check" /\ ~Top.saw),
         Configures(Top) => to = "configState",
         request' \in Kinds, baud' \in BOOLEAN, ep0' \in Ep0Type, left' \in Budgets
  PROVE  IInv'
<1>1. GoesOn([Top EXCEPT !.pc = to])
  BY AtPlace
<1>2. DevTypes'
  BY Types DEF IInv, DevTypes, devVars
<1> QED
  BY <1>1, <1>2, HandlerTypes

LEMMA ReadHeaderKeeps == ASSUME IInv, ReadHeader PROVE IInv'
<1>1. /\ frames # <<>> /\ Top.pc = "header" /\ GoTo("class?")
      /\ UNCHANGED <<main, sel, baud, ep0, bus, host, disturbed, left>> /\ UNCHANGED devVars
      /\ request' = IF ep0.setup THEN host.req ELSE Junk
  BY DEF ReadHeader, Header, At
<1>2. sel = 0 /\ ~Configures(Top)
  BY <1>1, TopOK DEF NeedsEp0, Configures
<1>3. request' \in Kinds /\ baud' \in BOOLEAN /\ ep0' \in Ep0Type /\ left' \in Budgets
  BY <1>1, Types DEF IInv, HostType, Kinds
<1>4. "class?" \in Places \ {"configure", "restore"}
  BY DEF Places
<1> QED
  BY <1>1, <1>2, <1>3, <1>4, PlainStep

LEMMA ReadFlagsKeep == ASSUME IInv, ReadFlags PROVE IInv'
<1> SUFFICES ASSUME NEW from \in {"class?", "standard?", "check?"},
                    NEW to \in {"class", "standard", "check"},
                    from = "class?" => to = "class", from = "standard?" => to = "standard",
                    from = "check?" => to = "check", ReadFlag(from, to)
             PROVE  IInv'
  BY DEF ReadFlags
<1> DEFINE f == [Top EXCEPT !.pc = to, !.saw = IsSETUPReceived]
<1>1. /\ frames # <<>> /\ Top.pc = from /\ Become(f)
      /\ UNCHANGED <<main, sel, request, baud, ep0, bus, host, disturbed>>
      /\ UNCHANGED devVars
      /\ left' = left \/ Spend("late")
  BY DEF ReadFlag
<1>2. Top \in FrameType /\ FrameOK(Top) /\ (NeedsEp0(Top) => sel = 0)
  BY <1>1, TopOK
<1>3. IsSETUPReceived \in BOOLEAN /\ (IsSETUPReceived => sel = 0)
  BY Types DEF IInv, IsSETUPReceived, Ep0Type
<1>4. /\ f \in FrameType /\ f.pc = to /\ f.isr = Top.isr /\ f.prev = Top.prev
      /\ f.then = Top.then /\ f.saw = IsSETUPReceived
  <2> HIDE DEF IsSETUPReceived
  <2> QED
    BY <1>2, <1>3 DEF FrameType, Places
<1> HIDE DEF f
<1>5. FrameOK(f) /\ ~Configures(Top)
  BY <1>1, <1>2, <1>4 DEF FrameOK, Configures
<1>6. NeedsEp0(f) => sel = 0
  <2>1. CASE to = "check"
    BY <1>3, <1>4, <2>1 DEF NeedsEp0, Waits
  <2>2. CASE to # "check"
    BY <1>1, <1>2, <2>2 DEF NeedsEp0
  <2> QED
    BY <2>1, <2>2
<1>7. HasConfig' = HasConfig /\ open' = open
  BY <1>1 DEF HasConfig, devVars
<1>8. GoesOn(f)
  BY <1>1, <1>4, <1>5, <1>6, <1>7, Types DEF GoesOn, IInv
<1>9. DevTypes' /\ request' \in Kinds /\ baud' \in BOOLEAN /\ ep0' \in Ep0Type /\ left' \in Budgets
  BY <1>1, Types, Spends DEF IInv, DevTypes, devVars
<1> QED
  BY <1>1, <1>8, <1>9, HandlerTypes

LEMMA PassKeeps ==
  ASSUME IInv, NEW from \in {"class", "standard"}, NEW handled, NEW to \in {"standard?", "check?"},
         Pass(from, handled, to)
  PROVE  IInv'
<1>1. /\ frames # <<>> /\ Top.pc = from /\ GoTo(to)
      /\ UNCHANGED <<main, sel, request, baud, ep0, bus, host, disturbed, left>>
      /\ UNCHANGED devVars
  BY DEF Pass, At
<1>2. sel = 0 /\ ~Configures(Top)
  BY <1>1, TopOK DEF NeedsEp0, Configures
<1>3. request' \in Kinds /\ baud' \in BOOLEAN /\ ep0' \in Ep0Type /\ left' \in Budgets
  BY <1>1, Types DEF IInv
<1>4. to \in Places \ {"configure", "restore"}
  BY DEF Places
<1> QED
  BY <1>1, <1>2, <1>3, <1>4, PlainStep

(* A request begins. *)
Begun(to, then) == [Top EXCEPT !.pc = to, !.then = then, !.n = Packets]

LEMMA Begins ==
  ASSUME IInv, NEW from \in {"class", "standard"}, NEW r,
         NEW to \in {"lineWait", "lineData", "statusIn", "statusOut", "status", "stream"},
         NEW then \in {"standard?", "check?", "configState", "addressWait"},
         Begin(from, r, to, then), sel' \in 0 .. 4, sel' = sel \/ to = "status",
         open' = open, HasConfig' => HasConfig \/ (to = "statusIn" /\ then = "configState")
  PROVE  /\ GoesOn(Begun(to, then)) /\ Top.saw /\ request = r /\ Top.pc = from
         /\ UNCHANGED <<main, request, baud, bus, host, disturbed, left>>
         /\ sel = 0 /\ frames # <<>> /\ ~ComPending /\ Begun(to, then) \in FrameType
         /\ Begun(to, then).pc = to /\ Begun(to, then).then = then
         /\ Begun(to, then).isr = Top.isr
<1> DEFINE f == Begun(to, then)
<1>1. /\ frames # <<>> /\ Top.pc = from /\ Top.saw /\ request = r /\ Become(f) /\ ~ComPending
      /\ UNCHANGED <<main, request, baud, bus, host, disturbed, left>>
  BY DEF Begin, At, Begun
<1>2. Top \in FrameType /\ FrameOK(Top) /\ (NeedsEp0(Top) => sel = 0)
  BY <1>1, TopOK
<1>3. /\ f \in FrameType /\ f.pc = to /\ f.isr = Top.isr /\ f.prev = Top.prev
      /\ f.then = then /\ f.saw = Top.saw
  BY <1>2, DeviceAssumption DEF FrameType, Places, Waits, Begun
<1>4. sel = 0 /\ ~Configures(Top)
  BY <1>1, <1>2 DEF NeedsEp0, Configures
<1> HIDE DEF f
<1>5. FrameOK(f)
  BY <1>3 DEF FrameOK
<1>6. NeedsEp0(f) => sel' = 0
  BY <1>3, <1>4 DEF NeedsEp0, Waits
<1>7. to = "statusIn" /\ then = "configState" => Configures(f)
  BY <1>3 DEF Configures
<1>8. GoesOn(f)
  BY <1>1, <1>3, <1>4, <1>5, <1>6, <1>7 DEF GoesOn
<1> QED
  BY <1>1, <1>3, <1>4, <1>8 DEF f

LEMMA BeginsTyped ==
  ASSUME IInv, NEW from \in {"class", "standard"}, NEW r,
         NEW to \in {"lineWait", "lineData", "statusIn", "statusOut", "status", "stream"},
         NEW then \in {"standard?", "check?", "configState", "addressWait"},
         Begin(from, r, to, then), sel' \in 0 .. 4, sel' = sel \/ to = "status",
         open' = open, HasConfig' => HasConfig \/ (to = "statusIn" /\ then = "configState"),
         DevTypes', ep0' \in Ep0Type
  PROVE  IInv'
<1>1. /\ GoesOn(Begun(to, then))
      /\ UNCHANGED <<main, request, baud, bus, host, disturbed, left>>
  BY Begins
<1>2. request' \in Kinds /\ baud' \in BOOLEAN /\ left' \in Budgets
  BY <1>1, Types DEF IInv
<1> QED
  BY <1>1, <1>2, HandlerTypes

LEMMA AnswerTypes ==
  ASSUME IInv
  PROVE  /\ Acknowledged \in Ep0Type /\ Answer(ep0) \in Ep0Type
         /\ Answer(Acknowledged) \in Ep0Type /\ EmptyPacket \in Ep0Type
         /\ [ep0 EXCEPT !.out = FALSE] \in Ep0Type
         /\ [Acknowledged EXCEPT !.stall = TRUE] \in Ep0Type
         /\ (UNCHANGED devVars => DevTypes' /\ open' = open /\ HasConfig' = HasConfig)
<1>1. ep0 \in Ep0Type /\ request \in Kinds /\ DevTypes
  BY Types DEF IInv
<1>2. Acknowledged \in Ep0Type
  BY <1>1 DEF Acknowledged, Ep0Type
<1>3. Answer(ep0) \in Ep0Type /\ Answer(Acknowledged) \in Ep0Type
  BY <1>1, <1>2 DEF Answer, Ep0Type
<1>4. EmptyPacket \in Ep0Type /\ [ep0 EXCEPT !.out = FALSE] \in Ep0Type
  BY <1>1 DEF EmptyPacket, Ep0Type, Zlp
<1>5. [Acknowledged EXCEPT !.stall = TRUE] \in Ep0Type
  BY <1>2 DEF Ep0Type
<1>6. UNCHANGED devVars => DevTypes' /\ open' = open /\ HasConfig' = HasConfig
  BY <1>1 DEF DevTypes, HasConfig, devVars
<1> QED
  BY <1>2, <1>3, <1>4, <1>5, <1>6

LEMMA ClassRequestKeeps == ASSUME IInv, ClassRequest PROVE IInv'
<1>1. CASE Pass("class", Class, "standard?")
  BY <1>1, PassKeeps
<1>2. ASSUME NEW r, NEW to, Begin("class", r, to, "standard?"),
             to \in {"lineWait", "lineData", "statusIn"},
             ep0' = Acknowledged, UNCHANGED sel, UNCHANGED devVars
      PROVE  IInv'
  <2>1. sel' \in 0 .. 4
    BY <1>2, Types DEF IInv
  <2>2. /\ to \in {"lineWait", "lineData", "statusIn", "statusOut", "status", "stream"}
        /\ "standard?" \in {"standard?", "check?", "configState", "addressWait"}
        /\ "class" \in {"class", "standard"}
    BY <1>2
  <2> QED
    BY <1>2, <2>1, <2>2, AnswerTypes, BeginsTyped
<1>3. Begin("class", "SetControlLineState", StatusStage, "standard?") => StatusStage = "statusIn"
  BY DEF Begin, StatusStage, In
<1> QED
  BY <1>1, <1>2, <1>3 DEF ClassRequest

LEMMA StandardRequestKeeps == ASSUME IInv, StandardRequest PROVE IInv'
<1>1. CASE Pass("standard", Standard, "check?")
  BY <1>1, PassKeeps
<1>2. ASSUME NEW r, NEW to, NEW then, Begin("standard", r, to, then),
             to \in {"statusIn", "statusOut", "stream", "status"}, then \in {"check?", "addressWait"},
             ep0' \in Ep0Type, sel' = sel \/ (sel' \in DataEndpoints /\ to = "status"),
             UNCHANGED devVars
      PROVE  IInv'
  <2>1. sel' \in 0 .. 4 /\ (sel' = sel \/ to = "status")
    BY <1>2, Types DEF IInv, DataEndpoints
  <2>2. /\ to \in {"lineWait", "lineData", "statusIn", "statusOut", "status", "stream"}
        /\ then \in {"standard?", "check?", "configState", "addressWait"}
        /\ "standard" \in {"class", "standard"}
    BY <1>2
  <2> QED
    BY <1>2, <2>1, <2>2, AnswerTypes, BeginsTyped
<1>3. /\ Begin("standard", "SetAddress", StatusStage, "addressWait") => StatusStage = "statusIn"
      /\ Begin("standard", "GetConfiguration", StatusStage, "check?") => StatusStage = "statusOut"
  BY DEF Begin, StatusStage, In
<1>4. ASSUME NEW r \in {"Configure", "Deconfigure"}, NEW c \in {0, 1}, SetConfiguration(r, c)
      PROVE  IInv'
  <2>1. /\ Begin("standard", r, StatusStage, "configState") /\ StatusStage = "statusIn"
        /\ config' = c /\ ep0' = Acknowledged
        /\ UNCHANGED <<sel, state, addressed, open, suspInt, wakeInt>>
    BY <1>4 DEF SetConfiguration, Begin, StatusStage, In
  <2>2. sel' \in 0 .. 4 /\ DevTypes'
    BY <1>4, <2>1, Types DEF IInv, DevTypes
  <2> QED
    BY <2>1, <2>2, AnswerTypes, BeginsTyped
<1>5. ep0' \in {ep0, Acknowledged, Answer(Acknowledged)} => ep0' \in Ep0Type
  BY AnswerTypes, Types DEF IInv
<1> QED
  BY <1>1, <1>2, <1>3, <1>4, <1>5 DEF StandardRequest

LEMMA ProceedKeeps ==
  ASSUME IInv, NEW from \in Waits \cup {"clearOut"}, NEW ready, NEW e \in Ep0Type,
         NEW to \in Places \ {"configure", "restore"},
         Proceed(from, ready, e, to), Configures(Top) => to = "configState",
         sel' = sel, UNCHANGED devVars, baud' \in BOOLEAN, UNCHANGED disturbed
  PROVE  IInv'
<1>1. /\ frames # <<>> /\ Top.pc = from /\ GoTo(to) /\ ep0' = e
      /\ UNCHANGED <<main, sel, request, bus, host, disturbed, left>>
  BY DEF Proceed, At
<1>2. sel = 0
  BY <1>1, TopOK DEF NeedsEp0
<1>3. request' \in Kinds /\ left' \in Budgets
  BY <1>1, Types DEF IInv
<1> QED
  BY <1>1, <1>2, <1>3, PlainStep

(* Where a request goes on. *)
LEMMA NextPlaces ==
  /\ StatusStage \in Places \ {"configure", "restore"}
  /\ IInv /\ frames # <<>> => Top.then \in Places \ {"configure", "restore"}
  /\ {"clearOut", "streamOut", "check?", "addressState", "check", "leave"}
       \subseteq Places \ {"configure", "restore"}
<1>1. StatusStage \in Places \ {"configure", "restore"}
  BY DEF StatusStage, Places, Waits
<1>2. IInv /\ frames # <<>> => Top.then \in Places \ {"configure", "restore"}
  BY TopOK DEF FrameOK, Places, Waits
<1> QED
  BY <1>1, <1>2 DEF Places, Waits

LEMMA LineEncodingKeeps == ASSUME IInv, GetLineEncoding \/ SetLineEncoding PROVE IInv'
<1>1. CASE GetLineEncoding
  <2>1. Proceed("lineWait", ep0.in = "free", Answer(ep0), StatusStage) /\ sel' = sel
        /\ UNCHANGED disturbed /\ UNCHANGED baud /\ UNCHANGED devVars
    BY <1>1 DEF GetLineEncoding, Proceed
  <2>2. ~Configures(Top) /\ baud' \in BOOLEAN
    BY <2>1, Types DEF Proceed, At, Configures, IInv
  <2>3. "lineWait" \in Waits \cup {"clearOut"}
    BY DEF Waits
  <2> QED
    BY <2>1, <2>2, <2>3, AnswerTypes, NextPlaces, ProceedKeeps
<1>2. CASE SetLineEncoding
  <2>1. /\ Proceed("lineData", DataReceived \/ Gone, [ep0 EXCEPT !.out = FALSE],
                   IF DataReceived THEN StatusStage ELSE Top.then)
        /\ sel' = sel /\ UNCHANGED disturbed /\ UNCHANGED devVars
    BY <1>2 DEF SetLineEncoding, Proceed
  <2>2. ~Configures(Top) /\ frames # <<>>
    BY <2>1 DEF Proceed, At, Configures
  <2>3. baud' \in BOOLEAN
    BY <1>2 DEF SetLineEncoding
  <2>4. "lineData" \in Waits \cup {"clearOut"}
    BY DEF Waits
  <2>5. (IF DataReceived THEN StatusStage ELSE Top.then) \in Places \ {"configure", "restore"}
    BY <2>2, NextPlaces
  <2> QED
    BY <2>1, <2>2, <2>3, <2>4, <2>5, AnswerTypes, ProceedKeeps
<1> QED
  BY <1>1, <1>2

LEMMA ClearStatusStageKeeps == ASSUME IInv, ClearStatusStage PROVE IInv'
<1>1. PICK from \in {"statusOut", "statusIn"}, ready \in {ep0.out \/ Gone, ep0.in = "free" \/ Gone},
           e \in {[ep0 EXCEPT !.out = FALSE], EmptyPacket, ep0} :
        Proceed(from, ready, e, Top.then)
  BY DEF ClearStatusStage
<1>2. /\ UNCHANGED baud /\ UNCHANGED devVars /\ sel' = sel /\ UNCHANGED disturbed
      /\ frames # <<>> /\ Top.pc = from
  BY <1>1 DEF ClearStatusStage, Proceed, At
<1>3. Configures(Top) => Top.then = "configState"
  BY <1>2 DEF Configures
<1>4. from \in Waits \cup {"clearOut"} /\ e \in Ep0Type /\ baud' \in BOOLEAN
  BY <1>2, AnswerTypes, Types DEF Waits, IInv
<1> QED
  BY <1>1, <1>2, <1>3, <1>4, NextPlaces, ProceedKeeps

LEMMA GetStatusKeeps == ASSUME IInv, GetStatus PROVE IInv'
<1>1. /\ frames # <<>> /\ Top.pc = "status" /\ GoTo(StatusStage) /\ sel' = 0
      /\ ep0' = Answer(Acknowledged)
      /\ UNCHANGED <<main, request, baud, bus, host, disturbed, left>> /\ UNCHANGED devVars
  BY DEF GetStatus, At, ControlAgain
<1>2. ~Configures(Top) /\ ep0' \in Ep0Type
  BY <1>1, AnswerTypes DEF Configures
<1>3. request' \in Kinds /\ baud' \in BOOLEAN /\ left' \in Budgets
  BY <1>1, Types DEF IInv
<1> QED
  BY <1>1, <1>2, <1>3, NextPlaces, PlainStep

LEMMA StreamKeeps == ASSUME IInv, Stream PROVE IInv'
<1>1. /\ frames # <<>> /\ Top.pc = "stream"
      /\ UNCHANGED <<main, sel, request, baud, bus, host, disturbed, left>>
      /\ UNCHANGED devVars
  BY DEF Stream, At
<1>2. /\ Top \in FrameType /\ FrameOK(Top) /\ sel = 0 /\ ~Configures(Top)
  BY <1>1, TopOK DEF NeedsEp0, Waits, Configures
<1>3. request' \in Kinds /\ baud' \in BOOLEAN /\ left' \in Budgets /\ DevTypes' /\ HasConfig' = HasConfig
  BY <1>1, Types, AnswerTypes DEF IInv
<1>4. CASE ~Cut /\ ~ep0.out /\ Top.n > 0
  <2> DEFINE f == [Top EXCEPT !.n = @ - 1]
  <2>1. Become(f) /\ ep0' = Answer(ep0)
    BY <1>4 DEF Stream
  <2>2. /\ f \in FrameType /\ f.pc = "stream" /\ f.isr = Top.isr /\ f.prev = Top.prev
        /\ f.then = Top.then
    BY <1>1, <1>2, <1>4 DEF FrameType
  <2> HIDE DEF f
  <2>3. FrameOK(f)
    BY <1>2, <2>2 DEF FrameOK
  <2>4. GoesOn(f)
    BY <1>1, <1>2, <1>3, <2>1, <2>2, <2>3 DEF GoesOn, devVars
  <2> QED
    BY <1>1, <1>3, <2>1, <2>4, AnswerTypes, HandlerTypes
<1>5. CASE ~(~Cut /\ ~ep0.out /\ Top.n > 0)
  <2>1. PICK to \in {"clearOut", "streamOut"} : GoTo(to)
    BY <1>5 DEF Stream
  <2>2. ep0' = ep0
    BY <1>5 DEF Stream
  <2>3. ep0' \in Ep0Type
    BY <2>2, Types DEF IInv
  <2>4. to \in Places \ {"configure", "restore"}
    BY DEF Places, Waits
  <2> QED
    BY <1>1, <1>2, <1>3, <2>1, <2>3, <2>4, PlainStep
<1> QED
  BY <1>4, <1>5

LEMMA StreamEndsKeeps == ASSUME IInv, StreamEnds PROVE IInv'
<1>1. UNCHANGED baud /\ UNCHANGED devVars
  BY DEF StreamEnds
<1>2. ep0 \in Ep0Type /\ baud' \in BOOLEAN /\ [ep0 EXCEPT !.out = FALSE] \in Ep0Type
  BY <1>1, Types, AnswerTypes DEF IInv
<1>3. CASE Proceed("streamOut", ep0.out \/ Cut, ep0, "clearOut")
  <2>1. ~Configures(Top) /\ sel' = sel /\ UNCHANGED disturbed /\ "streamOut" \in Waits \cup {"clearOut"}
    BY <1>3 DEF Proceed, At, Configures, Waits
  <2> QED
    BY <1>1, <1>2, <1>3, <2>1, NextPlaces, ProceedKeeps
<1>4. CASE Proceed("clearOut", TRUE, [ep0 EXCEPT !.out = FALSE], "check?")
  <2>1. ~Configures(Top) /\ sel' = sel /\ UNCHANGED disturbed /\ "clearOut" \in Waits \cup {"clearOut"}
    BY <1>4 DEF Proceed, At, Configures, Waits
  <2> QED
    BY <1>1, <1>2, <1>4, <2>1, NextPlaces, ProceedKeeps
<1> QED
  BY <1>3, <1>4 DEF StreamEnds

(* The steps that change the device. *)
LEMMA DeviceStep ==
  ASSUME IInv, NEW from \in {"addressWait", "addressState"}, NEW ready,
         NEW to \in {"addressState", "check?"}, Proceed(from, ready, ep0, to),
         from = "addressWait" <=> to = "addressState", UNCHANGED baud, DevTypes', open' = open,
         HasConfig' => HasConfig
  PROVE  IInv'
<1> DEFINE f == [Top EXCEPT !.pc = to]
<1>1. /\ frames # <<>> /\ Top.pc = from /\ Become(f) /\ ep0' = ep0
      /\ UNCHANGED <<main, sel, request, bus, host, disturbed, left>>
  BY DEF Proceed, At, GoTo
<1>2. Top \in FrameType /\ FrameOK(Top) /\ ~Configures(Top)
  BY <1>1, TopOK DEF Configures
<1>3. /\ f \in FrameType /\ f.pc = to /\ f.isr = Top.isr /\ f.prev = Top.prev
      /\ f.then = Top.then
  BY <1>2 DEF FrameType, Places
<1> HIDE DEF f
<1>4. FrameOK(f) /\ ~NeedsEp0(f)
  BY <1>2, <1>3 DEF FrameOK, NeedsEp0, Waits
<1>5. GoesOn(f)
  BY <1>1, <1>2, <1>3, <1>4, Types DEF GoesOn, IInv
<1>6. request' \in Kinds /\ baud' \in BOOLEAN /\ ep0' \in Ep0Type /\ left' \in Budgets
  BY <1>1, Types DEF IInv
<1> QED
  BY <1>1, <1>5, <1>6, HandlerTypes

LEMMA AddressKeeps == ASSUME IInv, EnableAddress \/ AddressState PROVE IInv'
<1>1. CASE EnableAddress
  <2>1. /\ Proceed("addressWait", AddressTaken, ep0, "addressState") /\ UNCHANGED baud
        /\ addressed' = TRUE /\ UNCHANGED <<state, config, open, suspInt, wakeInt>>
    BY <1>1 DEF EnableAddress
  <2>2. DevTypes' /\ HasConfig' = HasConfig
    BY <2>1, Types DEF IInv, DevTypes, HasConfig
  <2> QED
    BY <2>1, <2>2, DeviceStep
<1>2. CASE AddressState
  <2>1. /\ Proceed("addressState", TRUE, ep0, "check?") /\ UNCHANGED baud
        /\ state' = "Addressed" /\ UNCHANGED <<config, addressed, open, suspInt, wakeInt>>
    BY <1>2 DEF AddressState
  <2>2. DevTypes' /\ (HasConfig' => HasConfig)
    BY <2>1, Types DEF IInv, DevTypes, HasConfig
  <2> QED
    BY <2>1, <2>2, DeviceStep
<1> QED
  BY <1>1, <1>2

LEMMA ConfigStateKeeps == ASSUME IInv, ConfigState PROVE IInv'
<1> DEFINE f == [Top EXCEPT !.pc = "configure", !.n = 1]
<1>1. /\ frames # <<>> /\ Top.pc = "configState" /\ Become(f) /\ baud' = FALSE
      /\ state' \in {"Configured", "Powered"}
      /\ UNCHANGED <<main, sel, request, ep0, bus, host, disturbed, left>>
      /\ UNCHANGED <<config, addressed, open, suspInt, wakeInt>>
  BY DEF ConfigState, At
<1>2. Top \in FrameType /\ FrameOK(Top)
  BY <1>1, TopOK
<1>3. /\ f \in FrameType /\ f.pc = "configure" /\ f.isr = Top.isr /\ f.prev = Top.prev
      /\ f.then = Top.then /\ f.n = 1
  BY <1>2 DEF FrameType, Places
<1> HIDE DEF f
<1>4. FrameOK(f) /\ ~NeedsEp0(f) /\ Configures(f)
  BY <1>2, <1>3 DEF FrameOK, NeedsEp0, Waits, Configures
<1>5. GoesOn(f)
  BY <1>1, <1>3, <1>4, Types DEF GoesOn, IInv
<1>6. request' \in Kinds /\ baud' \in BOOLEAN /\ ep0' \in Ep0Type /\ left' \in Budgets /\ DevTypes'
  BY <1>1, Types DEF IInv, DevTypes
<1> QED
  BY <1>1, <1>5, <1>6, HandlerTypes

LEMMA ConfigureEndpointsKeeps == ASSUME IInv, ConfigureEndpoints PROVE IInv'
<1>1. /\ frames # <<>> /\ Top.pc = "configure" /\ sel' = Table[Top.n]
      /\ UNCHANGED <<main, request, baud, ep0, bus, host, disturbed, left>>
      /\ UNCHANGED <<state, config, addressed, suspInt, wakeInt>>
  BY DEF ConfigureEndpoints, At
<1>2. Top \in FrameType /\ FrameOK(Top) /\ Top.n \in 1 .. 3
  BY <1>1, TopOK DEF FrameOK
<1>3. sel' \in 0 .. 4
  <2>1. \A k \in 1 .. 3 : Table[k] \in 0 .. 4
    BY DEF Table
  <2> QED
    BY <1>1, <1>2, <2>1
<1>4. request' \in Kinds /\ baud' \in BOOLEAN /\ ep0' \in Ep0Type /\ left' \in Budgets
  BY <1>1, Types DEF IInv
<1>5. Len(Table) = 3
  BY DEF Table
<1>6. CASE Top.n = 3
  <2> DEFINE f == [Top EXCEPT !.pc = "check?"]
  <2>1. Become(f) /\ open' = TRUE
    BY <1>5, <1>6 DEF ConfigureEndpoints, GoTo
  <2>2. /\ f \in FrameType /\ f.pc = "check?" /\ f.isr = Top.isr /\ f.prev = Top.prev
        /\ f.then = Top.then
    BY <1>2 DEF FrameType, Places
  <2> HIDE DEF f
  <2>3. FrameOK(f) /\ ~NeedsEp0(f)
    BY <1>2, <2>2 DEF FrameOK, NeedsEp0, Waits
  <2>4. GoesOn(f)
    BY <1>1, <1>3, <2>1, <2>2, <2>3 DEF GoesOn
  <2>5. DevTypes'
    BY <1>1, <2>1, Types DEF IInv, DevTypes
  <2> QED
    BY <1>1, <1>4, <2>4, <2>5, HandlerTypes
<1>7. CASE Top.n # 3
  <2> DEFINE f == [Top EXCEPT !.n = @ + 1]
  <2>1. Become(f) /\ open' = open
    BY <1>5, <1>7 DEF ConfigureEndpoints
  <2>2. /\ f \in FrameType /\ f.pc = "configure" /\ f.isr = Top.isr /\ f.prev = Top.prev
        /\ f.then = Top.then /\ f.n = Top.n + 1
    BY <1>1, <1>2 DEF FrameType
  <2> HIDE DEF f
  <2>3. FrameOK(f) /\ ~NeedsEp0(f) /\ Configures(f)
    BY <1>2, <1>7, <2>2 DEF FrameOK, NeedsEp0, Waits, Configures
  <2>4. GoesOn(f)
    BY <1>1, <1>3, <2>1, <2>2, <2>3 DEF GoesOn
  <2>5. DevTypes'
    BY <1>1, <2>1, Types DEF IInv, DevTypes
  <2> QED
    BY <1>1, <1>4, <2>4, <2>5, HandlerTypes
<1> QED
  BY <1>6, <1>7

LEMMA StallRestKeeps == ASSUME IInv, StallRest PROVE IInv'
<1>1. /\ frames # <<>> /\ Top.pc = "check" /\ GoTo("leave")
      /\ UNCHANGED <<main, sel, request, baud, bus, host, disturbed, left>> /\ UNCHANGED devVars
      /\ ep0' \in {[Acknowledged EXCEPT !.stall = TRUE], ep0}
  BY DEF StallRest, At
<1>2. ~Configures(Top)
  BY <1>1 DEF Configures
<1>3. ep0' \in Ep0Type /\ request' \in Kinds /\ baud' \in BOOLEAN /\ left' \in Budgets
  BY <1>1, AnswerTypes, Types DEF IInv
<1> QED
  BY <1>1, <1>2, <1>3, NextPlaces, PlainStep

LEMMA Returns ==
  ASSUME IInv, frames # <<>>, frames' = SubSeq(frames, 1, Len(frames) - 1),
         Top.pc \in {"leave", "restore"},
         UNCHANGED <<main, request, baud, ep0, bus, host, disturbed, left>>, UNCHANGED devVars,
         IF Top.isr THEN sel' = Top.prev ELSE sel' = sel
  PROVE  IInv'
<1>1. Stacked' /\ frames' \in Seq(FrameType)
  BY PopKeeps DEF devVars
<1>2. sel' \in 0 .. 4 /\ DevTypes'
  BY TopOK, AnswerTypes, Types DEF FrameType, IInv
<1>3. TypeOK' <=>
    /\ main' \in [pc : {"loop", "select", "access", "task", "taskEnd"},
                 ep : DataEndpoints \cup {0}, prev : 0 .. 4]
    /\ frames' \in Seq(FrameType) /\ sel' \in 0 .. 4 /\ request' \in Kinds
    /\ DevTypes' /\ baud' \in BOOLEAN /\ ep0' \in Ep0Type
    /\ bus' \in {"off", "on", "asleep"} /\ host' \in HostType
    /\ disturbed' \in BOOLEAN /\ left' \in Budgets
  BY Zenon DEF TypeOK, FrameType, DevTypes, Ep0Type, HostType
<1> QED
  BY <1>1, <1>2, <1>3, Types DEF IInv

LEMMA LeaveKeeps == ASSUME IInv, ComLeave \/ ComReturn PROVE IInv'
<1>1. CASE ComReturn
  <2>1. /\ frames # <<>> /\ Top.pc = "restore" /\ frames' = SubSeq(frames, 1, Len(frames) - 1)
        /\ sel' = Top.prev /\ UNCHANGED devVars
        /\ UNCHANGED <<main, request, baud, ep0, bus, host, disturbed, left>>
    BY <1>1 DEF ComReturn, At, Reselect
  <2>2. Top.isr
    BY <2>1, TopOK DEF FrameOK
  <2> QED
    BY <2>1, <2>2, Returns
<1>2. CASE ComLeave /\ ~Top.isr
  BY <1>2, Returns DEF ComLeave, At
<1>3. CASE ComLeave /\ Top.isr
  <2> DEFINE f == [Top EXCEPT !.pc = "restore"]
  <2>1. /\ frames # <<>> /\ Top.pc = "leave" /\ Become(f) /\ sel' = 0
        /\ ep0' = [ep0 EXCEPT !.irq = TRUE]
        /\ UNCHANGED <<main, request, baud, bus, host, disturbed, left>> /\ UNCHANGED devVars
    BY <1>3 DEF ComLeave, At, GoTo
  <2>2. Top \in FrameType /\ FrameOK(Top) /\ ~Configures(Top)
    BY <2>1, TopOK DEF Configures
  <2>3. /\ f \in FrameType /\ f.pc = "restore" /\ f.isr = Top.isr /\ f.prev = Top.prev
        /\ f.then = Top.then
    BY <2>2 DEF FrameType, Places
  <2> HIDE DEF f
  <2>4. FrameOK(f)
    BY <1>3, <2>2, <2>3 DEF FrameOK
  <2>5. ep0' \in Ep0Type /\ request' \in Kinds /\ baud' \in BOOLEAN /\ left' \in Budgets
        /\ DevTypes' /\ open' = open /\ HasConfig' = HasConfig
    BY <2>1, Types, AnswerTypes DEF IInv, Ep0Type
  <2>6. GoesOn(f)
    BY <2>1, <2>2, <2>3, <2>4, <2>5 DEF GoesOn
  <2> QED
    BY <2>1, <2>5, <2>6, HandlerTypes
<1> QED
  BY <1>1, <1>2, <1>3

LEMMA HandlerKeeps == ASSUME IInv, Handler PROVE IInv'
BY ReadHeaderKeeps, ReadFlagsKeep, ClassRequestKeeps, LineEncodingKeeps, ClearStatusStageKeeps,
   StandardRequestKeeps, GetStatusKeeps, StreamKeeps, StreamEndsKeeps, AddressKeeps,
   ConfigStateKeeps, ConfigureEndpointsKeeps, StallRestKeeps, LeaveKeeps DEF Handler

(***************************************************************************)
(* The interrupt begins, the main loop, the bus and the host               *)
(***************************************************************************)

LEMMA TypesNext ==
  ASSUME main' \in [pc : {"loop", "select", "access", "task", "taskEnd"},
                    ep : DataEndpoints \cup {0}, prev : 0 .. 4],
         frames' \in Seq(FrameType), sel' \in 0 .. 4, request' \in Kinds,
         DevTypes', baud' \in BOOLEAN, ep0' \in Ep0Type,
         bus' \in {"off", "on", "asleep"}, host' \in HostType,
         disturbed' \in BOOLEAN, left' \in Budgets
  PROVE  TypeOK'
BY Zenon DEF TypeOK, FrameType, DevTypes, Ep0Type, HostType

LEMMA ComEnterKeeps == ASSUME IInv, ComEnter PROVE IInv'
<1>1. /\ frames' = Append(frames, Frame(TRUE)) /\ sel' = 0
      /\ ep0' = [ep0 EXCEPT !.irq = FALSE]
      /\ UNCHANGED <<main, request, baud, bus, host, disturbed, left>> /\ UNCHANGED devVars
  BY DEF ComEnter, MaskSetup
<1>2. Stacked' /\ frames' \in Seq(FrameType)
  BY <1>1, PushKeeps DEF devVars
<1>3. ep0' \in Ep0Type /\ DevTypes'
  BY <1>1, Types, AnswerTypes DEF IInv, Ep0Type
<1>4. sel' \in 0 .. 4
  BY <1>1
<1>5. TypeOK'
  BY <1>1, <1>2, <1>3, <1>4, Types, TypesNext DEF IInv
<1> QED
  BY <1>2, <1>5 DEF IInv

(* No activation: the main loop runs. *)
LEMMA MainKeeps == ASSUME IInv, Main PROVE IInv'
<1>1. /\ frames = <<>> /\ UNCHANGED <<request, baud, bus, host>> /\ UNCHANGED devVars
      /\ main \in [pc : {"loop", "select", "access", "task", "taskEnd"},
                   ep : DataEndpoints \cup {0}, prev : 0 .. 4]
  BY Types DEF IInv, Main, DataTest, DataSelect, DataAccess, TaskBegin, TaskLook, TaskEnd,
     MainAt, MainStep
<1>2. /\ DevTypes' /\ open' = open /\ HasConfig' = HasConfig
      /\ request' \in Kinds /\ baud' \in BOOLEAN /\ bus' \in {"off", "on", "asleep"}
      /\ host' \in HostType
  BY <1>1, Types, AnswerTypes DEF IInv
<1>3. HasConfig => open
  <2>1. ~\E i \in 1 .. Len(frames) : Configures(frames[i])
    BY <1>1
  <2> QED
    BY <2>1, Zenon DEF IInv, Stacked, OpenInTime
<1>4. ASSUME frames' = <<>>, sel' \in 0 .. 4, ep0' \in Ep0Type, disturbed' \in BOOLEAN,
             left' \in Budgets,
             main' \in [pc : {"loop", "select", "access", "task", "taskEnd"},
                        ep : DataEndpoints \cup {0}, prev : 0 .. 4],
             main'.pc = "access" => sel' = main'.ep \/ (disturbed' /\ sel' = 0),
             main'.pc \in {"select", "access"} => open
      PROVE  IInv'
  <2>1. EveryNeedMet' /\ TaskOutermost'
    BY <1>4 DEF EveryNeedMet, TaskOutermost
  <2>2. MainSelected' /\ OpenInTime'
    BY <1>2, <1>3, <1>4 DEF MainSelected, Base, OpenInTime
  <2>3. frames' \in Seq(FrameType)
    BY <1>4
  <2>4. TypeOK'
    BY <1>2, <1>4, <2>3, TypesNext
  <2> QED
    BY <2>1, <2>2, <2>4 DEF IInv, Stacked
<1>5. sel \in 0 .. 4 /\ ep0 \in Ep0Type /\ disturbed \in BOOLEAN /\ left \in Budgets
  BY Types DEF IInv
<1>6. CASE DataTest
  <2>1. PICK e \in DataEndpoints : main' = [main EXCEPT !.pc = "select", !.ep = e]
    BY <1>6 DEF DataTest, MainStep
  <2>2. /\ UNCHANGED <<frames, sel, ep0, disturbed, left>> /\ HasConfig
    BY <1>6 DEF DataTest, MainStep, HasConfig
  <2>3. main' \in [pc : {"loop", "select", "access", "task", "taskEnd"},
                   ep : DataEndpoints \cup {0}, prev : 0 .. 4] /\ main'.pc = "select"
    BY <1>1, <2>1
  <2> QED
    BY <1>1, <1>3, <1>4, <1>5, <2>2, <2>3
<1>7. CASE DataSelect
  <2>1. /\ main.pc = "select" /\ main' = [main EXCEPT !.pc = "access"] /\ sel' = main.ep
        /\ disturbed' = FALSE /\ UNCHANGED <<frames, ep0, left>>
    BY <1>7 DEF DataSelect, MainStep, MainAt
  <2>2. main' \in [pc : {"loop", "select", "access", "task", "taskEnd"},
                   ep : DataEndpoints \cup {0}, prev : 0 .. 4]
        /\ main'.pc = "access" /\ main'.ep = main.ep /\ main.ep \in 0 .. 4
    BY <1>1, <2>1 DEF DataEndpoints
  <2>3. open
    BY <2>1 DEF IInv, Stacked, MainSelected
  <2> QED
    BY <1>1, <1>4, <1>5, <2>1, <2>2, <2>3
<1>8. CASE DataAccess
  <2>1. /\ main' = [main EXCEPT !.pc = "loop", !.ep = 0]
        /\ UNCHANGED <<frames, sel, disturbed, left>>
        /\ ep0' \in {EmptyPacket, [ep0 EXCEPT !.out = FALSE], ep0}
    BY <1>8 DEF DataAccess, MainStep, MainAt
  <2>2. main' \in [pc : {"loop", "select", "access", "task", "taskEnd"},
                   ep : DataEndpoints \cup {0}, prev : 0 .. 4] /\ main'.pc = "loop"
    BY <1>1, <2>1
  <2>3. ep0' \in Ep0Type
    BY <1>5, <2>1, AnswerTypes
  <2> QED
    BY <1>1, <1>4, <1>5, <2>1, <2>2, <2>3
<1>9. CASE TaskBegin
  <2>1. /\ main' = [main EXCEPT !.pc = "task", !.prev = sel] /\ sel' = 0
        /\ UNCHANGED <<frames, ep0, disturbed, left>>
    BY <1>9 DEF TaskBegin, MainStep, MainAt
  <2>2. main' \in [pc : {"loop", "select", "access", "task", "taskEnd"},
                   ep : DataEndpoints \cup {0}, prev : 0 .. 4] /\ main'.pc = "task"
    BY <1>1, <1>5, <2>1
  <2>3. sel' \in 0 .. 4
    BY <2>1
  <2> QED
    BY <1>1, <1>4, <1>5, <2>1, <2>2, <2>3
<1>10. CASE TaskLook
  <2>1. /\ main' = [main EXCEPT !.pc = "taskEnd"]
        /\ UNCHANGED <<sel, ep0, disturbed>>
        /\ left' = left \/ Spend("late")
        /\ frames' = IF IsSETUPReceived THEN <<Frame(FALSE)>> ELSE <<>>
    BY <1>10 DEF TaskLook
  <2>2. main' \in [pc : {"loop", "select", "access", "task", "taskEnd"},
                   ep : DataEndpoints \cup {0}, prev : 0 .. 4] /\ main'.pc = "taskEnd"
    BY <1>1, <2>1
  <2>3. left' \in Budgets
    BY <1>5, <2>1, Spends
  <2>4. CASE ~IsSETUPReceived
    BY <1>1, <1>4, <1>5, <2>1, <2>2, <2>3, <2>4
  <2>5. CASE IsSETUPReceived
    <3>1. sel' = 0
      BY <2>1, <2>5 DEF IsSETUPReceived
    <3>2. frames' = Append(frames, Frame(FALSE))
      <4>1. frames' = <<Frame(FALSE)>>
        BY <2>1, <2>5
      <4>2. Append(<<>>, Frame(FALSE)) = <<Frame(FALSE)>>
        OBVIOUS
      <4> QED
        BY <1>1, <4>1, <4>2, Zenon
    <3>3. Stacked' /\ frames' \in Seq(FrameType)
      BY <1>1, <2>1, <2>2, <3>1, <3>2, PushKeeps DEF devVars
    <3>4. TypeOK'
      BY <1>2, <1>5, <2>1, <2>2, <2>3, <3>3, TypesNext
    <3> QED
      BY <3>3, <3>4 DEF IInv
  <2> QED
    BY <2>4, <2>5
<1>11. CASE TaskEnd
  <2>1. /\ main' = [main EXCEPT !.pc = "loop", !.prev = 0] /\ sel' = main.prev
        /\ UNCHANGED <<frames, ep0, disturbed, left>>
    BY <1>11 DEF TaskEnd, MainStep, MainAt
  <2>2. main' \in [pc : {"loop", "select", "access", "task", "taskEnd"},
                   ep : DataEndpoints \cup {0}, prev : 0 .. 4] /\ main'.pc = "loop"
    <3>1. 0 \in 0 .. 4
      OBVIOUS
    <3> HIDE DEF DataEndpoints
    <3> QED
      BY <1>1, <2>1, <3>1
  <2>3. frames' = <<>> /\ sel' \in 0 .. 4
    BY <1>1, <2>1
  <2> QED
    BY <1>4, <1>5, <2>1, <2>2, <2>3
<1> QED
  BY <1>6, <1>7, <1>8, <1>9, <1>10, <1>11 DEF Main

(* The bus and the host leave the activations alone. *)
LEMMA OutsideKeeps ==
  ASSUME IInv, UNCHANGED <<main, frames, request, baud, open>>,
         sel' = sel \/ (sel' = 0 /\ disturbed'), disturbed' = disturbed \/ disturbed' = TRUE,
         HasConfig' => HasConfig, DevTypes', ep0' \in Ep0Type, host' \in HostType,
         bus' \in {"off", "on", "asleep"}, left' \in Budgets
  PROVE  IInv'
<1>1. EveryNeedMet'
  <2> SUFFICES ASSUME NEW i \in 1 .. Len(frames)
               PROVE  FrameOK(frames[i]) /\ (NeedsEp0(frames[i]) => SelAt(i)' = 0)
    BY DEF EveryNeedMet
  <2>1. SelAt(i)' = SelAt(i) \/ SelAt(i)' = 0
    BY DEF SelAt
  <2>2. FrameOK(frames[i]) /\ (NeedsEp0(frames[i]) => SelAt(i) = 0)
    BY DEF IInv, Stacked, EveryNeedMet
  <2> QED
    BY <2>1, <2>2, Zenon
<1>2. TaskOutermost'
  BY DEF IInv, Stacked, TaskOutermost
<1>3. MainSelected'
  <2>1. Base' = Base \/ (Base' = 0 /\ disturbed')
    BY DEF Base
  <2> QED
    BY <2>1 DEF IInv, Stacked, MainSelected
<1>4. OpenInTime'
  BY DEF IInv, Stacked, OpenInTime
<1>5. TypeOK'
  <2>1. disturbed' \in BOOLEAN
    BY Types, Zenon DEF IInv
  <2>2. sel' \in 0 .. 4
    BY Types DEF IInv
  <2> QED
    BY <2>1, <2>2, Types, TypesNext DEF IInv
<1> QED
  BY <1>1, <1>2, <1>3, <1>4, <1>5 DEF IInv, Stacked

LEMMA BusKeeps == ASSUME IInv, Bus PROVE IInv'
<1>1. /\ UNCHANGED <<main, frames, request, baud, open>>
      /\ \/ sel' = sel
         \/ sel' = 0 /\ disturbed' = TRUE
      /\ \/ disturbed' = disturbed
         \/ disturbed' = TRUE
  BY DEF Bus, Disconnect, Connect, Suspend, WakeUp, BusReset
<1>2. left' \in Budgets
  <2>1. left \in Budgets
    BY Types DEF IInv
  <2>2. CASE left' = left
    BY <2>1, <2>2
  <2>3. CASE \E what \in {"unplug", "unplugMidway", "suspend", "reset", "resetMidway"} : Spend(what)
    BY <2>1, <2>3, Spends
  <2> QED
    BY <2>2, <2>3 DEF Bus, Disconnect, Connect, Suspend, WakeUp, BusReset, Disturb
<1>3. /\ DevTypes /\ ep0 \in Ep0Type /\ host \in HostType /\ bus \in {"off", "on", "asleep"}
  BY Types DEF IInv
<1>4. DevTypes' /\ (HasConfig' => HasConfig) /\ bus' \in {"off", "on", "asleep"}
  BY <1>3 DEF Bus, Disconnect, Connect, Suspend, WakeUp, BusReset, DevTypes, HasConfig, WokenState
<1>5. ep0' \in Ep0Type /\ host' \in HostType
  <2>1. CASE BusReset
    <3>1. EmptyEp0(TRUE) \in Ep0Type /\ NobodyThere("idle", 0) \in HostType
      BY DEF EmptyEp0, NobodyThere, Ep0Type, HostType, Kinds
    <3> QED
      BY <2>1, <3>1 DEF BusReset
  <2>2. CASE Disconnect
    BY <1>3, <2>2 DEF Disconnect, HostType
  <2>3. CASE Connect \/ Suspend \/ WakeUp
    BY <1>3, <2>3 DEF Connect, Suspend, WakeUp
  <2> QED
    BY <2>1, <2>2, <2>3 DEF Bus
<1> QED
  BY <1>1, <1>2, <1>3, <1>4, <1>5, OutsideKeeps

LEMMA HostTypes ==
  ASSUME IInv
  PROVE  /\ Over(host) \in HostType
         /\ [Over(host) EXCEPT !.addressed = @ \/ host.req = "SetAddress"] \in HostType
         /\ \A s \in {"in", "statusOut"} : [host EXCEPT !.stage = s, !.n = @ + 1] \in HostType
         /\ [host EXCEPT !.stage = "status"] \in HostType
         /\ [ep0 EXCEPT !.in = "free"] \in Ep0Type /\ [ep0 EXCEPT !.out = TRUE] \in Ep0Type
         /\ [ep0 EXCEPT !.setup = TRUE, !.in = "free", !.stall = FALSE] \in Ep0Type
<1>1. host \in HostType /\ ep0 \in Ep0Type
  BY Types DEF IInv
<1>2. Over(host) \in HostType
  BY <1>1 DEF HostType, Over, Kinds
<1>3. Over(host).addressed = host.addressed
  BY <1>1 DEF HostType, Over
<1>4. [Over(host) EXCEPT !.addressed = @ \/ host.req = "SetAddress"] \in HostType
  <2> DEFINE b == Over(host).addressed \/ host.req = "SetAddress"
  <2>1. b \in BOOLEAN
    BY <1>1, <1>3 DEF HostType
  <2>2. [Over(host) EXCEPT !.addressed = @ \/ host.req = "SetAddress"]
          = [Over(host) EXCEPT !.addressed = b]
    BY DEF b
  <2> HIDE DEF b
  <2>3. [Over(host) EXCEPT !.addressed = b] \in HostType
    BY <1>2, <2>1 DEF HostType
  <2> QED
    BY <2>2, <2>3, Zenon
<1>5. \A s \in {"in", "statusOut"} : [host EXCEPT !.stage = s, !.n = @ + 1] \in HostType
  <2> TAKE s \in {"in", "statusOut"}
  <2>1. host.n + 1 \in Nat
    BY <1>1 DEF HostType
  <2>2. \A k \in Nat : [host EXCEPT !.stage = s, !.n = k] \in HostType
    BY <1>1 DEF HostType
  <2> QED
    BY <2>1, <2>2, Zenon
<1>6. [host EXCEPT !.stage = "status"] \in HostType
  BY <1>1 DEF HostType
<1>7. /\ [ep0 EXCEPT !.in = "free"] \in Ep0Type /\ [ep0 EXCEPT !.out = TRUE] \in Ep0Type
      /\ [ep0 EXCEPT !.setup = TRUE, !.in = "free", !.stall = FALSE] \in Ep0Type
  BY <1>1 DEF Ep0Type
<1> QED
  BY <1>2, <1>4, <1>5, <1>6, <1>7

LEMMA HostKeeps == ASSUME IInv, Host PROVE IInv'
<1>1. DevTypes /\ ep0 \in Ep0Type /\ host \in HostType /\ left \in Budgets
  BY Types DEF IInv
<1>2. ASSUME NEW h \in HostType, NEW e \in Ep0Type, HostStep(h, e) PROVE IInv'
  <2>1. /\ host' = h /\ ep0' = e /\ UNCHANGED devVars /\ open' = open
        /\ UNCHANGED <<main, frames, sel, request, baud, bus, disturbed, left>>
    BY <1>2 DEF HostStep, devVars
  <2>2. DevTypes' /\ HasConfig' = HasConfig /\ bus' \in {"off", "on", "asleep"}
    BY <2>1, Types, AnswerTypes DEF IInv
  <2> QED
    BY <1>1, <2>1, <2>2, OutsideKeeps
<1>3. CASE TakeData \/ SendStatus \/ SendData \/ TakeStatus \/ TakeStall
  BY <1>1, <1>2, <1>3, HostTypes DEF TakeData, SendStatus, SendData, TakeStatus, TakeStall
<1>4. ASSUME NEW r \in Requests, Setup(r) PROVE IInv'
  <2>1. /\ UNCHANGED devVars /\ open' = open
        /\ UNCHANGED <<main, frames, sel, request, baud, bus, disturbed>>
        /\ ep0' = [ep0 EXCEPT !.setup = TRUE, !.in = "free", !.stall = FALSE]
    BY <1>4 DEF Setup, devVars
  <2>2. DevTypes' /\ HasConfig' = HasConfig /\ bus' \in {"off", "on", "asleep"} /\ ep0' \in Ep0Type
    BY <2>1, Types, AnswerTypes, HostTypes DEF IInv
  <2>3. left' \in Budgets
    <3>1. CASE Handled
      BY <1>1, <1>4, <3>1, Spends DEF Setup
    <3>2. CASE ~Handled
      <4>1. /\ left.eager > 0 /\ left.request > 0
            /\ left' = [left EXCEPT !.eager = @ - 1, !.request = @ - 1]
        BY <1>4, <3>2 DEF Setup
      <4>2. left.eager - 1 \in Nat /\ left.request - 1 \in Nat
        BY <1>1, <4>1 DEF Budgets
      <4>3. \A k, l \in Nat : [left EXCEPT !.eager = k, !.request = l] \in Budgets
        BY <1>1 DEF Budgets
      <4> QED
        BY <4>1, <4>2, <4>3, Zenon
    <3> QED
      BY <3>1, <3>2
  <2>4. host' \in HostType
    <3>1. FirstStage(r) \in {"in", "out", "status"}
      BY DEF FirstStage
    <3>2. r \in Kinds
      BY DEF Kinds
    <3>3. PICK c \in {0, 1} : host' = [host EXCEPT !.req = r, !.stage = FirstStage(r), !.n = 0,
                                         !.config = c]
      <4>1. CASE r = "Configure"
        BY <1>4, <4>1 DEF Setup
      <4>2. CASE r = "Deconfigure"
        BY <1>4, <4>2 DEF Setup
      <4>3. CASE r \notin {"Configure", "Deconfigure"}
        BY <1>1, <1>4, <4>3 DEF Setup, HostType
      <4> QED
        BY <4>1, <4>2, <4>3
    <3> QED
      BY <1>1, <3>1, <3>2, <3>3 DEF HostType
  <2> QED
    BY <2>1, <2>2, <2>3, <2>4, OutsideKeeps
<1> QED
  BY <1>3, <1>4 DEF Host

LEMMA InitIInv == ASSUME Init PROVE IInv
<1>1. frames = <<>> /\ ~(\E i \in 1 .. Len(frames) : TRUE)
  BY DEF Init
<1>2. main = [pc |-> "loop", ep |-> 0, prev |-> 0] /\ config = 0 /\ state = "Powered"
  BY DEF Init
<1>3. Stacked
  BY <1>1, <1>2 DEF Stacked, EveryNeedMet, TaskOutermost, MainSelected, OpenInTime, HasConfig
<1>4. DevTypes /\ ep0 \in Ep0Type /\ host \in HostType
  BY DEF Init, DevTypes, EmptyEp0, NobodyThere, Ep0Type, HostType, Kinds
<1>5. /\ main \in [pc : {"loop", "select", "access", "task", "taskEnd"},
                   ep : DataEndpoints \cup {0}, prev : 0 .. 4]
      /\ frames \in Seq(FrameType) /\ sel \in 0 .. 4 /\ request \in Kinds
  <2>1. 0 \in 0 .. 4 /\ 0 \in DataEndpoints \cup {0}
    OBVIOUS
  <2>2. frames \in Seq(FrameType)
    BY DEF Init
  <2>3. sel \in 0 .. 4 /\ request \in Kinds
    BY <2>1 DEF Init, Kinds
  <2> HIDE DEF DataEndpoints
  <2>4. main \in [pc : {"loop", "select", "access", "task", "taskEnd"},
                  ep : DataEndpoints \cup {0}, prev : 0 .. 4]
    BY <1>2, <2>1
  <2> QED
    BY <2>2, <2>3, <2>4
<1>6. baud \in BOOLEAN /\ disturbed \in BOOLEAN
  BY Zenon DEF Init
<1>7. bus \in {"off", "on", "asleep"} /\ left \in Budgets
  BY DeviceAssumption DEF Init
<1>8. TypeOK
  BY <1>4, <1>5, <1>6, <1>7, Types, Zenon
<1> QED
  BY <1>3, <1>8 DEF IInv

LEMMA StutterKeeps == ASSUME IInv, UNCHANGED vars PROVE IInv'
<1>1. TypeOK'
  <2>1. /\ UNCHANGED <<main, frames, sel, request, baud, ep0, bus, host, disturbed, left>>
        /\ UNCHANGED devVars
    BY DEF vars, devVars
  <2>2. DevTypes'
    BY <2>1, AnswerTypes
  <2> QED
    BY <2>1, <2>2, Types, TypesNext DEF IInv
<1>2. Stacked'
  <2>1. UNCHANGED <<main, frames, sel, open, config, state, disturbed>>
    BY DEF vars
  <2>2. EveryNeedMet'
    BY <2>1 DEF IInv, Stacked, EveryNeedMet, SelAt
  <2>3. TaskOutermost' /\ MainSelected'
    BY <2>1 DEF IInv, Stacked, TaskOutermost, MainSelected, Base
  <2>4. OpenInTime'
    BY <2>1 DEF IInv, Stacked, OpenInTime, HasConfig
  <2> QED
    BY <2>2, <2>3, <2>4 DEF Stacked
<1> QED
  BY <1>1, <1>2 DEF IInv

(***************************************************************************)
(* The theorems of every history                                           *)
(***************************************************************************)

(* Whatever the host asks, whatever happens on the bus and however deep    *)
(* the activations of USB_Device_ProcessControlRequest are nested: what an *)
(* activation needs of the endpoint selection holds when it runs again.    *)
THEOREM UsbInvariance == Spec => []IInv
<1>1. Init => IInv
  BY InitIInv
<1>2. IInv /\ [Next]_vars => IInv'
  BY ComEnterKeeps, HandlerKeeps, MainKeeps, BusKeeps, HostKeeps, StutterKeeps DEF Next, Cpu
<1> QED
  BY <1>1, <1>2, PTL DEF Spec

(* The type invariant.                                                     *)
THEOREM UsbTypes == Spec => []TypeOK
<1>1. IInv => TypeOK
  BY DEF IInv
<1> QED
  BY <1>1, UsbInvariance, PTL

(* The main loop works on the data endpoint it selected, as no control     *)
(* interrupt returns without putting the selection back; only a bus reset  *)
(* makes it meet the control endpoint.                                     *)
THEOREM KeepsSelection == Spec => []SelectionKept
<1>1. IInv => SelectionKept
  BY DEF IInv, Stacked, MainSelected, Base, SelectionKept
<1> QED
  BY <1>1, UsbInvariance, PTL

(* A handler reads and writes the control endpoint only when UENUM selects *)
(* it, although other endpoints are selected in between and interrupts     *)
(* select endpoint 0 and put back what they found.                         *)
THEOREM WorksOnEp0 == Spec => []ControlOnEp0
<1>1. ASSUME IInv PROVE ControlOnEp0
  <2> SUFFICES ASSUME frames # <<>>
               PROVE  /\ Top.pc \in Waits \cup {"header", "class", "standard", "clearOut"} => sel = 0
                      /\ Top.pc = "check" /\ Top.saw => sel = 0
    BY DEF ControlOnEp0
  <2>1. frames \in Seq(FrameType)
    BY <1>1, Types DEF IInv
  <2>2. NeedsEp0(Top) => SelAt(Len(frames)) = 0
    BY <1>1, <2>1, TopIs DEF IInv, Stacked, EveryNeedMet
  <2>3. SelAt(Len(frames)) = sel
    BY DEF SelAt
  <2> QED
    BY <2>2, <2>3 DEF NeedsEp0
<1> QED
  BY <1>1, UsbInvariance, PTL

(***************************************************************************)
(* No bus reset in the middle of a request: one request at a time, and the *)
(* address                                                                 *)
(***************************************************************************)

LEMMA SettledAgrees ==
  ASSUME NEW f, NEW rq, NEW e, NEW h, Settled(h), ThenOK(f), f.pc # "header"
  PROVE  Agrees(f, rq, e, h)
BY DEF Agrees

LEMMA OtherAgrees ==
  ASSUME NEW f, NEW rq, NEW e, NEW h, rq # "SetAddress" \/ Settled(h),
         ThenOK(f), f.pc # "header", ~WillEnable(f)
  PROVE  Agrees(f, rq, e, h)
BY DEF Agrees

(* A step of the innermost activation, all that matters for the address.   *)
Moves(f) ==
  /\ frames # <<>> /\ Become(f) /\ f \in FrameType /\ f.isr = Top.isr
  /\ f.pc \notin {"header", "restore"} /\ Top.pc # "restore"
  /\ UNCHANGED <<main, host>> /\ ep0'.irq = ep0.irq
  /\ ep0'.setup => ep0.setup /\ ep0'.stall = ep0.stall
  /\ left'.resetMidway = left.resetMidway
  /\ state' = "Unattached" => state = "Unattached"

AddressAssumed == MaskedWhileActive /\ AddressOK
AgreesNext(f) ==
  /\ Agrees(f, request', ep0', host)
  /\ \/ addressed' = addressed
     \/ addressed' = TRUE /\ Settled(host)
WellMoved == \E f : Moves(f) /\ (AddressAssumed => AgreesNext(f))

LEMMA ToPlace ==
  ASSUME IInv, frames # <<>>, NEW to \in Places, GoTo(to)
  PROVE  \E f \in FrameType : /\ Become(f) /\ f.pc = to /\ f.isr = Top.isr /\ f.then = Top.then
                              /\ f.saw = Top.saw
<1> DEFINE f == [Top EXCEPT !.pc = to]
<1>1. Top \in FrameType
  BY TopOK
<1>2. f \in FrameType /\ f.pc = to /\ f.isr = Top.isr /\ f.then = Top.then /\ f.saw = Top.saw
  BY <1>1 DEF FrameType
<1>3. Become(f)
  BY DEF GoTo
<1> HIDE DEF f
<1> QED
  BY <1>2, <1>3

(* The request is not SetAddress, or it is settled: the activation goes on *)
(* and enables no address.                                                 *)
LEMMA MovesOn ==
  ASSUME IInv, NEW f \in FrameType, frames # <<>>, Become(f), f.isr = Top.isr,
         f.pc \notin {"header", "restore"}, Top.pc # "restore",
         UNCHANGED <<main, request, host, addressed>>,
         left' = left \/ Spend("late"),
         ep0' \in Ep0Type, ep0'.irq = ep0.irq,
         ep0'.setup => ep0.setup /\ ep0'.stall = ep0.stall,
         state' = "Unattached" => state = "Unattached",
         AddressAssumed => /\ ThenOK(f)
                           /\ ~WillEnable(f) \/ Settled(host)
                           /\ request # "SetAddress" \/ Settled(host)
  PROVE  WellMoved
<1>1. Moves(f)
  BY Spends, Types DEF Moves, IInv, Budgets, Spend
<1>2. ASSUME AddressAssumed PROVE AgreesNext(f)
  BY <1>2, OtherAgrees, SettledAgrees DEF AgreesNext
<1> QED
  BY <1>1, <1>2 DEF WellMoved

(* What AddressOK says of the innermost activation at some place.          *)
LEMMA Assumed ==
  ASSUME AddressAssumed, frames # <<>>
  PROVE  /\ Agrees(Top, request, ep0, host) /\ ThenOK(Top)
         /\ Top.pc \notin Decides \cup {"header"} /\ ~WillEnable(Top) =>
              request # "SetAddress" \/ Settled(host)
BY DEF AddressAssumed, AddressOK, TopAgrees, Agrees

LEMMA ReadHeaderMoves == ASSUME IInv, ReadHeader PROVE WellMoved
<1>1. /\ frames # <<>> /\ Top.pc = "header" /\ GoTo("class?") /\ ~ComPending
      /\ UNCHANGED <<main, sel, baud, ep0, bus, host, disturbed, left>> /\ UNCHANGED devVars
      /\ request' = IF ep0.setup THEN host.req ELSE Junk
  BY DEF ReadHeader, Header, At
<1>2. PICK f \in FrameType : /\ Become(f) /\ f.pc = "class?" /\ f.isr = Top.isr
                             /\ f.then = Top.then /\ f.saw = Top.saw
  BY <1>1, ToPlace DEF Places
<1>3. Moves(f)
  BY <1>1, <1>2 DEF Moves, devVars
<1>4. ASSUME AddressAssumed PROVE AgreesNext(f)
  <2>1. ThenOK(f) /\ ~WillEnable(f)
    BY <1>2 DEF ThenOK, WillEnable
  <2>2. CASE request' # "SetAddress" \/ Settled(host)
    BY <1>1, <1>2, <2>1, <2>2, OtherAgrees DEF AgreesNext, devVars
  <2>3. CASE request' = "SetAddress" /\ ~Settled(host)
    <3>1. ep0.setup /\ host.req = "SetAddress"
      BY <1>1, <2>3 DEF Junk
    <3>2. Requested(host, ep0)
      BY <1>4, <2>3, <3>1 DEF AddressAssumed, AddressOK, SetupFresh, Settled, Requested,
         FirstStage, In
    <3>3. Top.isr
      BY <1>1, <1>4, <2>3, <3>1 DEF AddressAssumed, MaskedWhileActive, Active, ComPending, Settled
    <3>4. Agrees(f, request', ep0', host)
      BY <1>1, <1>2, <2>1, <3>1, <3>2, <3>3 DEF Agrees, Decides
    <3> QED
      BY <1>1, <3>4 DEF AgreesNext, devVars
  <2> QED
    BY <2>2, <2>3
<1> QED
  BY <1>3, <1>4 DEF WellMoved

LEMMA ReadFlagsMove == ASSUME IInv, ReadFlags PROVE WellMoved
<1> SUFFICES ASSUME NEW from \in {"class?", "standard?", "check?"},
                    NEW to \in {"class", "standard", "check"},
                    from = "class?" => to = "class", from = "standard?" => to = "standard",
                    from = "check?" => to = "check", ReadFlag(from, to)
             PROVE  WellMoved
  BY DEF ReadFlags
<1>1. /\ frames # <<>> /\ Top.pc = from /\ Become([Top EXCEPT !.pc = to, !.saw = IsSETUPReceived])
      /\ UNCHANGED <<main, sel, request, baud, ep0, bus, host, disturbed>>
      /\ UNCHANGED devVars
      /\ left' = left \/ Spend("late")
  BY DEF ReadFlag
<1>2. Top \in FrameType /\ (NeedsEp0(Top) => sel = 0)
  BY <1>1, TopOK
<1>3. PICK f : f = [Top EXCEPT !.pc = to, !.saw = IsSETUPReceived]
  OBVIOUS
<1>4. IsSETUPReceived \in BOOLEAN
  BY Types DEF IInv, IsSETUPReceived, Ep0Type
<1>5. /\ f \in FrameType /\ f.pc = to /\ f.isr = Top.isr
      /\ f.then = Top.then /\ f.saw = IsSETUPReceived
  <2> HIDE DEF IsSETUPReceived
  <2> QED
    BY <1>2, <1>3, <1>4 DEF FrameType, Places
<1>6. Become(f)
  BY <1>1, <1>3
<1>7. ep0' \in Ep0Type /\ addressed' = addressed /\ state' = state
  BY <1>1, Types DEF IInv, devVars
<1>8. Moves(f)
  BY <1>1, <1>5, <1>6, <1>7, Spends, Types DEF Moves, IInv, Spend, Budgets
<1>9. ASSUME AddressAssumed PROVE AgreesNext(f)
  <2>1. ThenOK(f) /\ ~WillEnable(f) /\ ~WillEnable(Top) /\ Agrees(Top, request, ep0, host)
    BY <1>1, <1>5, <1>9, Assumed DEF ThenOK, WillEnable
  <2>2. CASE request # "SetAddress" \/ Settled(host)
    BY <1>1, <1>5, <1>7, <2>1, <2>2, OtherAgrees DEF AgreesNext
  <2>3. CASE request = "SetAddress" /\ ~Settled(host)
    <3>1. Top.pc \in Decides
      BY <1>1, <2>1, <2>3 DEF Agrees, Decides
    <3>2. Requested(host, ep0) /\ ep0.setup /\ Top.isr
      BY <2>1, <2>3, <3>1 DEF Agrees
    <3>3. sel = 0 /\ to # "check"
      BY <1>1, <1>2, <3>1 DEF NeedsEp0, Decides
    <3>4. f.saw
      BY <1>5, <3>2, <3>3 DEF IsSETUPReceived
    <3>5. Agrees(f, request', ep0', host)
      BY <1>1, <1>5, <2>1, <3>2, <3>3, <3>4 DEF Agrees, Decides
    <3> QED
      BY <1>7, <3>5 DEF AgreesNext
  <2> QED
    BY <2>2, <2>3
<1> QED
  BY <1>8, <1>9 DEF WellMoved

LEMMA PassMoves ==
  ASSUME IInv,
         Pass("class", Class, "standard?") \/ Pass("standard", Standard, "check?")
  PROVE  WellMoved
<1>1. PICK from \in {"class", "standard"}, to \in {"standard?", "check?"} :
        /\ frames # <<>> /\ Top.pc = from /\ GoTo(to)
        /\ UNCHANGED <<main, sel, request, baud, ep0, bus, host, disturbed, left>>
        /\ UNCHANGED devVars
        /\ from = "class" => to = "standard?"
        /\ from = "standard" => to = "check?" /\ ~(Top.saw /\ request \in Standard)
  BY DEF Pass, At
<1>2. PICK f \in FrameType : /\ Become(f) /\ f.pc = to /\ f.isr = Top.isr
                             /\ f.then = Top.then /\ f.saw = Top.saw
  BY <1>1, ToPlace DEF Places
<1>3. Moves(f)
  BY <1>1, <1>2 DEF Moves, devVars
<1>4. ASSUME AddressAssumed PROVE AgreesNext(f)
  <2>1. /\ ThenOK(f) /\ ~WillEnable(f) /\ f.pc # "header" /\ ~WillEnable(Top)
        /\ Agrees(Top, request, ep0, host)
        /\ addressed' = addressed /\ request' = request /\ ep0' = ep0
    BY <1>1, <1>2, <1>4, Assumed DEF ThenOK, WillEnable, devVars
  <2>2. CASE request # "SetAddress" \/ Settled(host)
    BY <2>1, <2>2, OtherAgrees DEF AgreesNext
  <2>3. CASE request = "SetAddress" /\ ~Settled(host)
    <3>1. Top.pc \in Decides
      BY <1>1 DEF Decides
    <3>2. Requested(host, ep0) /\ ep0.setup /\ Top.isr /\ Top.saw
      BY <1>1, <2>1, <2>3, <3>1 DEF Agrees
    <3>3. from = "class" /\ f.pc = "standard?"
      BY <1>1, <1>2, <2>3, <3>2 DEF Standard
    <3>4. Agrees(f, request, ep0, host)
      BY <1>2, <2>1, <3>2, <3>3 DEF Agrees, Decides
    <3> QED
      BY <2>1, <3>4 DEF AgreesNext
  <2> QED
    BY <2>2, <2>3
<1> QED
  BY <1>3, <1>4 DEF WellMoved

(* A request that is not SetAddress begins.                                *)
LEMMA BeginMoves ==
  ASSUME IInv, NEW from \in {"class", "standard"},
         NEW r \in (Class \cup Standard) \ {"SetAddress"},
         NEW to \in {"lineWait", "lineData", "statusIn", "statusOut", "status", "stream"},
         NEW then \in {"standard?", "check?", "configState"},
         Begin(from, r, to, then), to # "statusIn" => then # "configState",
         addressed' = addressed, state' = state,
         ep0' \in {ep0, Acknowledged, Answer(Acknowledged)}
  PROVE  WellMoved
<1>1. /\ frames # <<>> /\ Top.pc = from /\ request = r /\ Become(Begun(to, then))
      /\ UNCHANGED <<main, request, baud, bus, host, disturbed, left>>
  BY DEF Begin, At, Begun
<1>2. PICK f : f = Begun(to, then)
  OBVIOUS
<1>3. Top \in FrameType
  BY <1>1, TopOK
<1>4. /\ f \in FrameType /\ f.pc = to /\ f.isr = Top.isr /\ f.then = then
  BY <1>2, <1>3, DeviceAssumption DEF FrameType, Places, Waits, Begun
<1>5. /\ ep0' \in Ep0Type /\ ep0'.irq = ep0.irq
      /\ ep0'.setup => ep0.setup /\ ep0'.stall = ep0.stall
  BY AnswerTypes, Types DEF IInv, Acknowledged, Answer, Ep0Type
<1>6. ThenOK(f) /\ ~WillEnable(f)
  BY <1>4 DEF ThenOK, WillEnable
<1> QED
  BY <1>1, <1>2, <1>4, <1>5, <1>6, MovesOn

LEMMA ClassRequestMoves == ASSUME IInv, ClassRequest PROVE WellMoved
<1>1. CASE Pass("class", Class, "standard?")
  BY <1>1, PassMoves
<1>2. CASE /\ \/ Begin("class", "GetLineEncoding", "lineWait", "standard?")
              \/ Begin("class", "SetLineEncoding", "lineData", "standard?")
              \/ Begin("class", "SetControlLineState", StatusStage, "standard?")
           /\ ep0' = Acknowledged /\ UNCHANGED sel /\ UNCHANGED devVars
  <2>1. StatusStage \in {"statusIn", "statusOut"} /\ addressed' = addressed /\ state' = state
    BY <1>2 DEF StatusStage, devVars
  <2>2. {"GetLineEncoding", "SetLineEncoding", "SetControlLineState"}
          \subseteq (Class \cup Standard) \ {"SetAddress"}
    BY DEF Class, Standard
  <2> QED
    BY <1>2, <2>1, <2>2, BeginMoves
<1> QED
  BY <1>1, <1>2 DEF ClassRequest

LEMMA StandardRequestMoves == ASSUME IInv, StandardRequest PROVE WellMoved
<1>0. StatusStage \in {"statusIn", "statusOut"}
  BY DEF StatusStage
<1>1. CASE Pass("standard", Standard, "check?")
  BY <1>1, PassMoves
<1>2. CASE /\ Begin("standard", "GetDescriptor", "stream", "check?")
           /\ ep0' = Acknowledged /\ UNCHANGED sel /\ UNCHANGED devVars
  BY <1>2, BeginMoves DEF devVars, Standard
<1>3. CASE /\ Begin("standard", "GetConfiguration", StatusStage, "check?")
           /\ ep0' = Answer(Acknowledged) /\ UNCHANGED sel /\ UNCHANGED devVars
  BY <1>0, <1>3, BeginMoves DEF devVars, Standard
<1>4. CASE /\ Begin("standard", "GetStatus", "status", "check?")
           /\ sel' \in DataEndpoints /\ UNCHANGED ep0 /\ UNCHANGED devVars
  BY <1>4, BeginMoves DEF devVars, Standard
<1>5. ASSUME NEW r \in {"Configure", "Deconfigure"}, NEW c, SetConfiguration(r, c) PROVE WellMoved
  <2>1. StatusStage = "statusIn"
    BY <1>5 DEF SetConfiguration, Begin, StatusStage, In
  <2> QED
    BY <1>5, <2>1, BeginMoves DEF SetConfiguration, Standard
<1>6. CASE /\ Begin("standard", "SetAddress", StatusStage, "addressWait")
           /\ ep0' = Acknowledged /\ UNCHANGED sel /\ UNCHANGED devVars
  <2>1. /\ frames # <<>> /\ Top.pc = "standard" /\ request = "SetAddress"
        /\ Become(Begun(StatusStage, "addressWait"))
        /\ UNCHANGED <<main, request, baud, bus, host, disturbed, left>>
    BY <1>6 DEF Begin, At, Begun
  <2>2. StatusStage = "statusIn"
    BY <2>1 DEF StatusStage, In
  <2>3. PICK f : f = Begun("statusIn", "addressWait")
    OBVIOUS
  <2>4. Top \in FrameType
    BY <2>1, TopOK
  <2>5. /\ f \in FrameType /\ f.pc = "statusIn" /\ f.isr = Top.isr /\ f.then = "addressWait"
    BY <2>3, <2>4, DeviceAssumption DEF FrameType, Places, Waits, Begun
  <2>6. ep0' \in Ep0Type /\ ep0'.irq = ep0.irq /\ ~ep0'.setup /\ ep0'.stall = ep0.stall
    BY <1>6, AnswerTypes, Types DEF IInv, Acknowledged, Ep0Type
  <2>7. Moves(f)
    BY <1>6, <2>1, <2>2, <2>3, <2>5, <2>6 DEF Moves, devVars
  <2>8. ASSUME AddressAssumed PROVE AgreesNext(f)
    <3>1. ThenOK(f) /\ WillEnable(f) /\ f.pc # "header"
      BY <2>5 DEF ThenOK, WillEnable
    <3>2. Settled(host) \/ (Requested(host, ep0) /\ Top.isr)
      BY <2>1, <2>8, Assumed DEF Agrees, Decides
    <3>3. Requested(host, ep0) => Requested(host, ep0')
      BY <2>6 DEF Requested
    <3>4. Agrees(f, request', ep0', host)
      BY <2>5, <2>6, <3>1, <3>2, <3>3 DEF Agrees, Decides
    <3> QED
      BY <1>6, <3>4 DEF AgreesNext, devVars
  <2> QED
    BY <2>7, <2>8 DEF WellMoved
<1> QED
  BY <1>1, <1>2, <1>3, <1>4, <1>5, <1>6 DEF StandardRequest

(* A step that decides and enables nothing.                                *)
LEMMA PlaceMoves ==
  ASSUME IInv, frames # <<>>, Top.pc \notin Decides \cup {"header", "restore"},
         NEW to \in Places \ {"header", "restore", "lineWait", "lineData", "status"}, GoTo(to),
         AddressAssumed => ~WillEnable(Top) /\ to # "addressWait",
         to \in {"statusIn", "statusOut"} => Top.pc \in {"lineWait", "lineData", "status"},
         UNCHANGED <<main, request, host, addressed, left>>,
         ep0' \in Ep0Type, ep0'.irq = ep0.irq,
         ep0'.setup => ep0.setup /\ ep0'.stall = ep0.stall,
         state' = "Unattached" => state = "Unattached"
  PROVE  WellMoved
<1>1. PICK f \in FrameType : /\ Become(f) /\ f.pc = to /\ f.isr = Top.isr
                             /\ f.then = Top.then /\ f.saw = Top.saw
  BY ToPlace
<1>2. ASSUME AddressAssumed
      PROVE  /\ ThenOK(f) /\ ~WillEnable(f)
             /\ request # "SetAddress" \/ Settled(host)
  <2>1. ThenOK(Top) /\ (request # "SetAddress" \/ Settled(host)) /\ to # "addressWait"
    BY <1>2, Assumed
  <2> QED
    BY <1>1, <2>1 DEF ThenOK, WillEnable
<1> QED
  BY <1>1, <1>2, MovesOn

(* How the parts of ep0 change.                                            *)
LEMMA Ep0Kept ==
  ASSUME IInv,
         \/ ep0' \in {ep0, Acknowledged, Answer(ep0), Answer(Acknowledged), EmptyPacket,
                      [ep0 EXCEPT !.out = FALSE]}
         \/ ep0' = [Acknowledged EXCEPT !.stall = TRUE]
  PROVE  /\ ep0' \in Ep0Type /\ ep0'.irq = ep0.irq
         /\ ep0'.setup => ep0.setup /\ ep0'.stall = ep0.stall
<1>1. ep0 \in Ep0Type
  BY Types DEF IInv
<1>2. ep0' \in Ep0Type
  BY <1>1, AnswerTypes
<1> QED
  BY <1>1, <1>2 DEF Acknowledged, Answer, EmptyPacket, Ep0Type

LEMMA LineEncodingMoves == ASSUME IInv, GetLineEncoding \/ SetLineEncoding PROVE WellMoved
<1>1. PICK to : /\ frames # <<>> /\ Top.pc \in {"lineWait", "lineData"} /\ GoTo(to)
                /\ to \in {"statusIn", "statusOut"} \/ to = Top.then
                /\ UNCHANGED <<main, sel, request, bus, host, disturbed, left>>
                /\ UNCHANGED devVars
                /\ ep0' \in {Answer(ep0), [ep0 EXCEPT !.out = FALSE]}
  BY Zenon DEF GetLineEncoding, SetLineEncoding, Proceed, At, StatusStage
<1>2. Top.then \in {"standard?", "check?", "configState", "addressWait"}
  BY <1>1, TopOK DEF FrameOK
<1>3. to \in Places \ {"header", "restore", "lineWait", "lineData", "status"}
  BY <1>1, <1>2 DEF Places, Waits
<1>4. ASSUME AddressAssumed PROVE ~WillEnable(Top) /\ to # "addressWait"
  BY <1>1, <1>4, Assumed DEF ThenOK, WillEnable
<1>5. ~(Top.pc \in Decides \cup {"header", "restore"})
  BY <1>1 DEF Decides
<1> QED
  BY <1>1, <1>2, <1>3, <1>4, <1>5, Ep0Kept, PlaceMoves DEF devVars

LEMMA ClearStatusStageMoves == ASSUME IInv, ClearStatusStage PROVE WellMoved
<1>1. /\ frames # <<>> /\ Top.pc \in {"statusIn", "statusOut"} /\ GoTo(Top.then)
      /\ UNCHANGED <<main, sel, request, bus, host, disturbed, left>>
      /\ UNCHANGED devVars
      /\ ep0' \in {EmptyPacket, ep0, [ep0 EXCEPT !.out = FALSE]}
      /\ Top.pc = "statusIn" => ep0' = EmptyPacket \/ Gone
  BY DEF ClearStatusStage, Proceed, At
<1>2. Top.then \in {"standard?", "check?", "configState", "addressWait"}
  BY <1>1, TopOK DEF FrameOK
<1>3. /\ Top.then \in Places \ {"header", "restore", "lineWait", "lineData", "status"}
      /\ ~(Top.pc \in Decides \cup {"header", "restore"})
      /\ ~(Top.then \in {"statusIn", "statusOut"})
  BY <1>1, <1>2 DEF Places, Waits, Decides
<1>4. /\ ep0' \in Ep0Type /\ ep0'.irq = ep0.irq
      /\ ep0'.setup => ep0.setup /\ ep0'.stall = ep0.stall
  BY <1>1, Ep0Kept
<1>5. CASE Top.then # "addressWait"
  BY <1>1, <1>3, <1>4, <1>5, PlaceMoves DEF devVars, WillEnable
<1>6. CASE Top.then = "addressWait"
  <2>1. PICK f \in FrameType : /\ Become(f) /\ f.pc = "addressWait" /\ f.isr = Top.isr
                               /\ f.then = Top.then /\ f.saw = Top.saw
    BY <1>1, <1>3, <1>6, ToPlace
  <2>2. Moves(f)
    BY <1>1, <1>4, <2>1 DEF Moves, devVars
  <2>3. ASSUME AddressAssumed PROVE AgreesNext(f)
    <3>1. Top.pc = "statusIn"
      BY <1>1, <1>6, <2>3, Assumed DEF ThenOK
    <3>2. ThenOK(f) /\ WillEnable(f) /\ f.pc # "header" /\ WillEnable(Top)
      BY <1>6, <2>1, <3>1 DEF ThenOK, WillEnable
    <3>3. CASE Settled(host)
      BY <1>1, <3>2, <3>3, SettledAgrees DEF AgreesNext, devVars
    <3>4. CASE ~Settled(host)
      <4>1. Requested(host, ep0) /\ ~ep0.setup /\ Top.isr
        BY <1>1, <2>3, <3>2, <3>4, Assumed DEF Agrees
      <4>2. ep0' = EmptyPacket
        BY <1>1, <2>3, <3>1, <3>4 DEF AddressAssumed, AddressOK, AwayIsOff, Settled, Gone
      <4>3. ep0 \in Ep0Type
        BY Types DEF IInv
      <4>4. ~ep0'.setup /\ ep0'.in # "free" /\ ep0'.stall = ep0.stall
        BY <4>1, <4>2, <4>3 DEF EmptyPacket, Ep0Type, Zlp
      <4>5. Requested(host, ep0')
        BY <4>1, <4>4 DEF Requested
      <4>6. Agrees(f, request', ep0', host)
        BY <2>1, <3>2, <4>1, <4>4, <4>5 DEF Agrees, Decides
      <4> QED
        BY <1>1, <4>6 DEF AgreesNext, devVars
    <3> QED
      BY <3>3, <3>4
  <2> QED
    BY <2>2, <2>3 DEF WellMoved
<1> QED
  BY <1>5, <1>6

LEMMA GetStatusMoves == ASSUME IInv, GetStatus PROVE WellMoved
<1>1. /\ frames # <<>> /\ Top.pc = "status" /\ GoTo(StatusStage)
      /\ UNCHANGED <<main, request, baud, bus, host, disturbed, left>> /\ UNCHANGED devVars
      /\ ep0' = Answer(Acknowledged)
  BY DEF GetStatus, At
<1>2. /\ StatusStage \in Places \ {"header", "restore", "lineWait", "lineData", "status"}
      /\ StatusStage # "addressWait" /\ ~WillEnable(Top)
      /\ ~(Top.pc \in Decides \cup {"header", "restore"})
  BY <1>1 DEF StatusStage, Places, Waits, WillEnable, Decides
<1> QED
  BY <1>1, <1>2, Ep0Kept, PlaceMoves DEF devVars

LEMMA StreamMoves == ASSUME IInv, Stream \/ StreamEnds PROVE WellMoved
<1>1. CASE \E to \in {"clearOut", "streamOut", "check?"} :
             /\ frames # <<>> /\ Top.pc \in {"stream", "streamOut", "clearOut"} /\ GoTo(to)
             /\ UNCHANGED <<main, request, host, left>> /\ UNCHANGED devVars
             /\ ep0' \in {ep0, [ep0 EXCEPT !.out = FALSE]}
  <2>1. PICK to \in {"clearOut", "streamOut", "check?"} :
             /\ frames # <<>> /\ Top.pc \in {"stream", "streamOut", "clearOut"} /\ GoTo(to)
             /\ UNCHANGED <<main, request, host, left>> /\ UNCHANGED devVars
             /\ ep0' \in {ep0, [ep0 EXCEPT !.out = FALSE]}
    BY <1>1
  <2>2. /\ to \in Places \ {"header", "restore", "lineWait", "lineData", "status"}
        /\ to # "addressWait" /\ ~WillEnable(Top) /\ ~(to \in {"statusIn", "statusOut"})
        /\ ~(Top.pc \in Decides \cup {"header", "restore"})
    BY <2>1 DEF Places, Waits, WillEnable, Decides
  <2> QED
    BY <2>1, <2>2, Ep0Kept, PlaceMoves DEF devVars
<1>2. CASE /\ frames # <<>> /\ Top.pc = "stream" /\ ep0' = Answer(ep0)
           /\ Top.n > 0 /\ Become([Top EXCEPT !.n = @ - 1])
           /\ UNCHANGED <<main, request, host, left>> /\ UNCHANGED devVars
  <2>1. Top \in FrameType
    BY <1>2, TopOK
  <2>2. PICK f : f = [Top EXCEPT !.n = @ - 1]
    OBVIOUS
  <2>3. Top.n - 1 \in Nat
    BY <1>2, <2>1 DEF FrameType
  <2>4. f \in FrameType /\ f.pc = "stream" /\ f.isr = Top.isr
    BY <1>2, <2>1, <2>2, <2>3 DEF FrameType
  <2>5. ThenOK(f) /\ ~WillEnable(f)
    BY <2>4 DEF ThenOK, WillEnable
  <2>6. ASSUME AddressAssumed PROVE request # "SetAddress" \/ Settled(host)
    BY <1>2, <2>6, Assumed DEF Decides, WillEnable
  <2> QED
    BY <1>2, <2>2, <2>4, <2>5, <2>6, Ep0Kept, MovesOn DEF devVars
<1>3. CASE Stream
  <2>1. CASE ~Cut /\ ~ep0.out /\ Top.n > 0
    BY <1>2, <1>3, <2>1 DEF Stream, At
  <2>2. CASE ~(~Cut /\ ~ep0.out /\ Top.n > 0)
    <3>1. /\ frames # <<>> /\ Top.pc = "stream" /\ ep0' = ep0
          /\ GoTo(IF Cut /\ Top.n > 0 THEN "clearOut" ELSE "streamOut")
          /\ UNCHANGED <<main, request, host, left>> /\ UNCHANGED devVars
      BY <1>3, <2>2, Zenon DEF Stream, At
    <3>2. (IF Cut /\ Top.n > 0 THEN "clearOut" ELSE "streamOut")
            \in {"clearOut", "streamOut", "check?"}
      OBVIOUS
    <3> QED
      BY <1>1, <3>1, <3>2
  <2> QED
    BY <2>1, <2>2
<1>4. CASE StreamEnds
  BY <1>1, <1>4 DEF StreamEnds, Proceed, At
<1> QED
  BY <1>3, <1>4

LEMMA AddressMoves == ASSUME IInv, EnableAddress \/ AddressState PROVE WellMoved
<1>1. CASE EnableAddress
  <2>1. /\ frames # <<>> /\ Top.pc = "addressWait" /\ GoTo("addressState") /\ ep0.in = "free"
        /\ ep0' = ep0 /\ addressed' = TRUE /\ state' = state
        /\ UNCHANGED <<main, sel, request, bus, host, disturbed, left>>
    BY <1>1 DEF EnableAddress, Proceed, At, AddressTaken
  <2>2. PICK f \in FrameType : /\ Become(f) /\ f.pc = "addressState" /\ f.isr = Top.isr
                               /\ f.then = Top.then /\ f.saw = Top.saw
    BY <2>1, ToPlace DEF Places
  <2>3. Moves(f)
    BY <2>1, <2>2 DEF Moves
  <2>4. ASSUME AddressAssumed PROVE AgreesNext(f)
    <3>1. Settled(host)
      BY <2>1, <2>4, Assumed DEF Agrees, WillEnable
    <3>2. ThenOK(f) /\ f.pc # "header"
      BY <2>2 DEF ThenOK
    <3> QED
      BY <2>1, <3>1, <3>2, SettledAgrees DEF AgreesNext
  <2> QED
    BY <2>3, <2>4 DEF WellMoved
<1>2. CASE AddressState
  <2>1. /\ frames # <<>> /\ Top.pc = "addressState" /\ GoTo("check?") /\ ep0' = ep0
        /\ addressed' = addressed /\ state' = "Addressed"
        /\ UNCHANGED <<main, sel, request, bus, host, disturbed, left>>
    BY <1>2 DEF AddressState, Proceed, At
  <2>2. "check?" \in Places \ {"header", "restore", "lineWait", "lineData", "status"}
        /\ ~WillEnable(Top) /\ ~(Top.pc \in Decides \cup {"header", "restore"})
    BY <2>1 DEF Places, WillEnable, Decides
  <2> QED
    BY <2>1, <2>2, Ep0Kept, PlaceMoves
<1> QED
  BY <1>1, <1>2

LEMMA ConfigureMoves == ASSUME IInv, ConfigState \/ ConfigureEndpoints PROVE WellMoved
<1>1. /\ frames # <<>> /\ Top.pc \in {"configState", "configure"}
      /\ UNCHANGED <<main, request, ep0, host, left, addressed>>
      /\ state' = state \/ state' \in {"Configured", "Powered"}
  BY DEF ConfigState, ConfigureEndpoints, At
<1>2. Top \in FrameType /\ FrameOK(Top)
  BY <1>1, TopOK
<1>3. \E f \in FrameType : Become(f) /\ f.isr = Top.isr /\ f.pc \in {"configure", "check?"}
  <2>1. CASE ConfigState
    <3>1. PICK f : f = [Top EXCEPT !.pc = "configure", !.n = 1]
      OBVIOUS
    <3>2. f \in FrameType /\ f.pc = "configure" /\ f.isr = Top.isr
      BY <1>2, <3>1 DEF FrameType, Places
    <3> QED
      BY <2>1, <3>1, <3>2 DEF ConfigState
  <2>2. CASE ConfigureEndpoints /\ Top.n = Len(Table)
    BY <1>1, <2>2, ToPlace DEF ConfigureEndpoints, Places
  <2>3. CASE ConfigureEndpoints /\ Top.n # Len(Table)
    <3>1. PICK f : f = [Top EXCEPT !.n = @ + 1]
      OBVIOUS
    <3>2. Top.pc = "configure" /\ Become(f)
      BY <2>3, <3>1 DEF ConfigureEndpoints, At
    <3>3. f \in FrameType /\ f.pc = "configure" /\ f.isr = Top.isr
      BY <1>2, <3>1, <3>2 DEF FrameType
    <3> QED
      BY <3>2, <3>3
  <2> QED
    BY <2>1, <2>2, <2>3
<1>4. PICK f \in FrameType : Become(f) /\ f.isr = Top.isr /\ f.pc \in {"configure", "check?"}
  BY <1>3
<1>5. ThenOK(f) /\ ~WillEnable(f)
  BY <1>4 DEF ThenOK, WillEnable
<1>6. ASSUME AddressAssumed PROVE request # "SetAddress" \/ Settled(host)
  BY <1>1, <1>6, Assumed DEF Decides, WillEnable
<1> QED
  BY <1>1, <1>4, <1>5, <1>6, Ep0Kept, MovesOn

LEMMA StallRestMoves == ASSUME IInv, StallRest PROVE WellMoved
<1>1. /\ frames # <<>> /\ Top.pc = "check" /\ GoTo("leave")
      /\ ep0' = ep0 \/ ep0' = [Acknowledged EXCEPT !.stall = TRUE]
      /\ UNCHANGED <<main, sel, request, baud, bus, host, disturbed, left>>
      /\ UNCHANGED devVars
  BY DEF StallRest, At
<1>2. "leave" \in Places \ {"header", "restore", "lineWait", "lineData", "status"}
      /\ ~WillEnable(Top) /\ ~(Top.pc \in Decides \cup {"header", "restore"})
  BY <1>1 DEF Places, WillEnable, Decides
<1>3. /\ ep0' \in Ep0Type /\ ep0'.irq = ep0.irq
      /\ ep0'.setup => ep0.setup /\ ep0'.stall = ep0.stall
  BY <1>1, Ep0Kept
<1> QED
  BY <1>1, <1>2, <1>3, PlaceMoves DEF devVars

LEMMA HandlerMoves ==
  ASSUME IInv, Handler PROVE WellMoved \/ ComLeave \/ ComReturn
BY ReadHeaderMoves, ReadFlagsMove, ClassRequestMoves, LineEncodingMoves, ClearStatusStageMoves,
   StandardRequestMoves, GetStatusMoves, StreamMoves, AddressMoves, ConfigureMoves,
   StallRestMoves DEF Handler

(* The interrupt is off exactly while its handler is in a request.         *)
LEMMA MovedMasked == ASSUME IInv, MaskedWhileActive, WellMoved PROVE MaskedWhileActive'
<1>1. PICK f : Moves(f)
  BY DEF WellMoved
<1>2. frames \in Seq(FrameType)
  BY Types DEF IInv
<1>3. /\ frames' # <<>> /\ Len(frames') = Len(frames) /\ Top' = f
      /\ \A i \in 1 .. Len(frames) - 1 : frames'[i] = frames[i]
  BY <1>1, <1>2, BecomeIs DEF Moves
<1>4. Active' <=> Active
  BY <1>1, <1>3 DEF Active, Moves
<1>5. \A i \in 1 .. Len(frames') - 1 : frames'[i].isr => frames'[i].pc = "restore"
  BY <1>3 DEF MaskedWhileActive
<1>6. left'.resetMidway = 0 /\ host' = host /\ ep0'.irq = ep0.irq
  BY <1>1 DEF Moves, MaskedWhileActive
<1>7. Active' => ~ep0'.irq
  BY <1>4, <1>6 DEF MaskedWhileActive
<1>8. ~ep0'.irq => Active' \/ host'.stage = "off"
  BY <1>4, <1>6 DEF MaskedWhileActive
<1> QED
  BY <1>5, <1>6, <1>7, <1>8, Zenon DEF MaskedWhileActive

(* An activation returns, below it is none, the task's or one at the end.  *)
LEMMA PoppedInactive ==
  ASSUME IInv, MaskedWhileActive, frames # <<>>, ~Active,
         frames' = SubSeq(frames, 1, Len(frames) - 1)
  PROVE  ~Active' /\ \A i \in 1 .. Len(frames') - 1 : frames'[i].isr => frames'[i].pc = "restore"
<1>1. frames \in Seq(FrameType)
  BY Types DEF IInv
<1>2. /\ Len(frames) \in Nat /\ Len(frames) > 0 /\ Len(frames') = Len(frames) - 1
      /\ \A i \in 1 .. Len(frames) - 1 : frames'[i] = frames[i]
      /\ frames' = <<>> <=> Len(frames) = 1
      /\ frames' # <<>> => Top' = frames[Len(frames) - 1]
  BY <1>1, PopIs, TopIs
<1>3. \A i \in 1 .. Len(frames) - 1 : frames[i].isr => frames[i].pc = "restore"
  BY DEF MaskedWhileActive
<1>4. frames' # <<>> => Len(frames) - 1 \in 1 .. Len(frames) - 1
  BY <1>2
<1>5. ~Active'
  BY <1>2, <1>3, <1>4 DEF Active
<1>6. \A i \in 1 .. Len(frames') - 1 : i \in 1 .. Len(frames) - 1
  BY <1>2
<1> QED
  BY <1>2, <1>3, <1>5, <1>6

LEMMA LeftMasked == ASSUME IInv, MaskedWhileActive, ComLeave \/ ComReturn PROVE MaskedWhileActive'
<1>1. frames \in Seq(FrameType) /\ ep0 \in Ep0Type
  BY Types DEF IInv
<1>2. CASE ComLeave /\ Top.isr
  <2>1. /\ frames # <<>> /\ GoTo("restore") /\ ep0' = [ep0 EXCEPT !.irq = TRUE]
        /\ UNCHANGED <<host, left>>
    BY <1>2 DEF ComLeave, At
  <2>2. PICK f \in FrameType : Become(f) /\ f.pc = "restore"
    BY <2>1, ToPlace DEF Places
  <2>3. /\ frames' # <<>> /\ Len(frames') = Len(frames) /\ Top' = f
        /\ \A i \in 1 .. Len(frames) - 1 : frames'[i] = frames[i]
    BY <1>1, <2>1, <2>2, BecomeIs
  <2>4. ~Active' /\ ep0'.irq
    BY <1>1, <2>1, <2>2, <2>3 DEF Active, Ep0Type
  <2>5. \A i \in 1 .. Len(frames') - 1 : frames'[i].isr => frames'[i].pc = "restore"
    BY <2>3 DEF MaskedWhileActive
  <2>6. left'.resetMidway = 0
    BY <2>1 DEF MaskedWhileActive
  <2> QED
    BY <2>4, <2>5, <2>6, Zenon DEF MaskedWhileActive
<1>3. CASE (ComLeave /\ ~Top.isr) \/ ComReturn
  <2>1. /\ frames # <<>> /\ ~Active /\ frames' = SubSeq(frames, 1, Len(frames) - 1)
        /\ UNCHANGED <<ep0, host, left>>
    BY <1>3 DEF ComLeave, ComReturn, At, Active
  <2>2. ~Active' /\ \A i \in 1 .. Len(frames') - 1 : frames'[i].isr => frames'[i].pc = "restore"
    BY <2>1, PoppedInactive
  <2>3. left'.resetMidway = 0 /\ (~ep0'.irq => host'.stage = "off")
    BY <2>1 DEF MaskedWhileActive
  <2> QED
    BY <2>2, <2>3, Zenon DEF MaskedWhileActive
<1> QED
  BY <1>2, <1>3

LEMMA EnteredMasked ==
  ASSUME IInv, MaskedWhileActive, ComEnter
  PROVE  MaskedWhileActive' /\ frames' # <<>> /\ Len(frames') = Len(frames) + 1
         /\ Top' = Frame(TRUE) /\ \A i \in 1 .. Len(frames) : frames'[i] = frames[i]
<1>1. /\ ComPending /\ frames' = Append(frames, Frame(TRUE)) /\ ep0' = [ep0 EXCEPT !.irq = FALSE]
      /\ UNCHANGED <<host, left>>
  BY DEF ComEnter, MaskSetup
<1>2. frames \in Seq(FrameType) /\ ep0 \in Ep0Type /\ Len(frames) \in Nat
  BY Types DEF IInv
<1>3. Frame(TRUE) \in FrameType /\ Frame(TRUE).isr /\ Frame(TRUE).pc = "header"
  BY Types DEF IInv, Frame, FrameType, Places
<1>4. /\ frames' # <<>> /\ Len(frames') = Len(frames) + 1 /\ Top' = Frame(TRUE)
      /\ \A i \in 1 .. Len(frames) : frames'[i] = frames[i]
  BY <1>1, <1>2, <1>3, PushIs
<1>5. Active' /\ ~ep0'.irq
  BY <1>1, <1>2, <1>3, <1>4 DEF Active, Ep0Type
<1>6. ~Active
  BY <1>1 DEF MaskedWhileActive, ComPending
<1>7. \A i \in 1 .. Len(frames) : frames[i].isr => frames[i].pc = "restore"
  <2> TAKE i \in 1 .. Len(frames)
  <2>1. CASE i = Len(frames)
    <3>1. frames # <<>> /\ frames[i] = Top
      BY <1>2, <2>1 DEF Top
    <3> QED
      BY <1>6, <3>1 DEF Active
  <2>2. CASE i # Len(frames)
    <3>1. i \in 1 .. Len(frames) - 1
      BY <1>2, <2>2
    <3> QED
      BY <3>1 DEF MaskedWhileActive
  <2> QED
    BY <2>1, <2>2
<1>8. \A i \in 1 .. Len(frames') - 1 : frames'[i].isr => frames'[i].pc = "restore"
  <2>1. \A i \in 1 .. Len(frames') - 1 : i \in 1 .. Len(frames)
    BY <1>2, <1>4
  <2> QED
    BY <1>4, <1>7, <2>1
<1>9. left'.resetMidway = 0
  BY <1>1 DEF MaskedWhileActive
<1>10. MaskedWhileActive'
  BY <1>5, <1>8, <1>9, Zenon DEF MaskedWhileActive
<1> QED
  BY <1>4, <1>10

(* What the main loop leaves alone.                                        *)
LEMMA MainLeaves ==
  ASSUME IInv, Main
  PROVE  /\ frames = <<>> /\ frames' \in {<<>>, <<Frame(FALSE)>>}
         /\ UNCHANGED <<request, addressed, state, host>>
         /\ ep0'.irq = ep0.irq /\ ep0'.setup = ep0.setup /\ ep0'.stall = ep0.stall
         /\ left'.resetMidway = left.resetMidway
<1>1. /\ frames = <<>> /\ frames' \in {<<>>, <<Frame(FALSE)>>}
      /\ UNCHANGED <<request, addressed, state, host>>
      /\ ep0' \in {ep0, EmptyPacket, [ep0 EXCEPT !.out = FALSE]}
  BY DEF Main, DataTest, DataSelect, DataAccess, TaskBegin, TaskLook, TaskEnd, MainAt,
         MainStep, devVars
<1>2. left' = left \/ Spend("late")
  BY DEF Main, DataTest, DataSelect, DataAccess, TaskBegin, TaskLook, TaskEnd, MainStep
<1>3. ep0 \in Ep0Type /\ left \in Budgets
  BY Types DEF IInv
<1>4. ep0'.irq = ep0.irq /\ ep0'.setup = ep0.setup /\ ep0'.stall = ep0.stall
  BY <1>1, <1>3 DEF EmptyPacket, Ep0Type
<1>5. left'.resetMidway = left.resetMidway
  BY <1>2, <1>3 DEF Spend, Budgets
<1> QED
  BY <1>1, <1>4, <1>5

LEMMA MainMasked == ASSUME IInv, MaskedWhileActive, Main PROVE MaskedWhileActive'
<1>1. /\ frames = <<>> /\ frames' \in {<<>>, <<Frame(FALSE)>>}
      /\ host' = host /\ ep0'.irq = ep0.irq /\ left'.resetMidway = left.resetMidway
  BY MainLeaves
<1>2. /\ Len(frames') - 1 < 1 /\ ~Active
      /\ frames' # <<>> => frames'[Len(frames')] = Frame(FALSE)
  <2> DEFINE g == Frame(FALSE)
  <2> HIDE DEF g
  <2>1. Len(<<>>) = 0 /\ Len(<<g>>) = 1 /\ <<g>>[1] = g
    OBVIOUS
  <2>2. CASE frames' = <<>>
    BY <1>1, <2>1, <2>2 DEF Active
  <2>3. CASE frames' = <<g>>
    BY <1>1, <2>1, <2>3 DEF Active, g
  <2> QED
    BY <1>1, <2>2, <2>3 DEF g
<1>3. ~Active' /\ \A i \in 1 .. Len(frames') - 1 : FALSE
  <2>1. ~Frame(FALSE).isr
    BY DEF Frame
  <2>2. Len(frames') \in Int
    <3> DEFINE g == Frame(FALSE)
    <3> HIDE DEF g
    <3>1. Len(<<>>) \in Int /\ Len(<<g>>) \in Int
      OBVIOUS
    <3> QED
      BY <1>1, <3>1, Zenon DEF g
  <2>3. ~Active'
    BY <1>2, <2>1, Zenon DEF Active, Top
  <2> QED
    BY <1>2, <2>2, <2>3
<1>4. left'.resetMidway = 0
  BY <1>1 DEF MaskedWhileActive
<1>5. ~ep0'.irq => host'.stage = "off"
  BY <1>1, <1>2 DEF MaskedWhileActive
<1> QED
  BY <1>3, <1>4, <1>5, Zenon DEF MaskedWhileActive

(* A bus reset meets no request, the other bus events leave the endpoint   *)
(* and the address alone.                                                  *)
LEMMA BusLeaves ==
  ASSUME IInv, MaskedWhileActive, Bus
  PROVE  /\ UNCHANGED <<frames, request>> /\ left'.resetMidway = 0
         /\ \/ /\ UNCHANGED <<ep0, addressed>>
               /\ \/ host' = host /\ (state' = "Unattached" => state = "Unattached")
                  \/ host'.stage = "off" /\ host'.addressed = FALSE
            \/ /\ frames = <<>> /\ ep0'.irq /\ ~ep0'.setup /\ host'.stage = "idle"
               /\ state' # "Unattached"
<1>1. left \in Budgets /\ left.resetMidway = 0 /\ host \in HostType
  BY Types DEF IInv, MaskedWhileActive
<1>2. CASE Connect \/ Suspend \/ WakeUp
  <2>1. left' = left \/ Spend("suspend")
    BY <1>2 DEF Connect, Suspend, WakeUp
  <2>2. /\ UNCHANGED <<frames, request, ep0, addressed, host>>
        /\ state' = "Unattached" => state = "Unattached"
    BY <1>2 DEF Connect, Suspend, WakeUp, WokenState
  <2> QED
    BY <1>1, <2>1, <2>2, Spends
<1>3. CASE Disconnect
  <2>1. \E what \in {"unplug", "unplugMidway"} : Spend(what)
    BY <1>3 DEF Disconnect, Disturb
  <2>2. left'.resetMidway = 0
    BY <1>1, <2>1, Spends
  <2>3. host'.stage = "off" /\ host'.addressed = FALSE
    BY <1>1, <1>3 DEF Disconnect, HostType
  <2> QED
    BY <1>3, <2>2, <2>3 DEF Disconnect
<1>4. CASE BusReset
  <2>1. Spend(IF Quiet THEN "reset" ELSE "resetMidway")
    BY <1>4 DEF BusReset, Disturb
  <2>2. Quiet
    <3>1. CASE ~Quiet
      BY <1>1, <2>1, <3>1, Spends
    <3> QED
      BY <3>1
  <2>3. left'.resetMidway = 0
    BY <1>1, <2>1, <2>2, Spends
  <2>4. frames = <<>> /\ ep0'.irq /\ ~ep0'.setup /\ host'.stage = "idle" /\ state' # "Unattached"
    BY <1>4, <2>2 DEF BusReset, Quiet, EmptyEp0, NobodyThere
  <2> QED
    BY <1>4, <2>3, <2>4 DEF BusReset
<1> QED
  BY <1>2, <1>3, <1>4 DEF Bus

LEMMA BusMasked == ASSUME IInv, MaskedWhileActive, Bus PROVE MaskedWhileActive'
<1>1. frames' = frames /\ left'.resetMidway = 0
  BY BusLeaves
<1>2. Active' <=> Active
  BY <1>1 DEF Active, Top
<1>3. \A i \in 1 .. Len(frames') - 1 : frames'[i].isr => frames'[i].pc = "restore"
  BY <1>1 DEF MaskedWhileActive
<1>4. (Active' => ~ep0'.irq) /\ (~ep0'.irq => Active' \/ host'.stage = "off")
  <2>1. CASE ep0' = ep0 /\ (host' = host \/ host'.stage = "off")
    BY <1>2, <2>1 DEF MaskedWhileActive
  <2>2. CASE frames = <<>> /\ ep0'.irq
    BY <1>2, <2>2 DEF Active
  <2> QED
    BY <2>1, <2>2, BusLeaves
<1> QED
  BY <1>1, <1>3, <1>4, Zenon DEF MaskedWhileActive

(* The host's steps: a SETUP when it is idle, or the next stage of the     *)
(* transfer under way.                                                     *)
LEMMA HostLeaves ==
  ASSUME IInv, Host
  PROVE  /\ UNCHANGED <<frames, request, addressed, state>>
         /\ host.addressed = addressed /\ host.stage # "off" /\ host'.stage # "off"
         /\ ep0'.irq = ep0.irq /\ left'.resetMidway = left.resetMidway
         /\ \/ /\ host.stage = "idle" /\ host'.addressed = host.addressed
               /\ host'.stage = FirstStage(host'.req) /\ ep0'.setup /\ ~ep0'.stall
            \/ /\ ~ep0.setup /\ ~ep0'.setup
               /\ \/ host'.addressed = host.addressed
                  \/ host'.addressed = TRUE /\ host'.stage = "idle"
               /\ Requested(host, ep0) => host'.addressed
<1>1. ep0 \in Ep0Type /\ host \in HostType /\ left \in Budgets
  BY Types DEF IInv
<1>2. ASSUME NEW r \in Requests, Setup(r)
      PROVE  /\ UNCHANGED <<frames, request, addressed, state>>
             /\ host.addressed = addressed /\ host.stage = "idle" /\ host'.stage # "off"
             /\ host'.addressed = host.addressed /\ host'.stage = FirstStage(host'.req)
             /\ ep0'.irq = ep0.irq /\ left'.resetMidway = left.resetMidway
             /\ ep0'.setup /\ ~ep0'.stall
  <2>1. /\ UNCHANGED <<frames, request, addressed, state>>
        /\ host.addressed = addressed /\ host.stage = "idle"
    BY <1>2 DEF Setup, Reached, devVars
  <2>2. ep0'.irq = ep0.irq /\ ep0'.setup /\ ~ep0'.stall
    BY <1>1, <1>2 DEF Setup, Ep0Type
  <2>3. /\ host'.addressed = host.addressed /\ host'.req = r
        /\ host'.stage = FirstStage(r)
    BY <1>1, <1>2 DEF Setup, HostType
  <2>4. FirstStage(r) # "off"
    BY DEF FirstStage
  <2>5. left'.resetMidway = left.resetMidway
    BY <1>1, <1>2 DEF Setup, Spend, Budgets
  <2> QED
    BY <2>1, <2>2, <2>3, <2>4, <2>5
<1>3. ASSUME NEW h, NEW e, HostStep(h, e), host.stage # "off", h.stage # "off",
             e.irq = ep0.irq, e.setup = ep0.setup,
             h.addressed = host.addressed \/ (h.addressed = TRUE /\ h.stage = "idle"),
             Requested(host, ep0) => h.addressed
      PROVE  /\ UNCHANGED <<frames, request, addressed, state>>
             /\ host.addressed = addressed /\ host.stage # "off" /\ host'.stage # "off"
             /\ ep0'.irq = ep0.irq /\ left'.resetMidway = left.resetMidway
             /\ ~ep0.setup /\ ~ep0'.setup
             /\ \/ host'.addressed = host.addressed
                \/ host'.addressed = TRUE /\ host'.stage = "idle"
             /\ Requested(host, ep0) => host'.addressed
  BY <1>3 DEF HostStep, Reached, devVars
<1>4. /\ [ep0 EXCEPT !.in = "free"].irq = ep0.irq
      /\ [ep0 EXCEPT !.in = "free"].setup = ep0.setup
      /\ [ep0 EXCEPT !.out = TRUE].irq = ep0.irq
      /\ [ep0 EXCEPT !.out = TRUE].setup = ep0.setup
  BY <1>1 DEF Ep0Type
<1>5. Over(host).stage = "idle" /\ Over(host).addressed = host.addressed
  BY <1>1 DEF Over, HostType
<1>6. CASE TakeData
  <2>1. PICK s \in {"in", "statusOut"} :
          HostStep([host EXCEPT !.stage = s, !.n = @ + 1], [ep0 EXCEPT !.in = "free"])
    BY <1>6 DEF TakeData
  <2>2. /\ [host EXCEPT !.stage = s, !.n = @ + 1].stage = s
        /\ [host EXCEPT !.stage = s, !.n = @ + 1].addressed = host.addressed
    BY <1>1 DEF HostType
  <2>3. host.stage = "in"
    BY <1>6 DEF TakeData
  <2> QED
    BY <1>3, <1>4, <2>1, <2>2, <2>3 DEF Requested
<1>7. CASE SendStatus
  BY <1>3, <1>4, <1>5, <1>7 DEF SendStatus, Requested
<1>8. CASE SendData
  <2>1. /\ [host EXCEPT !.stage = "status"].stage = "status"
        /\ [host EXCEPT !.stage = "status"].addressed = host.addressed
    BY <1>1 DEF HostType
  <2> QED
    BY <1>3, <1>4, <1>8, <2>1 DEF SendData, Requested
<1>9. CASE TakeStatus
  <2> DEFINE h == [Over(host) EXCEPT !.addressed = @ \/ host.req = "SetAddress"]
  <2>1. /\ h.stage = "idle"
        /\ host.req = "SetAddress" => h.addressed = TRUE
        /\ host.req # "SetAddress" => h.addressed = host.addressed
    BY <1>1, <1>5, HostTypes DEF HostType
  <2>2. HostStep(h, [ep0 EXCEPT !.in = "free"]) /\ host.stage = "status"
    BY <1>9 DEF TakeStatus
  <2> HIDE DEF h
  <2> QED
    BY <1>3, <1>4, <2>1, <2>2 DEF Requested
<1>10. CASE TakeStall
  BY <1>3, <1>5, <1>10 DEF TakeStall, Requested
<1> QED
  BY <1>2, <1>6, <1>7, <1>8, <1>9, <1>10 DEF Host

LEMMA HostMasked == ASSUME IInv, MaskedWhileActive, Host PROVE MaskedWhileActive'
<1>1. /\ frames' = frames /\ left'.resetMidway = 0 /\ ep0'.irq = ep0.irq
      /\ host.stage # "off"
  BY HostLeaves DEF MaskedWhileActive
<1>2. Active' <=> Active
  BY <1>1 DEF Active, Top
<1>3. \A i \in 1 .. Len(frames') - 1 : frames'[i].isr => frames'[i].pc = "restore"
  BY <1>1 DEF MaskedWhileActive
<1>4. (Active' => ~ep0'.irq) /\ (~ep0'.irq => Active' \/ host'.stage = "off")
  BY <1>1, <1>2 DEF MaskedWhileActive
<1> QED
  BY <1>1, <1>3, <1>4, Zenon DEF MaskedWhileActive

(* The address.                                                            *)
LEMMA MovedAddress ==
  ASSUME IInv, MaskedWhileActive, AddressOK, WellMoved PROVE AddressOK'
<1>1. PICK f : Moves(f) /\ AgreesNext(f)
  BY DEF WellMoved, AddressAssumed
<1>2. frames \in Seq(FrameType) /\ addressed \in BOOLEAN /\ host \in HostType
  BY Types, Zenon DEF IInv, DevTypes
<1>3. /\ frames' # <<>> /\ Len(frames') = Len(frames) /\ Top' = f
      /\ \A i \in 1 .. Len(frames) - 1 : frames'[i] = frames[i]
  BY <1>1, <1>2, BecomeIs DEF Moves
<1>4. host' = host
  BY <1>1 DEF Moves
<1>5. AddressAgrees'
  BY <1>1, <1>2, <1>4 DEF AgreesNext, AddressOK, AddressAgrees, AtRequest, Settled, HostType
<1>6. SetupFresh' /\ AwayIsOff'
  BY <1>1, <1>4 DEF Moves, AddressOK, SetupFresh, AwayIsOff
<1>7. TopAgrees'
  BY <1>1, <1>3, <1>4 DEF AgreesNext, TopAgrees
<1>8. RestWaits'
  BY <1>3, <1>4 DEF AddressOK, RestWaits
<1> QED
  BY <1>5, <1>6, <1>7, <1>8 DEF AddressOK

LEMMA LeftAddress ==
  ASSUME IInv, MaskedWhileActive, AddressOK, ComLeave \/ ComReturn PROVE AddressOK'
<1>1. /\ frames # <<>> /\ Top.pc \in {"leave", "restore"}
      /\ UNCHANGED <<host, request, addressed, state>>
  BY DEF ComLeave, ComReturn, At, devVars
<1>2. frames \in Seq(FrameType) /\ ep0 \in Ep0Type
  BY Types DEF IInv
<1>3. ep0'.setup = ep0.setup /\ ep0'.stall = ep0.stall
  BY <1>2 DEF ComLeave, ComReturn, Ep0Type
<1>4. AddressAgrees' /\ SetupFresh' /\ AwayIsOff'
  BY <1>1, <1>3 DEF AddressOK, AddressAgrees, AtRequest, SetupFresh, AwayIsOff
<1>5. request # "SetAddress" \/ Settled(host)
  BY <1>1, Assumed DEF AddressAssumed, Decides, WillEnable
<1>6. CASE ComLeave /\ Top.isr
  <2>1. GoTo("restore")
    BY <1>6 DEF ComLeave
  <2>2. PICK f \in FrameType : Become(f) /\ f.pc = "restore"
    BY <1>1, <2>1, ToPlace DEF Places
  <2>3. /\ frames' # <<>> /\ Len(frames') = Len(frames) /\ Top' = f
        /\ \A i \in 1 .. Len(frames) - 1 : frames'[i] = frames[i]
    BY <1>1, <1>2, <2>2, BecomeIs
  <2>4. ThenOK(f) /\ ~WillEnable(f) /\ f.pc # "header"
    BY <2>2 DEF ThenOK, WillEnable
  <2>5. Agrees(f, request, ep0', host)
    BY <1>5, <2>4, OtherAgrees
  <2>6. TopAgrees' /\ RestWaits'
    BY <1>1, <2>3, <2>5 DEF TopAgrees, RestWaits, AddressOK
  <2> QED
    BY <1>4, <2>6 DEF AddressOK
<1>7. CASE (ComLeave /\ ~Top.isr) \/ ComReturn
  <2>1. frames' = SubSeq(frames, 1, Len(frames) - 1)
    BY <1>7 DEF ComLeave, ComReturn
  <2>2. /\ Len(frames) \in Nat /\ Len(frames) > 0 /\ Len(frames') = Len(frames) - 1
        /\ \A i \in 1 .. Len(frames) - 1 : frames'[i] = frames[i]
        /\ frames' = <<>> <=> Len(frames) = 1
        /\ frames' # <<>> => Top' = frames[Len(frames) - 1]
    BY <1>1, <1>2, <2>1, PopIs, TopIs
  <2>3. \A i \in 1 .. Len(frames') - 1 : i \in 1 .. Len(frames) - 1
    BY <2>2
  <2>4. RestWaits'
    BY <1>1, <2>2, <2>3 DEF RestWaits, AddressOK
  <2>5. TopAgrees'
    <3> SUFFICES ASSUME frames' # <<>> PROVE Agrees(Top', request, ep0', host)
      BY <1>1 DEF TopAgrees
    <3>1. Len(frames) - 1 \in 1 .. Len(frames) - 1
      BY <2>2
    <3>2. PICK g : g = frames[Len(frames) - 1]
      OBVIOUS
    <3>3. Waiting(g, host) /\ (g.isr => g.pc = "restore")
      BY <3>1, <3>2 DEF AddressOK, RestWaits, MaskedWhileActive
    <3>4. Agrees(g, request, ep0', host)
      BY <1>5, <3>3 DEF Agrees, Waiting
    <3> QED
      BY <2>2, <3>2, <3>4
  <2> QED
    BY <1>4, <2>4, <2>5 DEF AddressOK
<1> QED
  BY <1>6, <1>7

LEMMA EnteredAddress ==
  ASSUME IInv, MaskedWhileActive, AddressOK, ComEnter PROVE AddressOK'
<1>1. /\ ep0.setup /\ ep0' = [ep0 EXCEPT !.irq = FALSE]
      /\ UNCHANGED <<host, request, addressed, state>>
  BY DEF ComEnter, ComPending, MaskSetup, devVars
<1>2. ep0 \in Ep0Type /\ Len(frames) \in Nat
  BY Types DEF IInv
<1>3. ep0'.setup /\ ep0'.stall = ep0.stall
  BY <1>1, <1>2 DEF Ep0Type
<1>4. AddressAgrees' /\ SetupFresh' /\ AwayIsOff'
  BY <1>1, <1>3 DEF AddressOK, AddressAgrees, AtRequest, SetupFresh, AwayIsOff
<1>5. /\ frames' # <<>> /\ Len(frames') = Len(frames) + 1 /\ Top' = Frame(TRUE)
      /\ \A i \in 1 .. Len(frames) : frames'[i] = frames[i]
  BY EnteredMasked
<1>6. TopAgrees'
  <2>1. Frame(TRUE).pc = "header"
    BY DEF Frame
  <2>2. Agrees(Frame(TRUE), request, ep0', host)
    BY <1>3, <2>1 DEF Agrees, ThenOK, WillEnable, Decides
  <2> QED
    BY <1>1, <1>5, <2>2 DEF TopAgrees
<1>7. RestWaits'
  <2> SUFFICES ASSUME NEW i \in 1 .. Len(frames) PROVE Waiting(frames[i], host)
    <3>1. \A i \in 1 .. Len(frames') - 1 : i \in 1 .. Len(frames)
      BY <1>2, <1>5
    <3> QED
      BY <1>1, <1>5, <3>1 DEF RestWaits
  <2>1. CASE i = Len(frames)
    <3>1. frames # <<>> /\ frames[i] = Top
      BY <1>2, <2>1 DEF Top
    <3>2. Agrees(Top, request, ep0, host)
      BY <3>1, Assumed DEF AddressAssumed
    <3> QED
      BY <1>1, <3>1, <3>2 DEF Agrees, Waiting
  <2>2. CASE i # Len(frames)
    <3>1. i \in 1 .. Len(frames) - 1
      BY <1>2, <2>2
    <3> QED
      BY <3>1 DEF AddressOK, RestWaits
  <2> QED
    BY <2>1, <2>2
<1> QED
  BY <1>4, <1>6, <1>7 DEF AddressOK

LEMMA MainAddress == ASSUME IInv, MaskedWhileActive, AddressOK, Main PROVE AddressOK'
<1>1. /\ frames = <<>> /\ frames' \in {<<>>, <<Frame(FALSE)>>}
      /\ UNCHANGED <<request, addressed, state, host>>
      /\ ep0'.setup = ep0.setup /\ ep0'.stall = ep0.stall
  BY MainLeaves
<1>2. AddressAgrees' /\ SetupFresh' /\ AwayIsOff'
  BY <1>1 DEF AddressOK, AddressAgrees, AtRequest, SetupFresh, AwayIsOff
<1>3. TopAgrees' /\ RestWaits'
  <2> DEFINE g == Frame(FALSE)
  <2>1. g.pc = "header" /\ ~g.isr
    BY DEF Frame
  <2> HIDE DEF g
  <2>2. Len(<<>>) = 0 /\ Len(<<g>>) = 1 /\ <<g>>[1] = g
    OBVIOUS
  <2>3. \A i \in 1 .. Len(frames') - 1 : FALSE
    <3>1. CASE frames' = <<>>
      BY <2>2, <3>1
    <3>2. CASE frames' = <<g>>
      BY <2>2, <3>2
    <3> QED
      BY <1>1, <3>1, <3>2 DEF g
  <2>4. frames' # <<>> => Top' = g
    <3>1. CASE frames' = <<g>>
      BY <2>2, <3>1 DEF Top
    <3> QED
      BY <1>1, <3>1 DEF g
  <2>5. Agrees(g, request', ep0', host')
    BY <2>1 DEF Agrees, ThenOK, WillEnable, Decides
  <2>6. TopAgrees'
    BY <2>4, <2>5, Zenon DEF TopAgrees
  <2>7. RestWaits'
    BY <2>3, Zenon DEF RestWaits
  <2> QED
    BY <2>6, <2>7
<1> QED
  BY <1>2, <1>3 DEF AddressOK

LEMMA BusAddress == ASSUME IInv, MaskedWhileActive, AddressOK, Bus PROVE AddressOK'
<1>1. UNCHANGED <<frames, request>>
  BY BusLeaves
<1>2. Top' = Top
  BY <1>1 DEF Top
<1>3. CASE /\ UNCHANGED <<ep0, addressed, host>>
           /\ state' = "Unattached" => state = "Unattached"
  <2>1. AddressAgrees' /\ SetupFresh' /\ AwayIsOff'
    BY <1>3 DEF AddressOK, AddressAgrees, AtRequest, SetupFresh, AwayIsOff
  <2>2. TopAgrees' /\ RestWaits'
    BY <1>1, <1>2, <1>3 DEF AddressOK, TopAgrees, RestWaits
  <2> QED
    BY <2>1, <2>2 DEF AddressOK
<1>4. CASE UNCHANGED <<ep0, addressed>> /\ host'.stage = "off"
  <2>1. AddressAgrees' /\ SetupFresh' /\ AwayIsOff'
    BY <1>4 DEF AddressAgrees, AtRequest, SetupFresh, AwayIsOff
  <2>2. Settled(host')
    BY <1>4 DEF Settled
  <2>3. TopAgrees'
    <3> SUFFICES ASSUME frames # <<>> PROVE Agrees(Top, request, ep0, host')
      BY <1>1, <1>2, <1>4 DEF TopAgrees
    <3>1. Agrees(Top, request, ep0, host)
      BY Assumed DEF AddressAssumed
    <3> QED
      BY <2>2, <3>1 DEF Agrees
  <2>4. RestWaits'
    BY <1>1, <2>2 DEF AddressOK, RestWaits, Waiting
  <2> QED
    BY <2>1, <2>3, <2>4 DEF AddressOK
<1>5. CASE /\ frames = <<>> /\ ~ep0'.setup /\ host'.stage = "idle" /\ state' # "Unattached"
  <2>1. AddressAgrees' /\ SetupFresh' /\ AwayIsOff'
    BY <1>5 DEF AddressAgrees, AtRequest, SetupFresh, AwayIsOff
  <2>2. TopAgrees' /\ RestWaits'
    BY <1>1, <1>5 DEF AddressOK, TopAgrees, RestWaits
  <2> QED
    BY <2>1, <2>2 DEF AddressOK
<1> QED
  BY <1>3, <1>4, <1>5, BusLeaves

LEMMA HostAddress == ASSUME IInv, MaskedWhileActive, AddressOK, Host PROVE AddressOK'
<1>1. /\ UNCHANGED <<frames, request, addressed, state>>
      /\ host.addressed = addressed /\ host.stage # "off" /\ host'.stage # "off"
  BY HostLeaves
<1>2. Top' = Top
  BY <1>1 DEF Top
<1>3. AwayIsOff'
  BY <1>1 DEF AddressOK, AwayIsOff
<1>4. ASSUME Settled(host) => Settled(host'), AddressAgrees', SetupFresh',
             NEW f, Agrees(f, request, ep0, host) => Agrees(f, request, ep0', host'),
             frames # <<>> => f = Top
      PROVE  AddressOK'
  <2>1. TopAgrees'
    BY <1>1, <1>2, <1>4 DEF AddressOK, TopAgrees
  <2>2. RestWaits'
    BY <1>1, <1>4 DEF AddressOK, RestWaits, Waiting
  <2> QED
    BY <1>3, <1>4, <2>1, <2>2 DEF AddressOK
<1>5. PICK f : f = Top
  OBVIOUS
<1>6. CASE /\ host.stage = "idle" /\ host'.addressed = host.addressed
           /\ host'.stage = FirstStage(host'.req) /\ ep0'.setup /\ ~ep0'.stall
  <2>1. Settled(host) => Settled(host')
    BY <1>1, <1>6 DEF Settled
  <2>2. AddressAgrees' /\ SetupFresh'
    BY <1>1, <1>6 DEF AddressAgrees, SetupFresh
  <2>3. Agrees(f, request, ep0, host) => Agrees(f, request, ep0', host')
    BY <1>6, <2>1 DEF Agrees, Requested
  <2> QED
    BY <1>4, <1>5, <2>1, <2>2, <2>3
<1>7. CASE /\ ~ep0.setup /\ ~ep0'.setup
           /\ \/ host'.addressed = host.addressed
              \/ host'.addressed = TRUE /\ host'.stage = "idle"
           /\ Requested(host, ep0) => host'.addressed
  <2>1. Settled(host) => Settled(host')
    BY <1>1, <1>7 DEF Settled
  <2>2. AddressAgrees' /\ SetupFresh'
    BY <1>1, <1>7 DEF AddressAgrees, AtRequest, SetupFresh
  <2>3. Requested(host, ep0) => Settled(host')
    BY <1>7 DEF Settled
  <2>4. Agrees(f, request, ep0, host) => Agrees(f, request, ep0', host')
    BY <1>7, <2>1, <2>3 DEF Agrees
  <2> QED
    BY <1>4, <1>5, <2>1, <2>2, <2>4
<1> QED
  BY <1>6, <1>7, HostLeaves

(***************************************************************************)
(* The theorems of the histories without a bus reset in a request          *)
(***************************************************************************)

LEMMA MaskedStep == ASSUME IInv, MaskedWhileActive, [Next]_vars PROVE MaskedWhileActive'
<1>1. CASE UNCHANGED vars
  BY <1>1 DEF vars, MaskedWhileActive, Active, Top
<1>2. CASE Next
  BY <1>2, HandlerMoves, MovedMasked, LeftMasked, EnteredMasked, MainMasked, BusMasked,
     HostMasked DEF Next, Cpu
<1> QED
  BY <1>1, <1>2

LEMMA AddressStep ==
  ASSUME IInv, MaskedWhileActive, AddressOK, [Next]_vars PROVE AddressOK'
<1>1. CASE UNCHANGED vars
  BY <1>1 DEF vars, AddressOK, AddressAgrees, AtRequest, SetupFresh, AwayIsOff, TopAgrees,
     RestWaits, Top
<1>2. CASE Next
  BY <1>2, HandlerMoves, MovedAddress, LeftAddress, EnteredAddress, MainAddress, BusAddress,
     HostAddress DEF Next, Cpu
<1> QED
  BY <1>1, <1>2

NoResetMidway == Budget.resetMidway = 0

(* As long as no bus reset comes in the middle of a request, the interrupt *)
(* of the control endpoint stays disabled from its entry until its handler *)
(* is done with the request: ComEnter masks it, and nothing but ComLeave   *)
(* enables it again.                                                       *)
THEOREM UsbMasked == NoResetMidway => (Spec => []MaskedWhileActive)
<1> SUFFICES ASSUME NoResetMidway PROVE Spec => []MaskedWhileActive
  OBVIOUS
<1>1. Init => MaskedWhileActive
  BY DEF NoResetMidway, Init, MaskedWhileActive, Active, EmptyEp0, NobodyThere
<1>2. IInv /\ MaskedWhileActive /\ [Next]_vars => MaskedWhileActive'
  BY MaskedStep
<1> QED
  BY <1>1, <1>2, UsbInvariance, PTL DEF Spec

(* ... and so a second SETUP waits: no two interrupt activations are in a  *)
(* request, although the handler enables interrupts and several may be on  *)
(* the stack.                                                              *)
THEOREM OneRequestAtATime == NoResetMidway => (Spec => []NotReentered)
<1> SUFFICES ASSUME NoResetMidway PROVE Spec => []NotReentered
  OBVIOUS
<1>1. ASSUME IInv, MaskedWhileActive PROVE NotReentered
  <2> DEFINE S == {i \in 1 .. Len(frames) : frames[i].isr /\ frames[i].pc # "restore"}
             n == Len(frames)
  <2>1. n \in Nat
    BY <1>1, Types DEF IInv
  <2>2. \A i \in 1 .. n : i = n \/ i \in 1 .. n - 1
    BY <2>1
  <2>3. \A i \in S : i = n
    BY <1>1, <2>2 DEF MaskedWhileActive
  <2>4. S = {} \/ S = {n}
    BY <2>3
  <2>5. Cardinality(S) \in {0, 1}
    BY <2>4, FS_EmptySet, FS_Singleton
  <2> QED
    BY <2>5 DEF NotReentered
<1> QED
  BY <1>1, UsbInvariance, UsbMasked, PTL

(* As long as no bus reset comes in the middle of a request, what an       *)
(* activation may still do to the address is what the host waits for.      *)
THEOREM AddressInvariance == NoResetMidway => (Spec => []AddressOK)
<1> SUFFICES ASSUME NoResetMidway PROVE Spec => []AddressOK
  OBVIOUS
<1>1. Init => AddressOK
  <2>1. Init => frames = <<>> /\ Len(frames) = 0
    BY DEF Init
  <2> QED
    BY <2>1 DEF Init, AddressOK, AddressAgrees, AtRequest, SetupFresh, AwayIsOff, TopAgrees,
       RestWaits, EmptyEp0, NobodyThere
<1>2. IInv /\ MaskedWhileActive /\ AddressOK /\ [Next]_vars => AddressOK'
  BY AddressStep
<1> QED
  BY <1>1, <1>2, UsbInvariance, UsbMasked, PTL DEF Spec

(* ... so the device never changes its address under a transfer: an        *)
(* activation that enables it has seen the host take the status stage, or  *)
(* the host is away, and the shared request header does not make another   *)
(* activation enable it.                                                   *)
THEOREM AddressInTime == NoResetMidway => (Spec => []AddressAgrees)
<1> SUFFICES ASSUME NoResetMidway PROVE Spec => []AddressAgrees
  OBVIOUS
<1>1. AddressOK => AddressAgrees
  BY DEF AddressOK
<1> QED
  BY <1>1, AddressInvariance, PTL

(***************************************************************************)
(* Steps of a handler in order                                             *)
(***************************************************************************)

OrderAssumed == IInv /\ MaskedWhileActive /\ AddressOK /\ OrderOK

(* A step of the innermost activation, all that matters for the order.     *)
Follows(f) ==
  /\ frames # <<>> /\ Become(f) /\ f \in FrameType /\ f.isr = Top.isr
  /\ f.pc # "restore" /\ Top.pc # "restore"
  /\ host' = host /\ bus' = bus /\ ep0'.irq = ep0.irq
  /\ ep0'.setup => ep0.setup
  /\ left'.eager = 0 /\ left'.late \in Nat /\ left'.late <= left.late
  /\ state' # "Suspended"
  /\ IF f.isr THEN Serves(f, request', ep0', host) ELSE ep0' = ep0 /\ Inert(f)
  /\ baud' /\ HasConfig' =>
       host.config = 1 \/ Deconfigures(ep0', host) \/ (f.isr /\ Forgets(f))
InOrder == \E f : Follows(f)

(* What the invariant says of the innermost activation.                    *)
LEMMA TopInOrder ==
  ASSUME OrderAssumed, frames # <<>>, Top.pc # "restore"
  PROVE  /\ Top \in FrameType /\ FrameOK(Top) /\ (NeedsEp0(Top) => sel = 0) /\ ThenOK(Top)
         /\ Top.isr => Active /\ Serves(Top, request, ep0, host) /\ ~ep0.irq
         /\ ~Top.isr => Inert(Top) /\ left.late = 0 /\ (ep0.setup => ep0.irq)
         /\ state # "Suspended" /\ ep0 \in Ep0Type /\ host \in HostType
         /\ state = "Unattached" => host.stage = "off"
         /\ left.eager = 0 /\ left.late \in Nat
         /\ baud /\ HasConfig =>
              host.config = 1 \/ Deconfigures(ep0, host) \/ (Top.isr /\ Forgets(Top))
<1>1. Top \in FrameType /\ FrameOK(Top) /\ (NeedsEp0(Top) => sel = 0)
  BY TopOK DEF OrderAssumed
<1>2. frames \in Seq(FrameType) /\ ep0 \in Ep0Type /\ host \in HostType /\ left \in Budgets
  BY Types DEF OrderAssumed, IInv
<1>3. Len(frames) \in 1 .. Len(frames) /\ Top = frames[Len(frames)]
  BY <1>2, TopIs
<1>4. Top.isr => Active /\ Serves(Top, request, ep0, host) /\ ~ep0.irq
  BY DEF OrderAssumed, OrderOK, InStep, Active, MaskedWhileActive
<1>5. ~Top.isr => Inert(Top) /\ left.late = 0
  BY <1>3 DEF OrderAssumed, OrderOK, TaskInert
<1>6. ~Top.isr => (ep0.setup => ep0.irq)
  BY DEF OrderAssumed, OrderOK, TaskInert, Active
<1>7. ThenOK(Top) /\ state # "Suspended" /\ (state = "Unattached" => host.stage = "off")
  BY DEF OrderAssumed, OrderOK, AsleepIsQuiet, AddressOK, TopAgrees, Agrees, AwayIsOff
<1>8. left.eager = 0 /\ left.late \in Nat
  BY <1>2 DEF OrderAssumed, OrderOK, TaskInert, Budgets
<1>9. baud /\ HasConfig =>
              host.config = 1 \/ Deconfigures(ep0, host) \/ (Top.isr /\ Forgets(Top))
  BY DEF OrderAssumed, OrderOK, LineForgotten, Active
<1> QED
  BY <1>1, <1>2, <1>4, <1>5, <1>6, <1>7, <1>8, <1>9, Zenon

LEMMA FollowsOn ==
  ASSUME OrderAssumed, frames # <<>>, Top.pc # "restore",
         NEW f \in FrameType, Become(f), f.isr = Top.isr, f.pc # "restore",
         UNCHANGED <<bus, host>>, left' = left,
         state' = state \/ state' # "Suspended",
         ep0'.irq = ep0.irq, ep0'.setup => ep0.setup,
         IF f.isr THEN Serves(f, request', ep0', host) ELSE ep0' = ep0 /\ Inert(f),
         \/ host.config = 1 \/ (f.isr /\ Forgets(f)) \/ ~baud'
         \/ /\ baud' /\ HasConfig' => baud /\ HasConfig /\ ~Forgets(Top)
            /\ Deconfigures(ep0, host) => Deconfigures(ep0', host)
  PROVE  InOrder
<1>1. /\ state # "Suspended" /\ left.eager = 0 /\ left.late \in Nat
      /\ baud /\ HasConfig =>
              host.config = 1 \/ Deconfigures(ep0, host) \/ (Top.isr /\ Forgets(Top))
  BY TopInOrder
<1>2. left'.eager = 0 /\ left'.late \in Nat /\ left'.late <= left.late
  BY <1>1
<1>3. state' # "Suspended"
  BY <1>1
<1>4. baud' /\ HasConfig' =>
        host.config = 1 \/ Deconfigures(ep0', host) \/ (f.isr /\ Forgets(f))
  BY <1>1, Zenon
<1>5. Follows(f)
  BY <1>2, <1>3, <1>4, Zenon DEF Follows
<1> QED
  BY <1>5 DEF InOrder

LEMMA ReadHeaderFollows == ASSUME OrderAssumed, ReadHeader PROVE InOrder
<1>1. /\ frames # <<>> /\ Top.pc = "header" /\ GoTo("class?")
      /\ UNCHANGED <<main, sel, baud, ep0, bus, host, disturbed, left>>
      /\ UNCHANGED <<state, config>>
      /\ request' = IF ep0.setup THEN host.req ELSE Junk
  BY DEF ReadHeader, Header, At, devVars
<1>2. PICK f \in FrameType : /\ Become(f) /\ f.pc = "class?" /\ f.isr = Top.isr
                             /\ f.then = Top.then /\ f.saw = Top.saw
  BY <1>1, ToPlace DEF Places, OrderAssumed
<1>3. ~Forgets(Top) /\ HasConfig' = HasConfig
  BY <1>1 DEF Forgets, HasConfig
<1>4. ASSUME f.isr PROVE Serves(f, request', ep0', host)
  <2>1. Pending(ep0, host)
    BY <1>1, <1>2, <1>4, TopInOrder DEF Serves
  <2>2. request' = host.req
    BY <1>1, <2>1 DEF Pending
  <2> QED
    BY <1>1, <1>2, <2>1, <2>2 DEF Serves, Unhandled
<1>5. ASSUME ~f.isr PROVE Inert(f)
  BY <1>1, <1>2, <1>5, TopInOrder DEF Inert, Idles
<1> QED
  BY <1>1, <1>2, <1>3, <1>4, <1>5, FollowsOn

LEMMA ReadFlagsFollow == ASSUME OrderAssumed, ReadFlags PROVE InOrder
<1> SUFFICES ASSUME NEW from \in {"class?", "standard?", "check?"},
                    NEW to \in {"class", "standard", "check"},
                    from = "class?" => to = "class", from = "standard?" => to = "standard",
                    from = "check?" => to = "check", ReadFlag(from, to)
             PROVE  InOrder
  BY DEF ReadFlags
<1>1. /\ frames # <<>> /\ Top.pc = from /\ Become([Top EXCEPT !.pc = to, !.saw = IsSETUPReceived])
      /\ UNCHANGED <<main, sel, request, baud, ep0, bus, host, disturbed>>
      /\ UNCHANGED <<state, config>>
      /\ IF ComPending THEN Spend("late") ELSE UNCHANGED left
  BY DEF ReadFlag, devVars
<1>2. Top \in FrameType /\ (NeedsEp0(Top) => sel = 0) /\ ep0 \in Ep0Type
  BY <1>1, TopInOrder
<1>3. PICK f : f = [Top EXCEPT !.pc = to, !.saw = IsSETUPReceived]
  OBVIOUS
<1>4. IsSETUPReceived \in BOOLEAN
  BY <1>2 DEF IsSETUPReceived, Ep0Type
<1>5. /\ f \in FrameType /\ f.pc = to /\ f.isr = Top.isr
      /\ f.then = Top.then /\ f.saw = IsSETUPReceived
  <2> HIDE DEF IsSETUPReceived
  <2> QED
    BY <1>2, <1>3, <1>4 DEF FrameType, Places
<1>6. ~Forgets(Top) /\ HasConfig' = HasConfig
  BY <1>1 DEF Forgets, HasConfig
<1>7. ~ComPending
  <2>1. CASE Top.isr
    BY <1>1, <2>1, TopInOrder DEF ComPending
  <2>2. CASE ~Top.isr
    <3>1. left.late = 0
      BY <1>1, <2>2, TopInOrder
    <3> QED
      BY <1>1, <3>1 DEF Spend
  <2> QED
    BY <2>1, <2>2
<1>8. ASSUME f.isr PROVE Serves(f, request, ep0, host)
  <2>1. Serves(Top, request, ep0, host)
    BY <1>1, <1>5, <1>8, TopInOrder
  <2>2. f.saw => ep0.setup
    BY <1>5 DEF IsSETUPReceived
  <2>3. to \in {"class", "standard"} /\ ep0.setup => f.saw
    BY <1>1, <1>2, <1>5 DEF IsSETUPReceived, NeedsEp0
  <2>4. to \in {"class", "standard"} => Unhandled(Top, request, ep0, host) \/ Done(Top, ep0, host)
    BY <1>1, <2>1 DEF Serves
  <2>5. CASE to = "class"
    <3>1. Unhandled(Top, request, ep0, host)
      BY <1>1, <2>1, <2>5 DEF Serves
    <3>2. Unhandled(f, request, ep0, host)
      BY <1>5, <2>3, <2>5, <3>1 DEF Unhandled, Pending
    <3> QED
      BY <1>5, <2>5, <3>2 DEF Serves
  <2>6. CASE to \in {"standard", "check"}
    <3>1. Top.pc \in {"standard?", "check?"}
      BY <1>1, <2>6
    <3>2. CASE Unhandled(Top, request, ep0, host)
      <4>1. Unhandled(f, request, ep0, host)
        BY <1>1, <1>5, <2>3, <2>6, <3>2 DEF Unhandled, Pending
      <4> QED
        BY <1>5, <2>6, <4>1 DEF Serves
    <3>3. CASE Done(Top, ep0, host)
      <4>1. Done(f, ep0, host)
        BY <2>2, <3>3 DEF Done, Answered
      <4> QED
        BY <1>5, <2>6, <4>1 DEF Serves
    <3> QED
      BY <2>1, <3>1, <3>2, <3>3 DEF Serves
  <2> QED
    BY <2>5, <2>6
<1>9. ASSUME ~f.isr PROVE Inert(f)
  <2>1. ~ep0.setup
    BY <1>1, <1>5, <1>7, <1>9, TopInOrder DEF ComPending
  <2> QED
    BY <1>5, <2>1 DEF Inert, Idles, IsSETUPReceived
<1> QED
  BY <1>1, <1>3, <1>5, <1>6, <1>7, <1>8, <1>9, FollowsOn

LEMMA PassFollows ==
  ASSUME OrderAssumed,
         Pass("class", Class, "standard?") \/ Pass("standard", Standard, "check?")
  PROVE  InOrder
<1>1. PICK from \in {"class", "standard"}, to \in {"standard?", "check?"} :
        /\ frames # <<>> /\ Top.pc = from /\ GoTo(to)
        /\ UNCHANGED <<main, sel, request, baud, ep0, bus, host, disturbed, left>>
        /\ UNCHANGED <<state, config>>
        /\ from = "class" => to = "standard?" /\ ~(Top.saw /\ request \in Class)
        /\ from = "standard" => to = "check?" /\ ~(Top.saw /\ request \in Standard)
  BY DEF Pass, At, devVars
<1>2. PICK f \in FrameType : /\ Become(f) /\ f.pc = to /\ f.isr = Top.isr
                             /\ f.then = Top.then /\ f.saw = Top.saw
  BY <1>1, ToPlace DEF Places, OrderAssumed
<1>3. ~Forgets(Top) /\ HasConfig' = HasConfig
  BY <1>1 DEF Forgets, HasConfig
<1>4. ASSUME f.isr PROVE Serves(f, request, ep0, host)
  <2>1. Unhandled(Top, request, ep0, host) \/ (from = "standard" /\ Done(Top, ep0, host))
    BY <1>1, <1>2, <1>4, TopInOrder DEF Serves
  <2>2. CASE Unhandled(Top, request, ep0, host)
    <3>1. Unhandled(f, request, ep0, host)
      BY <1>1, <1>2, <2>2 DEF Unhandled
    <3> QED
      BY <1>2, <3>1 DEF Serves
  <2>3. CASE from = "standard" /\ Done(Top, ep0, host)
    <3>1. Done(f, ep0, host)
      BY <1>1, <1>2, <2>3 DEF Done
    <3> QED
      BY <1>1, <1>2, <2>3, <3>1 DEF Serves
  <2> QED
    BY <2>1, <2>2, <2>3
<1>5. ASSUME ~f.isr PROVE Inert(f)
  BY <1>1, <1>2, <1>5, TopInOrder DEF Inert, Idles
<1> QED
  BY <1>1, <1>2, <1>3, <1>4, <1>5, FollowsOn

LEMMA StallRestFollows == ASSUME OrderAssumed, StallRest PROVE InOrder
<1>1. /\ frames # <<>> /\ Top.pc = "check" /\ GoTo("leave")
      /\ ep0' = IF Top.saw THEN [Acknowledged EXCEPT !.stall = TRUE] ELSE ep0
      /\ UNCHANGED <<main, sel, request, baud, bus, host, disturbed, left>>
      /\ UNCHANGED <<state, config>>
  BY DEF StallRest, At, devVars
<1>2. PICK f \in FrameType : /\ Become(f) /\ f.pc = "leave" /\ f.isr = Top.isr
                             /\ f.then = Top.then /\ f.saw = Top.saw
  BY <1>1, ToPlace DEF Places, OrderAssumed
<1>3. ~Forgets(Top) /\ HasConfig' = HasConfig /\ ep0 \in Ep0Type /\ host \in HostType
  BY <1>1, TopInOrder DEF Forgets, HasConfig
<1>4. CASE ~Top.saw
  <2>1. ep0' = ep0
    BY <1>1, <1>4
  <2>2. ASSUME f.isr PROVE Serves(f, request, ep0, host)
    BY <1>1, <1>2, <2>2, TopInOrder DEF Serves, Unhandled, Done
  <2>3. ASSUME ~f.isr PROVE Inert(f)
    BY <1>1, <1>2, <2>3, TopInOrder DEF Inert, Idles
  <2> QED
    BY <1>1, <1>2, <1>3, <2>1, <2>2, <2>3, FollowsOn
<1>5. CASE Top.saw
  <2>1. /\ ~ep0'.setup /\ ep0'.out = ep0.out /\ ep0'.in = ep0.in /\ ep0'.irq = ep0.irq
    BY <1>1, <1>3, <1>5 DEF Acknowledged, Ep0Type
  <2>2. Top.isr
    BY <1>1, <1>5, TopInOrder DEF Inert
  <2>3. Pending(ep0, host) /\ host.req \notin Class \cup Standard
    BY <1>1, <1>5, <2>2, TopInOrder DEF Serves, Unhandled, Done
  <2>4. host.req = Unknown
    BY <1>3, <2>3, DeviceAssumption DEF Pending, HostType, Kinds
  <2>5. host.stage = "off" \/ (host.stage = "status" /\ ep0.in = "free" /\ ~ep0.out)
    BY <2>3, <2>4 DEF Pending, FirstStage, In, Unknown
  <2>6. Answered(ep0', host)
    BY <2>1, <2>4, <2>5 DEF Answered
  <2>7. Serves(f, request, ep0', host)
    BY <1>2, <2>6 DEF Serves
  <2>8. ~Deconfigures(ep0, host)
    BY <2>4 DEF Deconfigures, Unknown
  <2> QED
    BY <1>1, <1>2, <1>3, <2>1, <2>2, <2>7, <2>8, FollowsOn
<1> QED
  BY <1>4, <1>5

(* A request begins: the interrupt has seen the SETUP.                     *)
LEMMA BegunInOrder ==
  ASSUME OrderAssumed, NEW from \in {"class", "standard"},
         NEW r, NEW to \in Places \ {"restore"}, NEW then, Begin(from, r, to, then),
         then \in {"standard?", "check?", "configState", "addressWait"}
  PROVE  /\ frames # <<>> /\ Top.pc = from /\ request = r /\ host.req = r /\ request' = request
         /\ UNCHANGED <<baud, bus, host, left>>
         /\ Pending(ep0, host) /\ ep0 \in Ep0Type /\ host \in HostType /\ ~Forgets(Top)
         /\ \E f \in FrameType : Become(f) /\ f.isr /\ f.isr = Top.isr /\ f.pc = to /\ f.then = then
<1>1. /\ frames # <<>> /\ Top.pc = from /\ Top.saw /\ request = r /\ Become(Begun(to, then))
      /\ UNCHANGED <<main, request, baud, bus, host, disturbed, left>>
  BY DEF Begin, At, Begun
<1>2. PICK f : f = Begun(to, then)
  OBVIOUS
<1>3. Top \in FrameType /\ ep0 \in Ep0Type /\ host \in HostType /\ ~Forgets(Top)
  BY <1>1, TopInOrder DEF Forgets
<1>4. f \in FrameType /\ f.pc = to /\ f.isr = Top.isr /\ f.then = then
  BY <1>2, <1>3, DeviceAssumption DEF FrameType, Places, Waits, Begun
<1>5. Top.isr
  BY <1>1, TopInOrder DEF Inert
<1>6. Pending(ep0, host) /\ host.req = request
  BY <1>1, <1>5, TopInOrder DEF Serves, Unhandled, Done
<1> QED
  BY <1>1, <1>2, <1>3, <1>4, <1>5, <1>6

(* ... and is acknowledged.                                                *)
LEMMA AcknowledgedFields ==
  ASSUME ep0 \in Ep0Type
  PROVE  /\ ~Acknowledged.setup /\ Acknowledged.out = ep0.out /\ Acknowledged.in = ep0.in
         /\ Acknowledged.stall = ep0.stall /\ Acknowledged.irq = ep0.irq
         /\ LET a == Answer(Acknowledged)
            IN  ~a.setup /\ a.out = ep0.out /\ a.in = request /\ a.stall = ep0.stall /\ a.irq = ep0.irq
BY DEF Acknowledged, Answer, Ep0Type

LEMMA BeginFollows ==
  ASSUME OrderAssumed, NEW from \in {"class", "standard"},
         NEW r \in Class \cup Standard, NEW to, NEW then, Begin(from, r, to, then),
         \/ /\ r = "GetLineEncoding" /\ to = "lineWait" /\ then = "standard?"
            /\ ep0' = Acknowledged
         \/ /\ r = "SetLineEncoding" /\ to = "lineData" /\ then = "standard?"
            /\ ep0' = Acknowledged
         \/ /\ r = "GetDescriptor" /\ to = "stream" /\ then = "check?"
            /\ ep0' = Acknowledged
         \/ /\ r = "GetConfiguration" /\ to = "statusOut" /\ then = "check?"
            /\ ep0' = Answer(Acknowledged)
         \/ /\ r = "GetStatus" /\ to = "status" /\ then = "check?"
            /\ ep0' = ep0
         \/ /\ r \in {"SetControlLineState", "SetAddress", "Configure", "Deconfigure"}
            /\ to = "statusIn" /\ then \in {"standard?", "addressWait", "configState"}
            /\ ep0' = Acknowledged,
         state' = state, config' = config \/ then = "configState",
         r = "Deconfigure" => then = "configState"
  PROVE  InOrder
<1>1. /\ to \in Places \ {"restore"}
      /\ then \in {"standard?", "check?", "configState", "addressWait"}
  BY DEF Places, Waits
<1>2. /\ frames # <<>> /\ Top.pc = from /\ request = r /\ host.req = r /\ request' = request
      /\ UNCHANGED <<baud, bus, host, left>>
      /\ Pending(ep0, host) /\ ep0 \in Ep0Type /\ host \in HostType /\ ~Forgets(Top)
      /\ \E f \in FrameType : Become(f) /\ f.isr /\ f.isr = Top.isr /\ f.pc = to /\ f.then = then
  BY <1>1, BegunInOrder
<1>3. PICK f \in FrameType : Become(f) /\ f.isr /\ f.isr = Top.isr /\ f.pc = to /\ f.then = then
  BY <1>2
<1>4. /\ ep0'.irq = ep0.irq /\ (ep0'.setup => ep0.setup) /\ ep0'.out = ep0.out
      /\ ep0'.stall = ep0.stall
      /\ ep0' = Acknowledged => ~ep0'.setup /\ ep0'.in = ep0.in
      /\ ep0' = Answer(Acknowledged) => ~ep0'.setup /\ ep0'.in = r
  BY <1>2, AcknowledgedFields
<1>5. \/ host.stage = "off"
      \/ host.stage = FirstStage(r) /\ ep0.in = "free" /\ ~ep0.out /\ ~ep0.stall
  BY <1>2 DEF Pending
<1>6. Serves(f, request', ep0', host)
  <2>1. CASE to \in {"lineWait", "stream", "statusOut"}
    <3>1. FirstStage(r) = "in"
      BY <2>1 DEF FirstStage, In
    <3> QED
      BY <1>2, <1>3, <1>4, <1>5, <2>1, <3>1 DEF Serves, Bare, Sending
  <2>2. CASE to = "lineData"
    <3>1. FirstStage(r) = "out" /\ host.config = 1
      BY <1>2, <2>2 DEF FirstStage, In, Pending, NeedsConfig
    <3> QED
      BY <1>2, <1>3, <1>4, <1>5, <2>2, <3>1 DEF Serves
  <2>3. CASE to = "status"
    BY <1>2, <1>3, <2>3 DEF Serves
  <2>4. CASE to = "statusIn"
    <3>1. FirstStage(r) = "status"
      BY <2>4 DEF FirstStage, In
    <3> QED
      BY <1>2, <1>3, <1>4, <1>5, <2>4, <3>1 DEF Serves, Bare
  <2> QED
    BY <2>1, <2>2, <2>3, <2>4
<1>7. CASE then = "configState"
  <2>1. Forgets(f)
    BY <1>3, <1>7 DEF Forgets
  <2> QED
    BY <1>2, <1>3, <1>4, <1>6, <2>1, FollowsOn
<1>8. CASE then # "configState"
  <2>1. HasConfig' = HasConfig
    BY <1>8 DEF HasConfig
  <2>2. ~Deconfigures(ep0, host)
    BY <1>2, <1>8 DEF Deconfigures
  <2> QED
    BY <1>2, <1>3, <1>4, <1>6, <2>1, <2>2, FollowsOn
<1> QED
  BY <1>7, <1>8

LEMMA ClassRequestFollows == ASSUME OrderAssumed, ClassRequest PROVE InOrder
<1>1. CASE Pass("class", Class, "standard?")
  BY <1>1, PassFollows
<1>2. CASE /\ \/ Begin("class", "GetLineEncoding", "lineWait", "standard?")
              \/ Begin("class", "SetLineEncoding", "lineData", "standard?")
              \/ Begin("class", "SetControlLineState", StatusStage, "standard?")
           /\ ep0' = Acknowledged /\ UNCHANGED sel /\ UNCHANGED devVars
  <2>1. state' = state /\ config' = config
    BY <1>2 DEF devVars
  <2>2. request = "SetControlLineState" => StatusStage = "statusIn"
    BY DEF StatusStage, In
  <2>3. Begin("class", "SetControlLineState", StatusStage, "standard?")
          => Begin("class", "SetControlLineState", "statusIn", "standard?")
    BY <2>2 DEF Begin
  <2>4. {"GetLineEncoding", "SetLineEncoding", "SetControlLineState"} \subseteq Class \cup Standard
    BY DEF Class
  <2> QED
    BY <1>2, <2>1, <2>3, <2>4, BeginFollows
<1> QED
  BY <1>1, <1>2 DEF ClassRequest

LEMMA StandardRequestFollows == ASSUME OrderAssumed, StandardRequest PROVE InOrder
<1>1. Standard \subseteq Class \cup Standard
  OBVIOUS
<1>2. CASE Pass("standard", Standard, "check?")
  BY <1>2, PassFollows
<1>3. CASE /\ \/ Begin("standard", "GetDescriptor", "stream", "check?")
              \/ Begin("standard", "SetAddress", StatusStage, "addressWait")
           /\ ep0' = Acknowledged /\ UNCHANGED sel /\ UNCHANGED devVars
  <2>1. request = "SetAddress" => StatusStage = "statusIn"
    BY DEF StatusStage, In
  <2>2. Begin("standard", "SetAddress", StatusStage, "addressWait")
          => Begin("standard", "SetAddress", "statusIn", "addressWait")
    BY <2>1 DEF Begin
  <2> QED
    BY <1>3, <2>2, BeginFollows DEF devVars, Standard
<1>4. CASE /\ Begin("standard", "GetConfiguration", StatusStage, "check?")
           /\ ep0' = Answer(Acknowledged) /\ UNCHANGED sel /\ UNCHANGED devVars
  <2>1. request = "GetConfiguration" => StatusStage = "statusOut"
    BY DEF StatusStage, In
  <2>2. Begin("standard", "GetConfiguration", "statusOut", "check?")
    BY <1>4, <2>1 DEF Begin
  <2> QED
    BY <1>4, <2>2, BeginFollows DEF devVars, Standard
<1>5. CASE /\ Begin("standard", "GetStatus", "status", "check?")
           /\ sel' \in DataEndpoints /\ UNCHANGED ep0 /\ UNCHANGED devVars
  BY <1>5, BeginFollows DEF devVars, Standard
<1>6. ASSUME NEW r \in {"Configure", "Deconfigure"}, NEW c, SetConfiguration(r, c) PROVE InOrder
  <2>1. /\ Begin("standard", r, StatusStage, "configState") /\ ep0' = Acknowledged /\ state' = state
    BY <1>6 DEF SetConfiguration
  <2>2. request = r => StatusStage = "statusIn"
    BY DEF StatusStage, In
  <2>3. Begin("standard", r, "statusIn", "configState")
    BY <2>1, <2>2 DEF Begin
  <2> QED
    BY <2>1, <2>3, BeginFollows DEF Standard
<1> QED
  BY <1>2, <1>3, <1>4, <1>5, <1>6 DEF StandardRequest

(* Only the interrupt comes to the places where it waits for the host.     *)
LEMMA Busy ==
  ASSUME OrderAssumed, frames # <<>>, Top.pc \notin Idles \cup {"restore"}
  PROVE  /\ Top.isr /\ Serves(Top, request, ep0, host) /\ ep0 \in Ep0Type
         /\ state # "Suspended" /\ (state = "Unattached" => host.stage = "off")
         /\ ThenOK(Top) /\ FrameOK(Top)
         /\ Top.pc # "status" => ~ep0.setup
<1>1. /\ Top.isr /\ Serves(Top, request, ep0, host) /\ ep0 \in Ep0Type /\ Top \in FrameType
      /\ state # "Suspended" /\ (state = "Unattached" => host.stage = "off")
      /\ ThenOK(Top) /\ FrameOK(Top)
  BY TopInOrder DEF Inert
<1>2. Top.pc \in {"status", "clearOut", "addressState", "configState", "configure"} \cup Waits
  BY <1>1 DEF FrameType, Places, Idles
<1>3. Top.pc # "status" => ~ep0.setup
  BY <1>1, <1>2 DEF Serves, Bare, Sending, Answered, Waits
<1> QED
  BY <1>1, <1>3

LEMMA GoesBusy ==
  ASSUME OrderAssumed, frames # <<>>, Top.pc \notin Idles \cup {"restore"},
         NEW to \in Places \ {"restore"}, GoTo(to),
         UNCHANGED <<request, bus, host, left>>, state' = state \/ state' # "Suspended",
         ep0'.irq = ep0.irq, ep0'.setup => ep0.setup,
         \A f : f.pc = to => Serves(f, request, ep0', host),
         \/ /\ baud' /\ HasConfig' => baud /\ HasConfig /\ (Forgets(Top) => to = "configState")
            /\ ~Deconfigures(ep0, host)
         \/ host.config = 1 \/ to = "configState"
  PROVE  InOrder
<1>1. PICK f \in FrameType : /\ Become(f) /\ f.pc = to /\ f.isr = Top.isr
                             /\ f.then = Top.then /\ f.saw = Top.saw
  BY ToPlace DEF OrderAssumed
<1>2. f.isr /\ Serves(f, request', ep0', host)
  BY <1>1, Busy
<1>3. to = "configState" => Forgets(f)
  BY <1>1 DEF Forgets
<1>4. \/ host.config = 1 \/ (f.isr /\ Forgets(f)) \/ ~baud'
      \/ /\ baud' /\ HasConfig' => baud /\ HasConfig /\ ~Forgets(Top)
         /\ Deconfigures(ep0, host) => Deconfigures(ep0', host)
  BY <1>2, <1>3, Zenon
<1> QED
  BY <1>1, <1>2, <1>4, FollowsOn

LEMMA LineEncodingFollows ==
  ASSUME OrderAssumed, GetLineEncoding \/ SetLineEncoding PROVE InOrder
<1>1. StatusStage \in Places \ {"restore"}
  BY DEF StatusStage, Places, Waits
<1>2. CASE GetLineEncoding
  <2>1. /\ frames # <<>> /\ Top.pc = "lineWait" /\ GoTo(StatusStage) /\ ep0' = Answer(ep0)
        /\ UNCHANGED <<request, bus, host, left, baud, state, config>>
    BY <1>2 DEF GetLineEncoding, Proceed, At, devVars
  <2>2. Top.pc \notin Idles \cup {"restore"} /\ ~Forgets(Top) /\ HasConfig' = HasConfig
    BY <2>1 DEF Idles, Forgets, HasConfig
  <2>3. /\ Bare("in", ep0, host)
        /\ host.stage = "in" => request = host.req /\ request = "GetLineEncoding"
        /\ ep0 \in Ep0Type
    BY <2>1, <2>2, Busy DEF Serves
  <2>4. /\ ep0'.irq = ep0.irq /\ ep0'.setup = ep0.setup /\ ep0'.out = ep0.out
        /\ ep0'.stall = ep0.stall /\ ep0'.in = request
    BY <2>1, <2>3 DEF Answer, Ep0Type
  <2>5. Sending(ep0', host)
    BY <2>3, <2>4 DEF Bare, Sending
  <2>6. StatusStage = "statusOut" \/ (StatusStage = "statusIn" /\ Bare("status", ep0', host))
    BY <2>3, <2>4 DEF StatusStage, In, Bare
  <2>7. \A f : f.pc = StatusStage => Serves(f, request, ep0', host)
    BY <2>5, <2>6 DEF Serves
  <2>8. ~Deconfigures(ep0, host)
    BY <2>3 DEF Bare, Deconfigures
  <2> QED
    BY <1>1, <2>1, <2>2, <2>4, <2>7, <2>8, GoesBusy
<1>3. CASE SetLineEncoding
  <2> DEFINE to == IF ep0.out THEN StatusStage ELSE Top.then
  <2>1. /\ frames # <<>> /\ Top.pc = "lineData" /\ GoTo(to) /\ ep0' = [ep0 EXCEPT !.out = FALSE]
        /\ ep0.out \/ state = "Unattached"
        /\ UNCHANGED <<request, bus, host, left, state, config>>
    BY <1>3 DEF SetLineEncoding, Proceed, At, devVars, DataReceived, Gone
  <2>2. Top.pc \notin Idles \cup {"restore"}
    BY <2>1 DEF Idles
  <2>3. /\ ~ep0.setup /\ host.config = 1 /\ ep0 \in Ep0Type
        /\ \/ host.stage = "off"
           \/ /\ ep0.out /\ host.stage = "status" /\ ep0.in = "free"
              /\ ~ep0.stall /\ request = "SetLineEncoding"
        /\ Top.then \in {"standard?", "check?"}
    BY <2>1, <2>2, Busy DEF Serves, ThenOK
  <2>4. /\ ep0'.irq = ep0.irq /\ ~ep0'.setup /\ ~ep0'.out
        /\ ep0'.stall = ep0.stall /\ ep0'.in = ep0.in
    BY <2>1, <2>3 DEF Ep0Type
  <2>5. to \in Places \ {"restore"}
    BY <1>1, <2>3 DEF Places
  <2>6. CASE ep0.out
    <3>1. \/ to = "statusIn" /\ Bare("status", ep0', host)
          \/ to = "statusOut" /\ Sending(ep0', host)
      BY <2>3, <2>4, <2>6 DEF StatusStage, In, Bare, Sending
    <3>2. \A f : f.pc = to => Serves(f, request, ep0', host)
      BY <3>1 DEF Serves
    <3> QED
      BY <2>1, <2>2, <2>3, <2>4, <2>5, <3>2, GoesBusy
  <2>7. CASE ~ep0.out
    <3>1. Answered(ep0', host)
      BY <2>3, <2>4, <2>7 DEF Answered
    <3>2. to \in {"standard?", "check?"}
      BY <2>3, <2>7
    <3>3. \A f : f.pc = to => Serves(f, request, ep0', host)
      BY <3>1, <3>2 DEF Serves, Done
    <3> QED
      BY <2>1, <2>2, <2>3, <2>4, <2>5, <3>3, GoesBusy
  <2> QED
    BY <2>6, <2>7
<1> QED
  BY <1>2, <1>3

LEMMA ClearStatusStageFollows == ASSUME OrderAssumed, ClearStatusStage PROVE InOrder
<1>1. /\ frames # <<>> /\ Top.pc \in {"statusIn", "statusOut"} /\ GoTo(Top.then)
      /\ UNCHANGED <<request, bus, host, left, state, config, baud>>
      /\ \/ /\ Top.pc = "statusOut" /\ (ep0.out \/ state = "Unattached")
            /\ ep0' = [ep0 EXCEPT !.out = FALSE]
         \/ /\ Top.pc = "statusIn" /\ (ep0.in = "free" \/ state = "Unattached")
            /\ ep0' = IF ep0.in = "free" THEN EmptyPacket ELSE ep0
  BY DEF ClearStatusStage, Proceed, At, devVars, Gone
<1>2. Top.pc \notin Idles \cup {"restore"} /\ HasConfig' = HasConfig
  BY <1>1 DEF Idles, HasConfig
<1>3. /\ ~ep0.setup /\ ep0 \in Ep0Type
      /\ Top.pc = "statusOut" => Sending(ep0, host)
      /\ Top.pc = "statusIn" => Bare("status", ep0, host)
      /\ state = "Unattached" => host.stage = "off"
      /\ Top.then \in {"standard?", "check?", "configState", "addressWait"}
      /\ Top.pc = "statusOut" => Top.then \in {"standard?", "check?"}
  BY <1>1, <1>2, Busy DEF Serves, ThenOK, FrameOK
<1>4. Top.then \in Places \ {"restore"}
  BY <1>3 DEF Places, Waits
<1>5. /\ ep0'.irq = ep0.irq /\ ~ep0'.setup /\ ep0'.stall = ep0.stall
      /\ Top.pc = "statusOut" => ~ep0'.out
      /\ Top.pc = "statusIn" => ep0'.out = ep0.out /\ (ep0.in = "free" => ep0'.in = Zlp)
  BY <1>1, <1>3 DEF EmptyPacket, Ep0Type
<1>6. Answered(ep0', host)
  <2>1. CASE host.stage = "off"
    BY <1>5, <2>1 DEF Answered
  <2>2. CASE host.stage # "off" /\ Top.pc = "statusOut"
    BY <1>1, <1>3, <1>5, <2>2 DEF Answered, Sending
  <2>3. CASE host.stage # "off" /\ Top.pc = "statusIn"
    BY <1>1, <1>3, <1>5, <2>3 DEF Answered, Bare
  <2> QED
    BY <1>1, <2>1, <2>2, <2>3
<1>7. \A f : f.pc = Top.then => Serves(f, request, ep0', host)
  <2>1. Top.then = "standard?" \/ Top.then = "check?" \/ Top.then = "configState"
        \/ Top.then = "addressWait"
    BY <1>3
  <2> QED
    BY <1>6, <2>1 DEF Serves, Done
<1>8. (Forgets(Top) => Top.then = "configState") /\ ~Deconfigures(ep0, host)
  BY <1>1, <1>3 DEF Forgets, Deconfigures
<1> QED
  BY <1>1, <1>2, <1>4, <1>5, <1>7, <1>8, GoesBusy

LEMMA GetStatusFollows == ASSUME OrderAssumed, GetStatus PROVE InOrder
<1>1. /\ frames # <<>> /\ Top.pc = "status" /\ GoTo(StatusStage)
      /\ UNCHANGED <<request, bus, host, left, state, config, baud>>
      /\ ep0' = Answer(Acknowledged)
  BY DEF GetStatus, At, devVars
<1>2. Top.pc \notin Idles \cup {"restore"} /\ ~Forgets(Top) /\ HasConfig' = HasConfig
  BY <1>1 DEF Idles, Forgets, HasConfig
<1>3. Pending(ep0, host) /\ request = host.req /\ request = "GetStatus" /\ ep0 \in Ep0Type
  BY <1>1, <1>2, Busy DEF Serves
<1>4. /\ ep0'.irq = ep0.irq /\ ~ep0'.setup /\ ep0'.out = ep0.out /\ ep0'.stall = ep0.stall
      /\ ep0'.in = request
  BY <1>1, <1>3, AcknowledgedFields
<1>5. StatusStage = "statusOut" /\ "statusOut" \in Places \ {"restore"} /\ FirstStage(request) = "in"
  BY <1>3 DEF StatusStage, In, Places, Waits, FirstStage
<1>6. Sending(ep0', host)
  BY <1>3, <1>4, <1>5 DEF Pending, Sending
<1>7. \A f : f.pc = "statusOut" => Serves(f, request, ep0', host)
  BY <1>6 DEF Serves
<1>8. ~Deconfigures(ep0, host)
  BY <1>3 DEF Deconfigures
<1> QED
  BY <1>1, <1>2, <1>4, <1>5, <1>7, <1>8, GoesBusy

LEMMA StreamFollows == ASSUME OrderAssumed, Stream \/ StreamEnds PROVE InOrder
<1>1. /\ frames # <<>> /\ Top.pc \in {"stream", "streamOut", "clearOut"}
      /\ UNCHANGED <<request, bus, host, left, state, config, baud>>
  BY DEF Stream, StreamEnds, Proceed, At, devVars
<1>2. Top.pc \notin Idles \cup {"restore"} /\ ~Forgets(Top) /\ HasConfig' = HasConfig
  BY <1>1 DEF Idles, Forgets, HasConfig
<1>3. /\ ~ep0.setup /\ ep0 \in Ep0Type /\ Top.isr /\ Top \in FrameType
      /\ Top.pc # "clearOut" => Sending(ep0, host)
      /\ Top.pc = "stream" /\ host.stage = "in" => request = host.req
      /\ Top.pc = "clearOut" => host.stage \in {"off", "idle"}
  BY <1>1, <1>2, Busy, TopInOrder DEF Serves
<1>4. ~Deconfigures(ep0, host) /\ (Cut => host.stage = "off")
  BY <1>1, <1>2, <1>3, Busy DEF Deconfigures, Cut
<1>5. {"clearOut", "streamOut", "check?"} \subseteq Places \ {"restore"}
  BY DEF Places, Waits
<1>6. CASE GoTo("streamOut") /\ ep0' = ep0 /\ Top.pc = "stream"
  <2>1. \A f : f.pc = "streamOut" => Serves(f, request, ep0', host)
    BY <1>3, <1>6 DEF Serves
  <2> QED
    BY <1>1, <1>2, <1>4, <1>5, <1>6, <2>1, GoesBusy
<1>7. CASE GoTo("clearOut") /\ ep0' = ep0 /\ Top.pc # "clearOut" /\ (ep0.out \/ Cut)
  <2>1. host.stage \in {"off", "idle"}
    BY <1>3, <1>4, <1>7 DEF Sending
  <2>2. \A f : f.pc = "clearOut" => Serves(f, request, ep0', host)
    BY <1>3, <1>7, <2>1 DEF Serves
  <2> QED
    BY <1>1, <1>2, <1>4, <1>5, <1>7, <2>2, GoesBusy
<1>8. CASE GoTo("check?") /\ ep0' = [ep0 EXCEPT !.out = FALSE] /\ Top.pc = "clearOut"
  <2>1. ep0'.irq = ep0.irq /\ ~ep0'.setup /\ ~ep0'.out
    BY <1>3, <1>8 DEF Ep0Type
  <2>2. Answered(ep0', host)
    BY <1>3, <1>8, <2>1 DEF Answered
  <2>3. \A f : f.pc = "check?" => Serves(f, request, ep0', host)
    BY <2>2 DEF Serves, Done
  <2> QED
    BY <1>1, <1>2, <1>4, <1>5, <1>8, <2>1, <2>3, GoesBusy
<1>9. CASE /\ Top.pc = "stream" /\ ep0.in = "free" /\ ~ep0.out /\ Top.n > 0 /\ ep0' = Answer(ep0)
           /\ Become([Top EXCEPT !.n = @ - 1])
  <2>1. PICK f : f = [Top EXCEPT !.n = @ - 1]
    OBVIOUS
  <2>2. Top.n - 1 \in Nat
    BY <1>3, <1>9 DEF FrameType
  <2>3. f \in FrameType /\ f.pc = "stream" /\ f.isr = Top.isr /\ Become(f)
    BY <1>3, <1>9, <2>1, <2>2 DEF FrameType
  <2>4. /\ ep0'.irq = ep0.irq /\ ~ep0'.setup /\ ~ep0'.out /\ ep0'.stall = ep0.stall
        /\ ep0'.in = request
    BY <1>3, <1>9 DEF Answer, Ep0Type
  <2>5. Sending(ep0', host)
    BY <1>3, <1>9, <2>4 DEF Sending
  <2>6. Serves(f, request', ep0', host)
    BY <1>1, <1>3, <1>9, <2>3, <2>5 DEF Serves
  <2> QED
    BY <1>1, <1>2, <1>3, <1>4, <2>3, <2>4, <2>6, FollowsOn
<1>10. CASE Stream
  <2>1. CASE ~Cut /\ ~ep0.out /\ Top.n > 0
    BY <1>9, <1>10, <2>1 DEF Stream, At
  <2>2. CASE Cut /\ Top.n > 0
    BY <1>7, <1>10, <2>2, Zenon DEF Stream, At
  <2>3. CASE ~(~Cut /\ ~ep0.out /\ Top.n > 0) /\ ~(Cut /\ Top.n > 0)
    BY <1>6, <1>10, <2>3, Zenon DEF Stream, At
  <2> QED
    BY <2>1, <2>2, <2>3
<1>11. CASE StreamEnds
  BY <1>7, <1>8, <1>11 DEF StreamEnds, Proceed, At
<1> QED
  BY <1>10, <1>11

LEMMA AddressFollows == ASSUME OrderAssumed, EnableAddress \/ AddressState PROVE InOrder
<1>1. PICK to \in {"addressState", "check?"} :
        /\ frames # <<>> /\ Top.pc \in {"addressWait", "addressState"} /\ GoTo(to) /\ ep0' = ep0
        /\ UNCHANGED <<request, bus, host, left, config, baud>>
        /\ state' = state \/ state' = "Addressed"
  BY DEF EnableAddress, AddressState, Proceed, At
<1>2. Top.pc \notin Idles \cup {"restore"} /\ ~Forgets(Top) /\ (HasConfig' => HasConfig)
  BY <1>1 DEF Idles, Forgets, HasConfig
<1>3. ~ep0.setup /\ Answered(ep0, host)
  BY <1>1, <1>2, Busy DEF Serves
<1>4. \A f : f.pc = to => Serves(f, request, ep0', host)
  <2>1. to = "addressState" \/ to = "check?"
    OBVIOUS
  <2> QED
    BY <1>1, <1>3, <2>1 DEF Serves, Done
<1>5. to \in Places \ {"restore"}
  BY DEF Places
<1>6. ~Deconfigures(ep0, host)
  BY <1>3 DEF Deconfigures
<1> QED
  BY <1>1, <1>2, <1>4, <1>5, <1>6, GoesBusy

LEMMA ConfigureFollows == ASSUME OrderAssumed, ConfigState \/ ConfigureEndpoints PROVE InOrder
<1>1. /\ frames # <<>> /\ Top.pc \in {"configState", "configure"}
      /\ UNCHANGED <<request, ep0, bus, host, left, config>>
      /\ state' = state \/ state' \in {"Configured", "Powered"}
      /\ Top.pc = "configState" => ~baud'
      /\ Top.pc = "configure" => baud' = baud /\ state' = state
  BY DEF ConfigState, ConfigureEndpoints, At
<1>2. Top.pc \notin Idles \cup {"restore"}
  BY <1>1 DEF Idles
<1>3. Answered(ep0, host) /\ Top.isr /\ Top \in FrameType /\ FrameOK(Top)
  BY <1>1, <1>2, Busy, TopInOrder DEF Serves
<1>4. \E f \in FrameType : Become(f) /\ f.isr = Top.isr /\ f.pc \in {"configure", "check?"}
  <2>1. CASE ConfigState
    <3>1. PICK f : f = [Top EXCEPT !.pc = "configure", !.n = 1]
      OBVIOUS
    <3>2. f \in FrameType /\ f.pc = "configure" /\ f.isr = Top.isr
      BY <1>3, <3>1 DEF FrameType, Places
    <3> QED
      BY <2>1, <3>1, <3>2 DEF ConfigState
  <2>2. CASE ConfigureEndpoints /\ Top.n = Len(Table)
    BY <1>1, <2>2, ToPlace DEF ConfigureEndpoints, Places, OrderAssumed
  <2>3. CASE ConfigureEndpoints /\ Top.n # Len(Table)
    <3>1. PICK f : f = [Top EXCEPT !.n = @ + 1]
      OBVIOUS
    <3>2. Top.pc = "configure" /\ Become(f)
      BY <2>3, <3>1 DEF ConfigureEndpoints, At
    <3>3. f \in FrameType /\ f.pc = "configure" /\ f.isr = Top.isr
      <4>1. Top \in FrameType /\ Top.n + 1 \in Nat
        BY <1>3 DEF FrameType
      <4> QED
        BY <3>1, <3>2, <4>1 DEF FrameType
    <3> QED
      BY <3>2, <3>3
  <2> QED
    BY <2>1, <2>2, <2>3
<1>5. PICK f \in FrameType : Become(f) /\ f.isr = Top.isr /\ f.pc \in {"configure", "check?"}
  BY <1>4
<1>6. Serves(f, request', ep0', host)
  BY <1>1, <1>3, <1>5 DEF Serves, Done
<1>7. ~baud' \/ (/\ baud' /\ HasConfig' => baud /\ HasConfig /\ ~Forgets(Top)
                 /\ Deconfigures(ep0, host) => Deconfigures(ep0', host))
  BY <1>1 DEF Forgets, HasConfig
<1>8. state' = state \/ state' # "Suspended"
  BY <1>1
<1> QED
  BY <1>1, <1>2, <1>3, <1>5, <1>6, <1>7, <1>8, FollowsOn

LEMMA HandlerFollows ==
  ASSUME OrderAssumed, Handler PROVE InOrder \/ ComLeave \/ ComReturn
BY ReadHeaderFollows, ReadFlagsFollow, ClassRequestFollows, LineEncodingFollows,
   ClearStatusStageFollows, StandardRequestFollows, GetStatusFollows, StreamFollows,
   AddressFollows, ConfigureFollows, StallRestFollows DEF Handler

(***************************************************************************)
(* Every step keeps the order                                              *)
(***************************************************************************)

LEMMA FollowedOrder == ASSUME OrderAssumed, InOrder PROVE OrderOK'
<1>1. PICK f : Follows(f)
  BY DEF InOrder
<1>2. frames \in Seq(FrameType)
  BY Types DEF OrderAssumed, IInv
<1>3. /\ frames' # <<>> /\ Len(frames') = Len(frames) /\ Top' = f /\ frames'[Len(frames)] = f
      /\ \A i \in 1 .. Len(frames) - 1 : frames'[i] = frames[i]
      /\ Len(frames) \in Nat
  BY <1>1, <1>2, BecomeIs, TopIs DEF Follows
<1>4. (Active' <=> f.isr) /\ (Active <=> f.isr)
  BY <1>1, <1>3 DEF Active, Follows
<1>5. host' = host /\ bus' = bus /\ ep0'.irq = ep0.irq /\ (ep0'.setup => ep0.setup)
  BY <1>1 DEF Follows
<1>6. TaskInert'
  <2>1. /\ left'.eager = 0 /\ left.late <= 1 /\ left'.late \in Nat /\ left'.late <= left.late
        /\ left.late \in Nat
    BY <1>1, TopInOrder DEF Follows, OrderAssumed, OrderOK, TaskInert
  <2>2. ~ep0'.irq => Active' \/ ~ep0'.setup
    BY <1>4, <1>5 DEF OrderAssumed, OrderOK, TaskInert
  <2>3. ASSUME NEW i \in 1 .. Len(frames'), ~frames'[i].isr
        PROVE  left'.late = 0 /\ Inert(frames'[i])
    <3>1. CASE i = Len(frames)
      <4>1. ~f.isr
        BY <1>3, <2>3, <3>1
      <4>2. ~Top.isr /\ frames # <<>> /\ Top.pc # "restore" /\ Inert(f)
        BY <1>1, <4>1 DEF Follows
      <4>3. left.late = 0
        BY <4>2, TopInOrder
      <4> QED
        BY <1>3, <2>1, <3>1, <4>2, <4>3
    <3>2. CASE i # Len(frames)
      <4>1. i \in 1 .. Len(frames) - 1 /\ i \in 1 .. Len(frames)
        BY <1>3, <3>2
      <4>2. left.late = 0 /\ Inert(frames[i])
        BY <1>3, <2>3, <4>1 DEF OrderAssumed, OrderOK, TaskInert
      <4> QED
        BY <1>3, <2>1, <4>1, <4>2
    <3> QED
      BY <3>1, <3>2
  <2> QED
    BY <2>1, <2>2, <2>3 DEF TaskInert
<1>7. AsleepIsQuiet'
  BY <1>1 DEF Follows, AsleepIsQuiet
<1>8. InStep'
  <2>1. CASE f.isr
    BY <1>1, <1>3, <1>4, <1>5, <2>1 DEF Follows, InStep
  <2>2. CASE ~f.isr
    BY <1>1, <1>4, <1>5, <2>2 DEF Follows, InStep, OrderAssumed, OrderOK
  <2> QED
    BY <2>1, <2>2
<1>9. LineForgotten'
  <2>1. baud' /\ HasConfig' =>
          host.config = 1 \/ Deconfigures(ep0', host) \/ (f.isr /\ Forgets(f))
    BY <1>1 DEF Follows
  <2>2. Deconfigures(ep0', host') <=> Deconfigures(ep0', host)
    BY <1>5
  <2>3. f.isr /\ Forgets(f) => Active' /\ Forgets(Top')
    BY <1>3, <1>4
  <2>4. Forgets(Top)' <=> Forgets(Top')
    BY DEF Forgets
  <2> QED
    BY <1>5, <2>1, <2>2, <2>3, <2>4, Zenon DEF LineForgotten
<1> QED
  BY <1>6, <1>7, <1>8, <1>9 DEF OrderOK

LEMMA LeftOrder == ASSUME OrderAssumed, ComLeave \/ ComReturn PROVE OrderOK'
<1>1. /\ frames # <<>> /\ Top.pc \in {"leave", "restore"} /\ ~Forgets(Top)
      /\ UNCHANGED <<host, bus, left, baud, state, config>>
      /\ ep0' = ep0 \/ ep0' = [ep0 EXCEPT !.irq = TRUE]
  BY DEF ComLeave, ComReturn, At, devVars, Forgets
<1>2. frames \in Seq(FrameType) /\ ep0 \in Ep0Type
  BY Types DEF OrderAssumed, IInv
<1>3. /\ ep0'.setup = ep0.setup /\ ep0'.out = ep0.out /\ ep0'.in = ep0.in
      /\ ep0'.stall = ep0.stall /\ (ep0.irq => ep0'.irq)
  BY <1>1, <1>2 DEF Ep0Type
<1>4. Pending(ep0, host) \/ Answered(ep0, host)
  BY <1>1, TopInOrder DEF Serves, OrderAssumed, OrderOK, InStep, Active
<1>5. Pending(ep0', host) \/ Answered(ep0', host)
  BY <1>3, <1>4 DEF Pending, Answered
<1>6. AsleepIsQuiet'
  BY <1>1 DEF OrderAssumed, OrderOK, AsleepIsQuiet
<1>7. LineForgotten'
  <2>1. HasConfig' = HasConfig /\ (Deconfigures(ep0, host) => Deconfigures(ep0', host'))
    BY <1>1, <1>3 DEF HasConfig, Deconfigures
  <2> QED
    BY <1>1, <2>1, Zenon DEF OrderAssumed, OrderOK, LineForgotten
<1>8. ASSUME ~Active', ~ep0'.irq => ~ep0'.setup,
             \A i \in 1 .. Len(frames') : ~frames'[i].isr => left.late = 0 /\ Inert(frames'[i])
      PROVE  OrderOK'
  <2>1. InStep'
    BY <1>1, <1>5, <1>8 DEF InStep
  <2>2. TaskInert'
    BY <1>1, <1>8 DEF OrderAssumed, OrderOK, TaskInert
  <2> QED
    BY <1>6, <1>7, <2>1, <2>2 DEF OrderOK
<1>9. CASE ComLeave /\ Top.isr
  <2>1. GoTo("restore") /\ ep0' = [ep0 EXCEPT !.irq = TRUE]
    BY <1>9 DEF ComLeave
  <2>2. PICK f \in FrameType : Become(f) /\ f.pc = "restore" /\ f.isr = Top.isr
    BY <1>1, <2>1, ToPlace DEF Places, OrderAssumed
  <2>3. /\ frames' # <<>> /\ Len(frames') = Len(frames) /\ Top' = f /\ frames'[Len(frames)] = f
        /\ \A i \in 1 .. Len(frames) - 1 : frames'[i] = frames[i]
        /\ Len(frames) \in Nat
    BY <1>1, <1>2, <2>2, BecomeIs, TopIs
  <2>4. ~Active' /\ ep0'.irq
    BY <1>2, <2>1, <2>2, <2>3 DEF Active, Ep0Type
  <2>5. ASSUME NEW i \in 1 .. Len(frames'), ~frames'[i].isr
        PROVE  left.late = 0 /\ Inert(frames'[i])
    <3>1. i # Len(frames)
      BY <1>9, <2>2, <2>3, <2>5
    <3>2. i \in 1 .. Len(frames) - 1 /\ i \in 1 .. Len(frames)
      BY <2>3, <3>1
    <3> QED
      BY <2>3, <2>5, <3>2 DEF OrderAssumed, OrderOK, TaskInert
  <2> QED
    BY <1>8, <2>4, <2>5
<1>10. CASE (ComLeave /\ ~Top.isr) \/ ComReturn
  <2>1. ~Active /\ frames' = SubSeq(frames, 1, Len(frames) - 1) /\ ep0' = ep0
    BY <1>10 DEF ComLeave, ComReturn, At, Active
  <2>2. ~Active'
    BY <1>1, <2>1, PoppedInactive DEF OrderAssumed
  <2>3. /\ Len(frames) \in Nat /\ Len(frames') = Len(frames) - 1
        /\ \A i \in 1 .. Len(frames) - 1 : frames'[i] = frames[i]
    BY <1>1, <1>2, <2>1, PopIs, TopIs
  <2>4. ASSUME NEW i \in 1 .. Len(frames'), ~frames'[i].isr
        PROVE  left.late = 0 /\ Inert(frames'[i])
    <3>1. i \in 1 .. Len(frames) - 1 /\ i \in 1 .. Len(frames)
      BY <2>3
    <3> QED
      BY <2>3, <2>4, <3>1 DEF OrderAssumed, OrderOK, TaskInert
  <2>5. ~ep0'.irq => ~ep0'.setup
    BY <2>1 DEF OrderAssumed, OrderOK, TaskInert
  <2> QED
    BY <1>8, <2>2, <2>4, <2>5
<1> QED
  BY <1>9, <1>10

LEMMA EnteredOrder == ASSUME OrderAssumed, ComEnter PROVE OrderOK'
<1>1. /\ ep0.setup /\ ep0.irq /\ ep0' = [ep0 EXCEPT !.irq = FALSE]
      /\ UNCHANGED <<host, bus, left, baud, state, config>>
  BY DEF ComEnter, ComPending, MaskSetup, devVars
<1>2. ep0 \in Ep0Type /\ Len(frames) \in Nat
  BY Types DEF OrderAssumed, IInv
<1>3. /\ ep0'.setup = ep0.setup /\ ep0'.out = ep0.out /\ ep0'.in = ep0.in
      /\ ep0'.stall = ep0.stall
  BY <1>1, <1>2 DEF Ep0Type
<1>4. /\ frames' # <<>> /\ Len(frames') = Len(frames) + 1
      /\ Top' = Frame(TRUE) /\ \A i \in 1 .. Len(frames) : frames'[i] = frames[i]
  BY EnteredMasked DEF OrderAssumed
<1>5. Frame(TRUE).isr /\ Frame(TRUE).pc = "header"
  BY DEF Frame
<1>6. ~Active /\ Active' /\ frames'[Len(frames) + 1] = Frame(TRUE)
  BY <1>1, <1>4, <1>5 DEF Active, Top, OrderAssumed, MaskedWhileActive
<1>7. Pending(ep0', host)
  BY <1>1, <1>3, <1>6 DEF OrderAssumed, OrderOK, InStep, Pending, Answered
<1>8. InStep'
  BY <1>1, <1>4, <1>5, <1>6, <1>7 DEF InStep, Serves
<1>9. TaskInert'
  <2>1. ASSUME NEW i \in 1 .. Len(frames'), ~frames'[i].isr
        PROVE  left.late = 0 /\ Inert(frames'[i])
    <3>1. i # Len(frames) + 1
      BY <1>5, <1>6, <2>1
    <3>2. i \in 1 .. Len(frames)
      BY <1>2, <1>4, <3>1
    <3> QED
      BY <1>4, <2>1, <3>2 DEF OrderAssumed, OrderOK, TaskInert
  <2> QED
    BY <1>1, <1>6, <2>1 DEF TaskInert, OrderAssumed, OrderOK
<1>10. AsleepIsQuiet'
  BY <1>1 DEF OrderAssumed, OrderOK, AsleepIsQuiet
<1>11. LineForgotten'
  <2>1. HasConfig' = HasConfig /\ (Deconfigures(ep0, host) => Deconfigures(ep0', host'))
    BY <1>1, <1>3 DEF HasConfig, Deconfigures
  <2> QED
    BY <1>1, <1>6, <2>1, Zenon DEF OrderAssumed, OrderOK, LineForgotten
<1> QED
  BY <1>8, <1>9, <1>10, <1>11 DEF OrderOK

(* The main loop touches the endpoint only when no request is under way,   *)
(* and sees a SETUP itself only when the interrupt was late.               *)
LEMMA MainOrder == ASSUME OrderAssumed, Main PROVE OrderOK'
<1>1. /\ frames = <<>> /\ frames' \in {<<>>, <<Frame(FALSE)>>}
      /\ UNCHANGED <<host, bus, baud, state, config>>
      /\ ep0' \in {ep0, EmptyPacket, [ep0 EXCEPT !.out = FALSE]}
      /\ \/ ~ComPending /\ left' = left /\ frames' = <<>>
         \/ /\ ep0' = ep0 /\ (frames' # <<>> => ep0.setup)
            /\ IF ComPending THEN Spend("late") ELSE left' = left
  BY DEF Main, DataTest, DataSelect, DataAccess, TaskBegin, TaskLook, TaskEnd, MainAt,
         MainStep, devVars, IsSETUPReceived
<1>2. /\ ep0 \in Ep0Type /\ left \in Budgets
      /\ left.eager = 0 /\ left.late <= 1 /\ left.late \in Nat
      /\ ~Active /\ (Pending(ep0, host) \/ Answered(ep0, host))
      /\ ~ep0.irq => ~ep0.setup
  <2>1. ~Active
    BY <1>1 DEF Active
  <2>2. ep0 \in Ep0Type /\ left \in Budgets
    BY Types DEF OrderAssumed, IInv
  <2> QED
    BY <2>1, <2>2 DEF OrderAssumed, OrderOK, TaskInert, InStep, Budgets
<1>3. /\ ep0'.setup = ep0.setup /\ ep0'.irq = ep0.irq
      /\ ep0' = EmptyPacket => /\ ep0'.out = ep0.out /\ ep0'.in = Zlp /\ ep0'.stall = ep0.stall
      /\ ep0' = [ep0 EXCEPT !.out = FALSE] =>
           ep0'.out = FALSE /\ ep0'.in = ep0.in /\ ep0'.stall = ep0.stall
  BY <1>1, <1>2 DEF EmptyPacket, Ep0Type
<1>4. Pending(ep0', host) \/ Answered(ep0', host)
  <2>1. CASE ep0' = ep0
    BY <1>2, <2>1
  <2>2. CASE ep0' # ep0
    <3>1. ~ep0.setup
      BY <1>1, <1>2, <2>2 DEF ComPending
    <3>2. Answered(ep0, host)
      BY <1>2, <3>1 DEF Pending
    <3> QED
      BY <1>1, <1>3, <2>2, <3>2 DEF Answered
  <2> QED
    BY <2>1, <2>2
<1>5. /\ left'.eager = 0 /\ left'.late <= 1
      /\ frames' # <<>> => left'.late = 0
  <2>1. CASE left' = left
    <3>1. frames' = <<>>
      BY <1>1, <1>2, <2>1 DEF ComPending, Spend, Budgets
    <3> QED
      BY <1>2, <2>1, <3>1
  <2>2. CASE Spend("late")
    BY <1>2, <2>2 DEF Spend, Budgets
  <2> QED
    BY <1>1, <2>1, <2>2
<1>6. ~Active' /\ \A i \in 1 .. Len(frames') : Inert(frames'[i]) /\ frames' # <<>>
  <2> DEFINE g == Frame(FALSE)
  <2>1. g.pc = "header" /\ ~g.isr /\ ~g.saw
    BY DEF Frame
  <2> HIDE DEF g
  <2>2. Len(<<>>) = 0 /\ Len(<<g>>) = 1 /\ <<g>>[1] = g /\ <<g>> # <<>>
    OBVIOUS
  <2>3. CASE frames' = <<>>
    BY <2>2, <2>3 DEF Active
  <2>4. CASE frames' = <<g>>
    <3>1. ~Active'
      BY <2>1, <2>2, <2>4, Zenon DEF Active, Top
    <3>2. \A i \in 1 .. 1 : i = 1
      OBVIOUS
    <3>3. Inert(g)
      BY <2>1 DEF Inert, Idles
    <3> QED
      BY <2>2, <2>4, <3>1, <3>2, <3>3
  <2> QED
    BY <1>1, <2>3, <2>4 DEF g
<1>7. InStep'
  BY <1>1, <1>4, <1>6 DEF InStep
<1>8. TaskInert'
  BY <1>2, <1>3, <1>5, <1>6 DEF TaskInert
<1>9. AsleepIsQuiet'
  <2>1. frames' # <<>> => ep0.setup
    BY <1>1
  <2> QED
    BY <1>1, <1>3, <2>1 DEF OrderAssumed, OrderOK, AsleepIsQuiet
<1>10. LineForgotten'
  <2>1. HasConfig' = HasConfig /\ (Deconfigures(ep0, host) => Deconfigures(ep0', host'))
    BY <1>1, <1>3 DEF HasConfig, Deconfigures
  <2> QED
    BY <1>1, <1>2, <2>1, Zenon DEF OrderAssumed, OrderOK, LineForgotten
<1> QED
  BY <1>7, <1>8, <1>9, <1>10 DEF OrderOK

(* A host that has gone away is in step with everything.                   *)
LEMMA OffServes ==
  ASSUME NEW f, NEW rq, NEW e, NEW h, NEW g, Serves(f, rq, e, h),
         g.stage = "off", g.req = h.req, g.config = h.config
  PROVE  Serves(f, rq, e, g)
BY DEF Serves, Unhandled, Done, Pending, Answered, Sending, Bare

LEMMA BusOrder == ASSUME OrderAssumed, Bus PROVE OrderOK'
<1>1. frames' = frames /\ baud' = baud /\ request' = request
  BY DEF Bus, Disconnect, Connect, Suspend, WakeUp, BusReset
<1>2. Top' = Top /\ (Active' <=> Active)
  BY <1>1 DEF Top, Active
<1>3. host \in HostType /\ left \in Budgets
  BY Types DEF OrderAssumed, IInv
<1>4. left'.eager = left.eager /\ left'.late = left.late
  <2>1. left' = left \/ \E what \in {"suspend", "unplug", "unplugMidway", "reset", "resetMidway"} :
                          Spend(what)
    BY DEF Bus, Disconnect, Connect, Suspend, WakeUp, BusReset, Disturb
  <2> QED
    BY <1>3, <2>1 DEF Spend, Budgets
<1>5. CASE Disconnect \/ Connect \/ Suspend \/ WakeUp
  <2>1. /\ ep0' = ep0 /\ config' = config /\ host'.req = host.req /\ host'.config = host.config
        /\ host' = host \/ host'.stage = "off"
    BY <1>3, <1>5 DEF Disconnect, Connect, Suspend, WakeUp, HostType
  <2>2. InStep'
    <3>1. CASE host' = host
      BY <1>1, <1>2, <2>1, <3>1 DEF OrderAssumed, OrderOK, InStep
    <3>2. CASE host'.stage = "off"
      <4>1. ASSUME Active PROVE Serves(Top, request, ep0, host')
        <5>1. Serves(Top, request, ep0, host)
          BY <4>1 DEF OrderAssumed, OrderOK, InStep
        <5> QED
          BY <2>1, <3>2, <5>1, OffServes
      <4>2. ASSUME ~Active PROVE Pending(ep0, host') \/ Answered(ep0, host')
        BY <2>1, <3>2, <4>2 DEF OrderAssumed, OrderOK, InStep, Pending, Answered
      <4> QED
        BY <1>1, <1>2, <2>1, <4>1, <4>2 DEF InStep
    <3> QED
      BY <2>1, <3>1, <3>2
  <2>3. TaskInert'
    BY <1>1, <1>2, <1>4, <2>1 DEF OrderAssumed, OrderOK, TaskInert
  <2>4. AsleepIsQuiet'
    <3>1. CASE Suspend
      BY <1>1, <3>1 DEF Suspend, Quiet, AsleepIsQuiet
    <3>2. CASE ~Suspend
      BY <1>5, <3>2 DEF Disconnect, Connect, WakeUp, WokenState, AsleepIsQuiet
    <3> QED
      BY <3>1, <3>2
  <2>5. LineForgotten'
    <3>1. HasConfig' => HasConfig
      BY <1>5, <2>1 DEF Disconnect, Connect, Suspend, WakeUp, WokenState, HasConfig
    <3>2. Deconfigures(ep0, host) => Deconfigures(ep0', host')
      BY <2>1 DEF Deconfigures
    <3>3. Forgets(Top)' = Forgets(Top)
      BY <1>2 DEF Forgets
    <3> QED
      BY <1>1, <1>2, <2>1, <3>1, <3>2, <3>3, Zenon DEF OrderAssumed, OrderOK, LineForgotten
  <2> QED
    BY <2>2, <2>3, <2>4, <2>5 DEF OrderOK
<1>6. CASE BusReset
  <2>1. Spend(IF Quiet THEN "reset" ELSE "resetMidway")
    BY <1>6 DEF BusReset, Disturb
  <2>2. frames = <<>>
    <3>1. left.resetMidway = 0
      BY DEF OrderAssumed, MaskedWhileActive
    <3>2. ~Spend("resetMidway")
      BY <3>1 DEF Spend
    <3>3. Quiet
      BY <2>1, <3>2, Zenon
    <3> QED
      BY <3>3 DEF Quiet
  <2>3. /\ ep0'.irq /\ ~ep0'.setup /\ ~ep0'.out /\ host'.stage = "idle"
        /\ state' = "Default" /\ config' = 0
    BY <1>6 DEF BusReset, EmptyEp0, NobodyThere
  <2>4. ~Active
    BY <2>2 DEF Active
  <2>5. InStep'
    BY <1>2, <2>3, <2>4 DEF InStep, Answered
  <2>6. TaskInert'
    BY <1>1, <1>2, <1>4, <2>3 DEF OrderAssumed, OrderOK, TaskInert
  <2>7. AsleepIsQuiet' /\ LineForgotten'
    BY <2>3 DEF AsleepIsQuiet, LineForgotten, HasConfig
  <2> QED
    BY <2>5, <2>6, <2>7 DEF OrderOK
<1> QED
  BY <1>5, <1>6 DEF Bus

(* The host begins a request only when none is handled.                    *)
LEMMA SetupOrder == ASSUME OrderAssumed, NEW r \in Requests, Setup(r) PROVE OrderOK'
<1>1. /\ frames' = frames /\ UNCHANGED <<request, baud, bus, state, config>>
      /\ host.stage = "idle" /\ bus = "on" /\ Legal(r)
      /\ IF Handled THEN Spend("request") ELSE left.eager > 0
  BY DEF Setup, Reached, devVars
<1>2. /\ ep0 \in Ep0Type /\ host \in HostType /\ left \in Budgets /\ frames \in Seq(FrameType)
      /\ left.eager = 0
  BY Types DEF OrderAssumed, IInv, OrderOK, TaskInert
<1>3. Handled /\ Spend("request")
  BY <1>1, <1>2
<1>4. ~Active
  <2> SUFFICES ASSUME Active PROVE FALSE
    OBVIOUS
  <2>1. Len(frames) \in 1 .. Len(frames) /\ Top = frames[Len(frames)]
    BY <1>2, TopIs DEF Active
  <2> QED
    BY <1>3, <2>1 DEF Active, Handled
<1>5. Top' = Top /\ ~Active'
  BY <1>1, <1>4 DEF Top, Active
<1>6. ~ep0.setup /\ ~ep0.out
  <2>1. FirstStage(host.req) # "idle"
    BY DEF FirstStage
  <2> QED
    BY <1>1, <1>4, <2>1 DEF OrderAssumed, OrderOK, InStep, Pending, Answered
<1>7. /\ ep0'.setup /\ ep0'.in = "free" /\ ~ep0'.stall /\ ~ep0'.out /\ ep0'.irq = ep0.irq
  BY <1>2, <1>6 DEF Setup, Ep0Type
<1>8. /\ host'.req = r /\ host'.stage = FirstStage(r)
      /\ r = "Configure" => host'.config = 1
      /\ r \notin {"Configure", "Deconfigure"} => host'.config = host.config
  BY <1>2 DEF Setup, HostType
<1>9. r # Junk
  BY DeviceAssumption DEF Junk, Standard, Class, Unknown
<1>10. Pending(ep0', host')
  <2>1. r = "SetLineEncoding" => host.config = 1
    BY <1>1 DEF Legal, Class
  <2> QED
    BY <1>7, <1>8, <1>9, <2>1 DEF Pending, NeedsConfig
<1>11. InStep'
  BY <1>5, <1>10 DEF InStep
<1>12. TaskInert'
  <2>1. left'.eager = left.eager /\ left'.late = left.late
    BY <1>2, <1>3 DEF Spend, Budgets
  <2>2. ep0.irq
    BY <1>1, <1>4 DEF OrderAssumed, MaskedWhileActive
  <2> QED
    BY <1>1, <1>7, <2>1, <2>2 DEF OrderAssumed, OrderOK, TaskInert
<1>13. AsleepIsQuiet'
  BY <1>1 DEF OrderAssumed, OrderOK, AsleepIsQuiet
<1>14. LineForgotten'
  <2>1. CASE r = "Deconfigure"
    BY <1>7, <1>8, <2>1 DEF LineForgotten, Deconfigures
  <2>2. CASE r = "Configure"
    BY <1>8, <2>2 DEF LineForgotten
  <2>3. CASE r \notin {"Configure", "Deconfigure"}
    <3>1. HasConfig' = HasConfig /\ ~Deconfigures(ep0, host)
      BY <1>1, <1>6 DEF HasConfig, Deconfigures
    <3> QED
      BY <1>1, <1>4, <1>8, <2>3, <3>1, Zenon DEF OrderAssumed, OrderOK, LineForgotten
  <2> QED
    BY <2>1, <2>2, <2>3
<1> QED
  BY <1>11, <1>12, <1>13, <1>14 DEF OrderOK

(* The transfer goes on: the parts of the host and the endpoint that step  *)
(* changes.                                                                *)
Proceeds(e, h, d, g) ==
  /\ ~e.setup /\ ~d.setup /\ g.config = h.config
  /\ \/ /\ h.stage = "in" /\ e.in # "free" /\ d.in = "free" /\ g.stage \in {"in", "statusOut"}
        /\ g.req = h.req /\ d.out = e.out /\ d.stall = e.stall
     \/ /\ h.stage = "statusOut" /\ g.stage = "idle"
        /\ ~e.out /\ d.out /\ d.in = e.in /\ d.stall = e.stall
     \/ /\ h.stage = "out" /\ g.stage = "status" /\ g.req = h.req
        /\ ~e.out /\ d.out /\ d.in = e.in /\ d.stall = e.stall
     \/ /\ h.stage = "status" /\ g.stage = "idle"
        /\ e.in # "free" /\ d.out = e.out
     \/ /\ h.stage \notin {"off", "idle"} /\ e.stall /\ g.stage = "idle" /\ d.out = e.out

LEMMA ProceedsServed ==
  ASSUME NEW e, NEW h, NEW d, NEW g, Proceeds(e, h, d, g),
         NEW f, NEW rq, Serves(f, rq, e, h), f.pc \in Places, e.out \in BOOLEAN
  PROVE  Serves(f, rq, d, g)
<1>1. ~Pending(e, h) /\ ~Unhandled(f, rq, e, h)
  BY DEF Proceeds, Pending, Unhandled
<1>2. Answered(e, h) => Answered(d, g)
  BY DEF Proceeds, Answered
<1>3. Sending(e, h) => Sending(d, g)
  BY DEF Proceeds, Sending
<1>4. ~Bare("status", e, h)
  BY DEF Proceeds, Bare
<1>5. ~Bare("in", e, h)
  BY DEF Proceeds, Bare
<1>6. Done(f, e, h) => Done(f, d, g)
  BY <1>2 DEF Done
<1>7. f.pc = "lineData" =>
        /\ ~d.setup /\ g.config = 1
        /\ g.stage = "off" \/ (g.stage = (IF d.out THEN "status" ELSE "out") /\ d.in = "free"
                               /\ ~d.stall /\ rq = "SetLineEncoding")
  BY DEF Proceeds, Serves
<1>8. f.pc = "stream" /\ g.stage = "in" => rq = g.req
  BY DEF Proceeds, Serves
<1>9. f.pc = "clearOut" => ~d.setup /\ g.stage \in {"off", "idle"}
  BY DEF Proceeds, Serves
<1> QED
  BY <1>1, <1>2, <1>3, <1>4, <1>5, <1>6, <1>7, <1>8, <1>9 DEF Serves

LEMMA HostProceeds ==
  ASSUME OrderAssumed, Host, ~(\E r \in Requests : Setup(r))
  PROVE  /\ Proceeds(ep0, host, ep0', host') /\ ep0'.irq = ep0.irq
         /\ UNCHANGED <<frames, request, baud, bus, left, state, config>>
<1>1. ep0 \in Ep0Type /\ host \in HostType
  BY Types DEF OrderAssumed, IInv
<1>2. PICK h, e : HostStep(h, e)
  BY DEF Host, TakeData, SendStatus, SendData, TakeStatus, TakeStall
<1>3. /\ ~ep0.setup /\ UNCHANGED <<frames, request, baud, bus, left, state, config>>
  BY <1>2 DEF HostStep, devVars
<1>4. CASE TakeData
  <2>1. PICK s \in {"in", "statusOut"} :
          HostStep([host EXCEPT !.stage = s, !.n = @ + 1], [ep0 EXCEPT !.in = "free"])
    BY <1>4 DEF TakeData
  <2>2. /\ host'.stage = s /\ host'.req = host.req /\ host'.config = host.config
        /\ ep0'.in = "free" /\ ep0'.setup = ep0.setup /\ ep0'.out = ep0.out
        /\ ep0'.stall = ep0.stall /\ ep0'.irq = ep0.irq
    BY <1>1, <2>1 DEF HostStep, HostType, Ep0Type
  <2> QED
    BY <1>3, <1>4, <2>2 DEF TakeData, Proceeds
<1>5. CASE SendStatus \/ SendData
  <2>1. /\ host.stage = "statusOut" => host'.stage = "idle"
        /\ host.stage = "out" => host'.stage = "status" /\ host'.req = host.req
        /\ host'.config = host.config /\ host.stage \in {"statusOut", "out"} /\ ~ep0.out
        /\ ep0'.out /\ ep0'.setup = ep0.setup /\ ep0'.in = ep0.in
        /\ ep0'.stall = ep0.stall /\ ep0'.irq = ep0.irq
    BY <1>1, <1>5 DEF SendStatus, SendData, HostStep, Over, HostType, Ep0Type
  <2> QED
    BY <1>3, <2>1 DEF Proceeds
<1>6. CASE TakeStatus
  <2>1. /\ host.stage = "status" /\ host'.stage = "idle" /\ host'.config = host.config
        /\ ep0.in # "free" /\ ep0'.out = ep0.out /\ ep0'.setup = ep0.setup /\ ep0'.irq = ep0.irq
    BY <1>1, <1>6 DEF TakeStatus, HostStep, Over, HostType, Ep0Type
  <2> QED
    BY <1>3, <2>1 DEF Proceeds
<1>7. CASE TakeStall
  <2>1. /\ host.stage \notin {"off", "idle"} /\ ep0.stall
        /\ host'.stage = "idle" /\ host'.config = host.config /\ ep0' = ep0
    BY <1>1, <1>7 DEF TakeStall, HostStep, Over, HostType
  <2> QED
    BY <1>3, <2>1 DEF Proceeds
<1> QED
  BY <1>3, <1>4, <1>5, <1>6, <1>7 DEF Host

LEMMA HostOrder == ASSUME OrderAssumed, Host PROVE OrderOK'
<1>1. CASE \E r \in Requests : Setup(r)
  BY <1>1, SetupOrder
<1>2. CASE ~(\E r \in Requests : Setup(r))
  <2>1. /\ Proceeds(ep0, host, ep0', host') /\ ep0'.irq = ep0.irq
        /\ UNCHANGED <<frames, request, baud, bus, left, state, config>>
    BY <1>2, HostProceeds
  <2>2. Top' = Top /\ (Active' <=> Active)
    BY <2>1 DEF Top, Active
  <2>3. ~ep0.setup /\ ~ep0'.setup /\ host'.config = host.config
    BY <2>1 DEF Proceeds
  <2>4. InStep'
    <3>1. ASSUME Active PROVE Serves(Top, request, ep0', host')
      <4>1. Serves(Top, request, ep0, host) /\ Top \in FrameType /\ ep0 \in Ep0Type
        BY <3>1, TopInOrder DEF Active
      <4>2. Top.pc \in Places /\ ep0.out \in BOOLEAN
        BY <4>1 DEF FrameType, Ep0Type
      <4> QED
        BY <2>1, <4>1, <4>2, ProceedsServed
    <3>2. ASSUME ~Active PROVE Answered(ep0', host')
      <4>1. Answered(ep0, host)
        BY <2>3, <3>2 DEF OrderAssumed, OrderOK, InStep, Pending
      <4> QED
        BY <2>1, <4>1 DEF Proceeds, Answered
    <3> QED
      BY <2>1, <2>2, <3>1, <3>2 DEF InStep
  <2>5. TaskInert'
    BY <2>1, <2>2, <2>3 DEF OrderAssumed, OrderOK, TaskInert
  <2>6. AsleepIsQuiet'
    BY <2>1, <2>3 DEF OrderAssumed, OrderOK, AsleepIsQuiet
  <2>7. LineForgotten'
    <3>1. HasConfig' = HasConfig /\ ~Deconfigures(ep0, host)
      BY <2>1, <2>3 DEF HasConfig, Deconfigures
    <3>2. Forgets(Top)' = Forgets(Top)
      BY <2>2 DEF Forgets
    <3> QED
      BY <2>1, <2>2, <2>3, <3>1, <3>2, Zenon DEF OrderAssumed, OrderOK, LineForgotten
  <2> QED
    BY <2>4, <2>5, <2>6, <2>7 DEF OrderOK
<1> QED
  BY <1>1, <1>2

LEMMA OrderStep == ASSUME OrderAssumed, [Next]_vars PROVE OrderOK'
<1>1. CASE UNCHANGED vars
  <2>1. UNCHANGED <<frames, request, ep0, host, left, state, bus, baud, config>> /\ Top' = Top
    BY <1>1 DEF vars, Top
  <2>2. Active' <=> Active
    BY <2>1 DEF Active
  <2>3. TaskInert' /\ AsleepIsQuiet' /\ InStep'
    BY <2>1, <2>2 DEF OrderAssumed, OrderOK, TaskInert, AsleepIsQuiet, InStep
  <2>4. LineForgotten'
    BY <1>1 DEF vars, OrderAssumed, OrderOK, LineForgotten, HasConfig, Active, Top
  <2> QED
    BY <2>3, <2>4 DEF OrderOK
<1>2. CASE Next
  BY <1>2, HandlerFollows, FollowedOrder, LeftOrder, EnteredOrder, MainOrder, BusOrder,
     HostOrder DEF Next, Cpu
<1> QED
  BY <1>1, <1>2

(***************************************************************************)
(* The theorems of the histories in order                                  *)
(***************************************************************************)

(* The host waits for the handler before the next request, and the         *)
(* interrupt is at most once late.                                         *)
Unhurried == NoResetMidway /\ Budget.eager = 0 /\ Budget.late <= 1

(* The host and the handler go in step: as long as no bus reset comes in   *)
(* the middle of a request, the host waits for the handler before its next *)
(* request, and the interrupt is not late twice, each activation of the    *)
(* interrupt serves the request the host is at, those of the main loop     *)
(* find none.                                                              *)
THEOREM UsbInOrder == Unhurried => (Spec => []OrderOK)
<1> SUFFICES ASSUME Unhurried PROVE Spec => []OrderOK
  OBVIOUS
<1>1. Init => OrderOK
  <2>1. Len(<<>>) = 0
    OBVIOUS
  <2> QED
    BY <2>1, DeviceAssumption DEF Init, Unhurried, OrderOK, TaskInert, AsleepIsQuiet, InStep,
       LineForgotten, HasConfig, Active, Answered, EmptyEp0, NobodyThere, Budgets
<1>2. IInv /\ MaskedWhileActive /\ AddressOK /\ OrderOK /\ [Next]_vars => OrderOK'
  BY OrderStep DEF OrderAssumed
<1>3. NoResetMidway
  BY DEF Unhurried
<1>4. Spec => []MaskedWhileActive
  BY <1>3, UsbMasked
<1>5. Spec => []AddressOK
  BY <1>3, AddressInvariance
<1> QED
  BY <1>1, <1>2, <1>4, <1>5, UsbInvariance, PTL DEF Spec

(* What the order says of the endpoint and the stage the host is at.       *)
Stages ==
  \/ Pending(ep0, host) \/ Answered(ep0, host) \/ Sending(ep0, host)
  \/ Bare("in", ep0, host) \/ Bare("status", ep0, host)
  \/ host.stage \in {"off", "idle"}
Receives == host.stage \in {"off", "out", "status"} /\ ep0.in = "free" /\ ~ep0.stall

LEMMA HostServed == ASSUME IInv, OrderOK PROVE Stages \/ Receives
<1>1. CASE Active
  <2>1. Serves(Top, request, ep0, host) /\ Top.pc \in Places \ {"restore"}
    BY <1>1, TopOK DEF OrderOK, InStep, Active, FrameType
  <2>2. CASE Top.pc = "lineData"
    BY <2>1, <2>2 DEF Serves, Stages, Receives
  <2>3. CASE Top.pc # "lineData"
    BY <2>1, <2>3 DEF Serves, Unhandled, Done, Places, Waits, Stages
  <2> QED
    BY <2>2, <2>3
<1>2. CASE ~Active
  BY <1>2 DEF OrderOK, InStep, Stages
<1> QED
  BY <1>1, <1>2

(* ... so what waits in the control endpoint is for the request and the    *)
(* stage the host is at.                                                   *)
THEOREM AnswersInOrder == Unhurried => (Spec => []AnswersHost)
<1> SUFFICES ASSUME Unhurried PROVE Spec => []AnswersHost
  OBVIOUS
<1>1. ASSUME IInv, OrderOK PROVE AnswersHost
  <2>1. CASE Stages
    BY <2>1 DEF Stages, Pending, Answered, Sending, Bare, AnswersHost
  <2>2. CASE Receives
    BY <2>2 DEF Receives, AnswersHost
  <2> QED
    BY <1>1, <2>1, <2>2, HostServed
<1> QED
  BY <1>1, UsbInvariance, UsbInOrder, PTL

(* ... a request the device knows is never stalled, although every handler *)
(* that finds a SETUP left over stalls it.                                 *)
THEOREM NoKnownStalled == Unhurried => (Spec => []KnownAccepted)
<1> SUFFICES ASSUME Unhurried PROVE Spec => []KnownAccepted
  OBVIOUS
<1>1. ASSUME IInv, OrderOK PROVE KnownAccepted
  <2>1. CASE Stages
    BY <2>1 DEF Stages, Pending, Answered, Sending, Bare, KnownAccepted, AtRequest
  <2>2. CASE Receives
    BY <2>2 DEF Receives, KnownAccepted, AtRequest
  <2> QED
    BY <1>1, <2>1, <2>2, HostServed
<1> QED
  BY <1>1, UsbInvariance, UsbInOrder, PTL

(* ... and the main loop starts no access to a data endpoint before the    *)
(* host has configured the device since the last bus reset: the state that *)
(* WokenState guesses and the line encoding that only ConfigState forgets  *)
(* never open the way together.                                            *)
THEOREM AccessAfterConfiguration == Unhurried => (Spec => OnlyAfterConfiguration)
<1> SUFFICES ASSUME Unhurried PROVE Spec => OnlyAfterConfiguration
  OBVIOUS
<1>1. ASSUME IInv, OrderOK, [Next]_vars, main'.pc = "select", main.pc # "select"
      PROVE  host.config = 1
  <2>1. main' # main
    BY <1>1
  <2>2. Main
    <3>1. CASE UNCHANGED vars
      BY <2>1, <3>1 DEF vars
    <3>2. CASE ComEnter \/ Bus
      BY <2>1, <3>2 DEF ComEnter, Bus, Disconnect, Connect, Suspend, WakeUp, BusReset
    <3>3. CASE Host
      BY <2>1, <3>3 DEF Host, Setup, TakeData, SendStatus, SendData, TakeStatus, TakeStall,
         HostStep
    <3>4. CASE Handler
      <4>1. WellMoved \/ ComLeave \/ ComReturn
        BY <1>1, <3>4, HandlerMoves
      <4> QED
        BY <2>1, <4>1 DEF WellMoved, Moves, ComLeave, ComReturn
    <3> QED
      BY <1>1, <3>1, <3>2, <3>3, <3>4 DEF Next, Cpu
  <2>3. main \in [pc : {"loop", "select", "access", "task", "taskEnd"},
                  ep : DataEndpoints \cup {0}, prev : 0 .. 4]
    BY <1>1, Types DEF IInv
  <2>4. DataTest
    BY <1>1, <2>2, <2>3 DEF Main, DataSelect, DataAccess, TaskBegin, TaskLook, TaskEnd, MainStep
  <2>5. frames = <<>> /\ ~ComPending /\ state = "Configured" /\ baud
    BY <2>4 DEF DataTest, MainAt
  <2>6. ~Active
    BY <2>5 DEF Active
  <2>7. ~ep0.setup
    BY <1>1, <2>5, <2>6 DEF OrderOK, TaskInert, ComPending
  <2> QED
    BY <1>1, <2>5, <2>6, <2>7, Zenon DEF OrderOK, LineForgotten, HasConfig, Deconfigures
<1>2. IInv /\ OrderOK /\ [Next]_vars
        => [main'.pc = "select" /\ main.pc # "select" => host.config = 1]_vars
  BY <1>1
<1> QED
  BY <1>2, UsbInvariance, UsbInOrder, PTL DEF Spec, OnlyAfterConfiguration
=============================================================================
