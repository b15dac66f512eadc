----------------------------- MODULE Pins_proof -----------------------------
(***************************************************************************)
(* Proofs about Pins: whatever order main, the command line, the           *)
(* application loop and the interrupt call the drivers in, for any number  *)
(* of interrupts, resets and power losses at any port operation, a line of *)
(* port B has one driver, the SPI stays master, and a loading FPGA gets no *)
(* clock but its driver's.                                                 *)
(***************************************************************************)
EXTENDS Pins, TLAPS

(***************************************************************************)
(* The invariant                                                           *)
(***************************************************************************)

(* The next port operation. *)
Place == IF todo = <<>> THEN "end" ELSE Head(todo)

(* What is left to do goes along the edges of a flow graph. *)
Flows(edges) ==
  /\ \A i \in 1 .. Len(todo) - 1 : <<todo[i], todo[i + 1]>> \in edges
  /\ todo # <<>> => <<todo[Len(todo)], "end">> \in edges

BootFlow ==
  {<<"rw0", "zero">>, <<"zero", "drive">>, <<"drive", "ddr0">>, <<"ddr0", "pd0out">>,
   <<"pd0out", "pd0in">>, <<"pd0in", "ddr0">>, <<"ddr0", "hiz">>, <<"hiz", "zero">>,
   <<"zero", "deselect">>, <<"deselect", "end">>}
PrepareFlow ==
  {<<"pd0in", "ddr0">>, <<"ddr0", "hiz">>, <<"hiz", "zero">>, <<"zero", "end">>}
ResetFlow ==
  {<<"prog0", "ddr0">>, <<"ddr0", "pd0out">>, <<"pd0out", "prog1">>, <<"prog1", "hiz">>,
   <<"hiz", "ones">>, <<"ones", "end">>}
AppFlow ==
  {<<"rw0", "zero">>, <<"zero", "drive">>, <<"drive", "ddr0">>, <<"ddr0", "pd0out">>,
   <<"pd0out", "end">>,
   <<"ddr0", "rw0">>, <<"ddr1", "rw0">>, <<"rw0", "drive">>, <<"drive", "byte">>,
   <<"byte", "end">>, <<"byte", "hiz">>, <<"ddr1", "hiz">>, <<"hiz", "rw1">>,
   <<"rw1", "end">>}
SpiFlow ==
  {<<"ss1", "spiDir">>, <<"spiDir", "spiOn">>, <<"spiOn", "select">>, <<"select", "xfer">>,
   <<"xfer", "deselect">>, <<"deselect", "select">>, <<"deselect", "deselect">>,
   <<"deselect", "hiz">>, <<"hiz", "spiOff">>}
FlashFlow == SpiFlow \cup {<<"spiOff", "end">>}
FeedFlow ==
  SpiFlow \cup {<<"spiOff", "drive">>, <<"drive", "byte">>, <<"byte", "clock1">>,
                <<"clock1", "ddr0">>, <<"ddr0", "end">>}
FinishFlow ==
  {<<"hiz", "ones">>, <<"ones", "clock1">>, <<"clock1", "ddr0">>, <<"ddr0", "clock1">>,
   <<"ddr0", "done?">>, <<"done?", "end">>}

(* The first steps of a load are a straight line. *)
FirstBlock == XilinxReset \o WriteBlock
InFirstBlock ==
  /\ Len(todo) \in 1 .. Len(FirstBlock)
  /\ \A i \in 1 .. Len(todo) : todo[i] = FirstBlock[Len(FirstBlock) - Len(todo) + i]

(* main and the application loop: the AVR drives port B only while RW is 0. *)
BootOK ==
  /\ Flows(BootFlow) /\ ~loading /\ cs # "low"
  /\ rw = IF Place = "rw0" THEN "float" ELSE "low"
  /\ Place \in {"rw0", "zero", "drive", "deselect", "end"} => ddrb = "in"

MainOK ==
  /\ Flows(PrepareFlow) \/ Flows(ResetFlow)
  /\ ~loading /\ cs # "low" /\ rw # "float"
  /\ Place \in {"ones", "zero", "end"} => ddrb = "in"
  /\ fpga = "running" /\ rw = "high" => ddrb = "in"

AppOK ==
  /\ Flows(AppFlow)
  /\ ~loading /\ cs # "low" /\ rw # "float"
  /\ Place \in {"zero", "drive"} => rw = "low"
  /\ Place = "rw1" => ddrb = "in"
  /\ rw = "high" => ddrb = "in"

(* A conversation with the flash chip, of an SPI that stays its master.    *)
SpiOK ==
  /\ Place \in {"spiOn", "select", "xfer", "deselect"} => ddrb = "spi"
  /\ Place = "xfer" => cs = "low"
  /\ cs = "low" => Place \in {"xfer", "deselect"}
  /\ Place \in {"spiDir", "spiOn"} => seen = 1 \/ TakesOver
  /\ Place \in {"select", "xfer", "deselect"} => spi = "master" \/ TakesOver

FlashOK ==
  /\ Flows(FlashFlow) /\ SpiOK
  /\ ~loading /\ fpga # "running" /\ rw # "float"
  /\ Place \in {"ss1", "spiOff", "end"} => ddrb = "in"

(* A load: PD0 is an output, no clock was stray, and SS was seen high.     *)
Loads == loading /\ rw # "float" /\ (fpga = "running" \/ ~stray) /\ pd0.out

FirstBlockOK ==
  /\ InFirstBlock /\ loading /\ rw # "float" /\ cs # "low"
  /\ Len(todo) \in 7 .. 9 => ~stray
  /\ Len(todo) < 7 => fpga = "running" \/ ~stray
  /\ Len(todo) < 8 => pd0.out
  /\ Len(todo) = 5 => ddrb = "in"
  /\ Len(todo) < 5 => seen = 1 \/ TakesOver
  /\ Len(todo) \in {2, 3} => ddrb = "out"
  /\ Len(todo) = 2 => port = "byte"

FeedOK ==
  /\ Flows(FeedFlow) /\ SpiOK /\ Loads
  /\ seen = 1 \/ TakesOver
  /\ Place \in {"spiDir", "spiOn", "select", "xfer", "deselect", "hiz"} => ss = 1
  /\ Place \in {"byte", "clock1"} => ddrb = "out"
  /\ Place = "clock1" => port = "byte"

FinishOK ==
  /\ Flows(FinishFlow) /\ Loads /\ cs # "low" /\ todo # <<>>
  /\ Place # "hiz" => ddrb = "in"
  /\ Place \in {"clock1", "ddr0", "done?"} => port = "ones"

CliOK == FlashOK \/ FirstBlockOK \/ FeedOK \/ FinishOK

(* The interrupt may have stopped anything, and lets go of port B. *)
IrqOK ==
  /\ Flows(ResetFlow) /\ rw # "float"
  /\ cs = "low" => ddrb # "out"
  /\ fpga = "running" /\ rw = "high" /\ ~loading => ddrb = "in"
  /\ loading /\ Place \notin {"prog0", "end"} => ~stray

PlaceOK ==
  /\ mode = "boot" => BootOK
  /\ mode = "main" => MainOK
  /\ mode = "app" => AppOK
  /\ mode = "cli" => CliOK
  /\ mode = "irq" => IrqOK

IInv == TypeOK /\ PlaceOK

(***************************************************************************)
(* Sequences of port operations                                            *)
(***************************************************************************)

(* A sequence along the edges of a graph, from an operation to another.    *)
Path(s, a, b, edges) ==
  /\ s \in Seq(Ops) /\ s # <<>> /\ s[1] = a /\ s[Len(s)] = b
  /\ \A i \in 1 .. Len(s) - 1 : <<s[i], s[i + 1]>> \in edges

LEMMA ConcatIs ==
  ASSUME NEW s, NEW t, s \in Seq(Ops), t \in Seq(Ops)
  PROVE  /\ s \o t \in Seq(Ops) /\ Len(s \o t) = Len(s) + Len(t)
         /\ \A i \in 1 .. Len(s) : (s \o t)[i] = s[i]
         /\ \A i \in 1 .. Len(t) : (s \o t)[Len(s) + i] = t[i]
OBVIOUS

LEMMA Joined ==
  ASSUME NEW s, NEW t, NEW a, NEW b, NEW c, NEW d, NEW E,
         Path(s, a, b, E), Path(t, c, d, E), <<b, c>> \in E
  PROVE  Path(s \o t, a, d, E)
<1>1. /\ s \in Seq(Ops) /\ t \in Seq(Ops) /\ Len(s) \in Nat /\ Len(t) \in Nat /\ Len(s) > 0 /\ Len(t) > 0
  BY DEF Path
<1>2. /\ s \o t \in Seq(Ops) /\ Len(s \o t) = Len(s) + Len(t)
      /\ \A i \in 1 .. Len(s) : (s \o t)[i] = s[i]
      /\ \A i \in 1 .. Len(t) : (s \o t)[Len(s) + i] = t[i]
  BY <1>1
<1>3. (s \o t)[1] = a /\ (s \o t)[Len(s \o t)] = d /\ s \o t # <<>>
  BY <1>1, <1>2 DEF Path
<1>4. ASSUME NEW i \in 1 .. Len(s \o t) - 1 PROVE <<(s \o t)[i], (s \o t)[i + 1]>> \in E
  <2>1. CASE i < Len(s)
    <3>1. i \in 1 .. Len(s) - 1 /\ i \in 1 .. Len(s) /\ i + 1 \in 1 .. Len(s)
      BY <1>1, <1>2, <2>1
    <3> QED
      BY <1>2, <3>1 DEF Path
  <2>2. CASE i = Len(s)
    <3>1. (s \o t)[i] = b /\ (s \o t)[i + 1] = c
      BY <1>1, <1>2, <2>2 DEF Path
    <3> QED
      BY <3>1
  <2>3. CASE i > Len(s)
    <3>1. PICK j \in 1 .. Len(t) - 1 : i = Len(s) + j
      <4>1. i - Len(s) \in 1 .. Len(t) - 1 /\ i = Len(s) + (i - Len(s))
        BY <1>1, <1>2, <2>3
      <4> QED
        BY <4>1
    <3>2. j \in 1 .. Len(t) /\ j + 1 \in 1 .. Len(t) /\ i + 1 = Len(s) + (j + 1)
      BY <1>1, <3>1
    <3>3. (s \o t)[i] = t[j] /\ (s \o t)[i + 1] = t[j + 1]
      BY <1>2, <3>1, <3>2
    <3> QED
      BY <3>1, <3>3 DEF Path
  <2>4. i < Len(s) \/ i = Len(s) \/ i > Len(s)
    BY <1>1, <1>2
  <2> QED
    BY <2>1, <2>2, <2>3, <2>4, Zenon
<1> QED
  BY <1>2, <1>3, <1>4 DEF Path

(* The functions of the drivers are such paths.                            *)
LEMMA SpiPaths ==
  ASSUME NEW E, SpiFlow \subseteq E
  PROVE  /\ Path(SetupSpi, "ss1", "spiOn", E) /\ Path(Command, "select", "deselect", E)
         /\ Path(ReleaseSpi, "deselect", "spiOff", E)
BY DEF Path, SetupSpi, Command, ReleaseSpi, SpiFlow, Ops

LEMMA FlashPaths ==
  ASSUME NEW E, SpiFlow \subseteq E, NEW f \in FlashCall
  PROVE  Path(f, "ss1", "spiOff", E)
<1>1. {<<"spiOn", "select">>, <<"deselect", "select">>, <<"deselect", "deselect">>} \subseteq E
  BY DEF SpiFlow
<1>2. Path(SetupSpi \o Command, "ss1", "deselect", E)
  BY <1>1, SpiPaths, Joined
<1>3. Path(SetupSpi \o Command \o Command, "ss1", "deselect", E)
  BY <1>1, <1>2, SpiPaths, Joined
<1>4. Path(SetupSpi \o Command \o ReleaseSpi, "ss1", "spiOff", E)
  BY <1>1, <1>2, SpiPaths, Joined
<1>5. Path(SetupSpi \o Command \o Command \o ReleaseSpi, "ss1", "spiOff", E)
  BY <1>1, <1>3, SpiPaths, Joined
<1> QED
  BY <1>4, <1>5 DEF FlashCall

LEMMA FeedPaths ==
  /\ Path(WriteBlock, "drive", "ddr0", FeedFlow)
  /\ \A f \in FlashCall : Path(f \o WriteBlock, "ss1", "ddr0", FeedFlow)
<1>1. Path(WriteBlock, "drive", "ddr0", FeedFlow)
  BY DEF Path, WriteBlock, FeedFlow, Ops
<1>2. SpiFlow \subseteq FeedFlow /\ <<"spiOff", "drive">> \in FeedFlow
  BY DEF FeedFlow
<1>3. ASSUME NEW f \in FlashCall PROVE Path(f \o WriteBlock, "ss1", "ddr0", FeedFlow)
  BY <1>1, <1>2, FlashPaths, Joined
<1> QED
  BY <1>1, <1>3

LEMMA BootPath ==
  Path(BaseInit \o PreparePorts \o SpiBaseInit, "rw0", "deselect", BootFlow)
<1>1. /\ Path(BaseInit, "rw0", "pd0out", BootFlow) /\ <<"pd0out", "pd0in">> \in BootFlow
      /\ Path(PreparePorts, "pd0in", "zero", BootFlow) /\ <<"zero", "deselect">> \in BootFlow
      /\ Path(SpiBaseInit, "deselect", "deselect", BootFlow)
  BY DEF Path, BaseInit, PreparePorts, SpiBaseInit, BootFlow, Ops
<1>2. Path(BaseInit \o PreparePorts, "rw0", "zero", BootFlow)
  BY <1>1, Joined
<1> QED
  BY <1>1, <1>2, Joined

LEMMA OtherPaths ==
  /\ Path(BaseInit, "rw0", "pd0out", AppFlow)
  /\ Path(PreparePorts, "pd0in", "zero", PrepareFlow)
  /\ Path(XilinxReset, "prog0", "ones", ResetFlow)
BY DEF Path, BaseInit, PreparePorts, XilinxReset, AppFlow, PrepareFlow, ResetFlow, Ops

LEMMA TransferPaths ==
  ASSUME NEW f \in Transfers
  PROVE  \E a \in {"ddr0", "ddr1"}, b \in {"byte", "rw1"} : Path(f, a, b, AppFlow)
<1>1. Path(<<"ddr0", "rw0", "drive", "byte">>, "ddr0", "byte", AppFlow)
  BY DEF Path, AppFlow, Ops
<1>2. Path(<<"ddr1", "rw0", "drive", "byte">>, "ddr1", "byte", AppFlow)
  BY DEF Path, AppFlow, Ops
<1>3. Path(<<"ddr0", "rw0", "drive", "byte", "hiz", "rw1">>, "ddr0", "rw1", AppFlow)
  BY DEF Path, AppFlow, Ops
<1>4. Path(<<"ddr1", "hiz", "rw1">>, "ddr1", "rw1", AppFlow)
  BY DEF Path, AppFlow, Ops
<1> QED
  BY <1>1, <1>2, <1>3, <1>4 DEF Transfers

LEMMA FinishPath == Path(FinishConfig \o <<"done?">>, "hiz", "done?", FinishFlow)
<1>1. /\ Path(FinishConfig, "hiz", "ddr0", FinishFlow) /\ <<"ddr0", "done?">> \in FinishFlow
      /\ Path(<<"done?">>, "done?", "done?", FinishFlow)
  BY DEF Path, FinishConfig, FinishFlow, Ops
<1> QED
  BY <1>1, Joined

LEMMA FirstBlockIs ==
  /\ FirstBlock \in Seq(Ops) /\ Len(FirstBlock) = 10
  /\ FirstBlock[1] = "prog0" /\ FirstBlock[2] = "ddr0" /\ FirstBlock[3] = "pd0out"
  /\ FirstBlock[4] = "prog1" /\ FirstBlock[5] = "hiz" /\ FirstBlock[6] = "ones"
  /\ FirstBlock[7] = "drive" /\ FirstBlock[8] = "byte" /\ FirstBlock[9] = "clock1"
  /\ FirstBlock[10] = "ddr0"
<1> DEFINE s == XilinxReset
           t == WriteBlock
<1>1. s \in Seq(Ops) /\ t \in Seq(Ops)
  BY DEF XilinxReset, WriteBlock, Ops
<1>2. /\ Len(s) = 6 /\ Len(t) = 4
      /\ s[1] = "prog0" /\ s[2] = "ddr0" /\ s[3] = "pd0out"
      /\ s[4] = "prog1" /\ s[5] = "hiz" /\ s[6] = "ones"
      /\ t[1] = "drive" /\ t[2] = "byte" /\ t[3] = "clock1" /\ t[4] = "ddr0"
  BY DEF XilinxReset, WriteBlock
<1>3. FirstBlock = s \o t
  BY DEF FirstBlock
<1> HIDE DEF s, t
<1>4. /\ s \o t \in Seq(Ops) /\ Len(s \o t) = Len(s) + Len(t)
      /\ \A i \in 1 .. Len(s) : (s \o t)[i] = s[i]
      /\ \A i \in 1 .. Len(t) : (s \o t)[Len(s) + i] = t[i]
  BY <1>1, ConcatIs
<1> QED
  <2>1. Len(FirstBlock) = 10 /\ FirstBlock \in Seq(Ops)
    BY <1>2, <1>3, <1>4
  <2>2. \A i \in 1 .. 6 : FirstBlock[i] = s[i]
    BY <1>2, <1>3, <1>4, Zenon
  <2>3. \A i \in 1 .. 4 : FirstBlock[6 + i] = t[i]
    BY <1>2, <1>3, <1>4, Zenon
  <2> QED
    BY <1>2, <2>1, <2>2, <2>3

(* What a call leaves to do, and how it goes on.                           *)
LEMMA CallFlows ==
  ASSUME NEW s, NEW a, NEW b, NEW E, Path(s, a, b, E), <<b, "end">> \in E, todo' = s
  PROVE  Flows(E)' /\ Place' = a /\ todo' \in Seq(Ops) /\ todo' # <<>>
BY DEF Path, Flows, Place

LEMMA NothingFlows ==
  ASSUME NEW E, todo' = <<>>
  PROVE  Flows(E)' /\ Place' = "end" /\ todo' \in Seq(Ops)
BY DEF Flows, Place

LEMMA FlowGoesOn ==
  ASSUME todo \in Seq(Ops), NEW E, Flows(E), NEW op, Does(op)
  PROVE  Flows(E)' /\ Place = op /\ <<op, Place'>> \in E
<1>1. /\ Len(todo) \in Nat /\ Len(todo) > 0 /\ todo[1] = op /\ todo # <<>>
      /\ todo' \in Seq(Ops) /\ Len(todo') = Len(todo) - 1
      /\ \A i \in 1 .. Len(todo) - 1 : todo'[i] = todo[i + 1]
  BY DEF Does
<1>2. Place = op
  BY <1>1 DEF Place, Does
<1>3. ASSUME NEW i \in 1 .. Len(todo') - 1 PROVE <<todo'[i], todo'[i + 1]>> \in E
  <2>1. /\ i \in 1 .. Len(todo) - 1 /\ i + 1 \in 1 .. Len(todo) - 1
        /\ todo'[i] = todo[i + 1] /\ todo'[i + 1] = todo[(i + 1) + 1]
    BY <1>1
  <2> QED
    BY <2>1 DEF Flows
<1>4. CASE todo' = <<>>
  <2>1. Len(todo) = 1
    BY <1>1, <1>4
  <2>2. todo[Len(todo)] = op
    BY <1>1, <2>1
  <2>3. <<op, "end">> \in E
    BY <1>1, <2>2 DEF Flows
  <2> QED
    BY <1>2, <1>4, <2>3 DEF Flows, Place
<1>5. CASE todo' # <<>>
  <2>1. Len(todo') > 0
    BY <1>1, <1>5
  <2>2. 1 \in 1 .. Len(todo) - 1 /\ Len(todo') \in 1 .. Len(todo) - 1
    BY <1>1, <2>1
  <2>3. todo'[Len(todo')] = todo[Len(todo)]
    BY <1>1, <2>2
  <2>4. <<todo[1], todo[1 + 1]>> \in E /\ <<todo[Len(todo)], "end">> \in E
    BY <1>1, <2>2 DEF Flows
  <2>5. Place' = todo[1 + 1]
    BY <1>1, <1>5, <2>2 DEF Place
  <2>6. <<op, Place'>> \in E
    BY <1>1, <2>4, <2>5, Zenon
  <2>7. <<todo'[Len(todo')], "end">> \in E
    BY <2>3, <2>4, Zenon
  <2>8. Flows(E)'
    BY <1>3, <1>5, <2>7 DEF Flows
  <2> QED
    BY <1>2, <2>6, <2>8
<1> QED
  BY <1>4, <1>5

LEMMA FirstBlockOp ==
  ASSUME todo \in Seq(Ops), InFirstBlock, NEW op, Does(op)
  PROVE  /\ Len(todo') = Len(todo) - 1 /\ (todo' = <<>> \/ InFirstBlock')
         /\ \/ op = "prog0" /\ Len(todo) = 10
            \/ op = "ddr0" /\ Len(todo) = 9
            \/ op = "pd0out" /\ Len(todo) = 8
            \/ op = "prog1" /\ Len(todo) = 7
            \/ op = "hiz" /\ Len(todo) = 6
            \/ op = "ones" /\ Len(todo) = 5
            \/ op = "drive" /\ Len(todo) = 4
            \/ op = "byte" /\ Len(todo) = 3
            \/ op = "clock1" /\ Len(todo) = 2
            \/ op = "ddr0" /\ Len(todo) = 1
<1>1. /\ Len(todo) \in 1 .. Len(FirstBlock) /\ Len(FirstBlock) \in Nat /\ todo[1] = op
      /\ todo' \in Seq(Ops) /\ Len(todo') = Len(todo) - 1
      /\ \A i \in 1 .. Len(todo) - 1 : todo'[i] = todo[i + 1]
  BY FirstBlockIs DEF Does, InFirstBlock
<1>2. \A i \in 1 .. Len(todo) : todo[i] = FirstBlock[Len(FirstBlock) - Len(todo) + i]
  BY DEF InFirstBlock
<1>3. todo' = <<>> \/ InFirstBlock'
  <2>1. ASSUME NEW i \in 1 .. Len(todo')
        PROVE  todo'[i] = FirstBlock[Len(FirstBlock) - Len(todo') + i]
    <3>1. /\ i \in 1 .. Len(todo) - 1 /\ i + 1 \in 1 .. Len(todo)
          /\ Len(FirstBlock) - Len(todo) + (i + 1) = Len(FirstBlock) - Len(todo') + i
      BY <1>1
    <3> QED
      BY <1>1, <1>2, <3>1
  <2>2. todo' = <<>> \/ Len(todo') \in 1 .. Len(FirstBlock)
    BY <1>1
  <2> QED
    BY <2>1, <2>2 DEF InFirstBlock
<1>4. op = FirstBlock[10 - Len(todo) + 1] /\ Len(todo) \in 1 .. 10
  <2>1. op = FirstBlock[Len(FirstBlock) - Len(todo) + 1] /\ Len(todo) \in 1 .. Len(FirstBlock)
    BY <1>1, <1>2
  <2> QED
    BY <2>1, FirstBlockIs
<1>5. ASSUME NEW k \in 1 .. 10, op = FirstBlock[10 - k + 1]
      PROVE  \/ op = "prog0" /\ k = 10
             \/ op = "ddr0" /\ k = 9
             \/ op = "pd0out" /\ k = 8
             \/ op = "prog1" /\ k = 7
             \/ op = "hiz" /\ k = 6
             \/ op = "ones" /\ k = 5
             \/ op = "drive" /\ k = 4
             \/ op = "byte" /\ k = 3
             \/ op = "clock1" /\ k = 2
             \/ op = "ddr0" /\ k = 1
  BY <1>5, FirstBlockIs
<1> QED
  BY <1>1, <1>3, <1>4, <1>5

LEMMA FirstBlockHead ==
  ASSUME TypeOK, InFirstBlock
  PROVE  /\ Len(todo) \in 1 .. 10 /\ todo[1] \notin {"xfer", "done?"}
         /\ Len(todo) = 10 => todo[1] = "prog0"
<1>1. ASSUME NEW k \in 1 .. 10
      PROVE  /\ FirstBlock[10 - k + 1] \notin {"xfer", "done?"}
             /\ k = 10 => FirstBlock[10 - k + 1] = "prog0"
  BY FirstBlockIs
<1>2. Len(todo) \in 1 .. Len(FirstBlock) /\ 1 \in 1 .. Len(todo)
  <2>1. Len(todo) \in 1 .. Len(FirstBlock) /\ Len(FirstBlock) \in Nat
    BY FirstBlockIs DEF InFirstBlock
  <2> QED
    BY <2>1
<1>3. todo[1] = FirstBlock[Len(FirstBlock) - Len(todo) + 1]
  BY <1>2, Zenon DEF InFirstBlock
<1> QED
  BY <1>1, <1>2, <1>3, FirstBlockIs

(***************************************************************************)
(* What a port operation does                                              *)
(***************************************************************************)

PortOps == {"drive", "hiz", "spiDir", "zero", "ones", "ss1", "byte"}

Effect(op) ==
  /\ UNCHANGED <<mode, loading, left>>
  /\ ddrb' = IF op = "drive" THEN "out" ELSE IF op = "hiz" THEN "in"
             ELSE IF op = "spiDir" THEN "spi" ELSE ddrb
  /\ port' \in {"zero", "ones", "byte"}
  /\ op \in {"zero", "ones", "byte"} => port' = op
  /\ op \notin {"zero", "ones", "byte", "ss1"} => port' = port
  /\ ss' \in {0, 1}
  /\ op \in {"ones", "ss1"} => ss' = 1
  /\ op \notin {"zero", "ones", "byte", "ss1"} => ss' = ss
  /\ seen' \in {0, 1}
  /\ op \notin PortOps \/ ddrb' # "in" => seen' = seen
  /\ op \in PortOps /\ ddrb' = "in" /\ ~DesignDrives => seen' = ss'
  /\ spi' \in {"off", "master", "slave"}
  /\ op = "spiOn" /\ seen = 1 => spi' = "master"
  /\ op \notin {"spiOn", "spiOff"} => spi' = spi
  /\ cs' = IF op = "select" THEN "low" ELSE IF op = "deselect" THEN "high" ELSE cs
  /\ rw' = IF op = "rw0" THEN "low" ELSE IF op = "rw1" THEN "high" ELSE rw
  /\ pd0' \in [out : BOOLEAN, bit : {0, 1}]
  /\ op = "pd0out" \/ (pd0.out /\ op # "pd0in") => pd0'.out
  /\ fpga' \in {"reset", "empty", "running"}
  /\ op \in {"prog0", "prog1"} => fpga' # "running"
  /\ op \notin {"prog0", "prog1"} /\ fpga' # fpga => fpga = "empty" /\ loading /\ op \in {"clock1", "ddr1"}
  /\ stray' \in BOOLEAN
  /\ stray' => \/ stray /\ op # "prog0"
               \/ op \in {"clock1", "ddr1"} /\ fpga = "empty" /\ ~DataValid

LEMMA PortBEffect == ASSUME TypeOK, PortB PROVE \E op \in Ops \ {"done?"} : Does(op) /\ Effect(op)
<1>2. /\ ddrb' # "in" => seen' = seen
      /\ ddrb' = "in" /\ ~DesignDrives => seen' = ss'
  BY DEF TypeOK, PortB, LooksAtSs
<1>3. UNCHANGED <<spi, cs, pd0, rw, fpga, stray>>
  BY DEF PortB
<1> DEFINE Set(op) ==
  /\ UNCHANGED <<mode, loading, left>>
  /\ ddrb' = IF op = "drive" THEN "out" ELSE IF op = "hiz" THEN "in"
             ELSE IF op = "spiDir" THEN "spi" ELSE ddrb
  /\ port' \in {"zero", "ones", "byte"}
  /\ op \in {"zero", "ones", "byte"} => port' = op
  /\ op \notin {"zero", "ones", "byte", "ss1"} => port' = port
  /\ ss' \in {0, 1}
  /\ op \in {"ones", "ss1"} => ss' = 1
  /\ op \notin {"zero", "ones", "byte", "ss1"} => ss' = ss
<1>4. \E op \in PortOps : Does(op) /\ Set(op)
  <2>1. CASE Does("drive") /\ ddrb' = "out" /\ UNCHANGED <<port, ss>>
    BY <2>1 DEF PortOps, TypeOK, Does
  <2>2. CASE Does("hiz") /\ ddrb' = "in" /\ UNCHANGED <<port, ss>>
    BY <2>2 DEF PortOps, TypeOK, Does
  <2>3. CASE Does("spiDir") /\ ddrb' = "spi" /\ UNCHANGED <<port, ss>>
    BY <2>3 DEF PortOps, TypeOK, Does
  <2>4. CASE Does("zero") /\ port' = "zero" /\ ss' = 0 /\ UNCHANGED ddrb
    BY <2>4 DEF PortOps, TypeOK, Does
  <2>5. CASE Does("ones") /\ port' = "ones" /\ ss' = 1 /\ UNCHANGED ddrb
    BY <2>5 DEF PortOps, TypeOK, Does
  <2>6. CASE Does("ss1") /\ port' \in {"ones", "byte"} /\ ss' = 1 /\ UNCHANGED ddrb
    BY <2>6 DEF PortOps, TypeOK, Does
  <2>7. CASE Does("byte") /\ port' = "byte" /\ ss' \in {0, 1} /\ UNCHANGED ddrb
    BY <2>7 DEF PortOps, TypeOK, Does
  <2>8. \A b \in Byte : Bit0(b) \in {0, 1}
    BY PinsAssumption DEF Bit0
  <2> QED
    BY <2>1, <2>2, <2>3, <2>4, <2>5, <2>6, <2>7, <2>8 DEF PortB
<1>5. PICK op \in PortOps : Does(op) /\ Set(op)
  BY <1>4
<1>6. op \in Ops \ {"done?"} /\ op \notin {"spiOn", "spiOff", "select", "deselect", "rw0", "rw1", "pd0in", "prog0", "prog1"}
  BY DEF PortOps, Ops
<1>7. stray' \in BOOLEAN /\ (stray' => stray)
  BY <1>3, Zenon DEF TypeOK
<1>8. /\ spi' \in {"off", "master", "slave"} /\ pd0' \in [out : BOOLEAN, bit : {0, 1}]
      /\ fpga' \in {"reset", "empty", "running"} /\ (op = "pd0out" \/ (pd0.out /\ op # "pd0in") => pd0'.out)
  BY <1>3, <1>6 DEF TypeOK, PortOps
<1>1. seen' \in {0, 1}
  BY <1>5 DEF TypeOK, PortB, LooksAtSs
<1>9. Effect(op)
  BY <1>1, <1>2, <1>3, <1>5, <1>6, <1>7, <1>8 DEF Effect, PortOps
<1> QED
  BY <1>5, <1>6, <1>9

LEMMA OtherEffect ==
  ASSUME TypeOK, FlashPins \/ Program \/ ControlPins \/ Clock
  PROVE  \E op \in Ops \ {"done?"} : Does(op) /\ Effect(op)
<1>1. CASE FlashPins
  <2>1. CASE Does("spiOn") /\ spi' = (IF seen = 1 THEN "master" ELSE "slave") /\ UNCHANGED cs
    <3>1. "spiOn" \in Ops \ {"done?"} /\ "spiOn" \notin PortOps
      BY DEF Ops, PortOps
    <3>2. stray' \in BOOLEAN /\ (stray' => stray /\ "spiOn" # "prog0")
      BY <1>1, <2>1, Zenon DEF FlashPins, TypeOK, avrVars
    <3>3. Effect("spiOn")
      BY <1>1, <2>1, <3>1, <3>2 DEF FlashPins, Effect, Does, TypeOK, avrVars
    <3> QED
      BY <2>1, <3>1, <3>3
  <2>2. CASE Does("spiOff") /\ spi' = "off" /\ UNCHANGED cs
    <3>1. "spiOff" \in Ops \ {"done?"} /\ "spiOff" \notin PortOps
      BY DEF Ops, PortOps
    <3>2. stray' \in BOOLEAN /\ (stray' => stray /\ "spiOff" # "prog0")
      BY <1>1, <2>2, Zenon DEF FlashPins, TypeOK, avrVars
    <3>3. Effect("spiOff")
      BY <1>1, <2>2, <3>1, <3>2 DEF FlashPins, Effect, Does, TypeOK, avrVars
    <3> QED
      BY <2>2, <3>1, <3>3
  <2>3. CASE Does("select") /\ cs' = "low" /\ UNCHANGED spi
    <3>1. "select" \in Ops \ {"done?"} /\ "select" \notin PortOps
      BY DEF Ops, PortOps
    <3>2. stray' \in BOOLEAN /\ (stray' => stray /\ "select" # "prog0")
      BY <1>1, <2>3, Zenon DEF FlashPins, TypeOK, avrVars
    <3>3. Effect("select")
      BY <1>1, <2>3, <3>1, <3>2 DEF FlashPins, Effect, Does, TypeOK, avrVars
    <3> QED
      BY <2>3, <3>1, <3>3
  <2>4. CASE Does("deselect") /\ cs' = "high" /\ UNCHANGED spi
    <3>1. "deselect" \in Ops \ {"done?"} /\ "deselect" \notin PortOps
      BY DEF Ops, PortOps
    <3>2. stray' \in BOOLEAN /\ (stray' => stray /\ "deselect" # "prog0")
      BY <1>1, <2>4, Zenon DEF FlashPins, TypeOK, avrVars
    <3>3. Effect("deselect")
      BY <1>1, <2>4, <3>1, <3>2 DEF FlashPins, Effect, Does, TypeOK, avrVars
    <3> QED
      BY <2>4, <3>1, <3>3
  <2>5. CASE Does("xfer") /\ spi = "master" /\ UNCHANGED <<spi, cs>>
    <3>1. "xfer" \in Ops \ {"done?"} /\ "xfer" \notin PortOps
      BY DEF Ops, PortOps
    <3>2. stray' \in BOOLEAN /\ (stray' => stray /\ "xfer" # "prog0")
      BY <1>1, <2>5, Zenon DEF FlashPins, TypeOK, avrVars
    <3>3. Effect("xfer")
      BY <1>1, <2>5, <3>1, <3>2 DEF FlashPins, Effect, Does, TypeOK, avrVars
    <3> QED
      BY <2>5, <3>1, <3>3
  <2> QED
    BY <1>1, <2>1, <2>2, <2>3, <2>4, <2>5 DEF FlashPins
<1>2. CASE Program
  <2>1. CASE Does("prog0") /\ fpga' = "reset" /\ stray' = FALSE
    <3>1. "prog0" \in Ops \ {"done?"} /\ "prog0" \notin PortOps
      BY DEF Ops, PortOps
    <3>2. stray' \in BOOLEAN /\ ~stray'
      BY <2>1, Zenon
    <3>3. Effect("prog0")
      BY <1>2, <2>1, <3>1, <3>2 DEF Program, Effect, Does, TypeOK, avrVars
    <3> QED
      BY <2>1, <3>1, <3>3
  <2>2. CASE Does("prog1") /\ fpga' = "empty" /\ UNCHANGED stray
    <3>1. "prog1" \in Ops \ {"done?"} /\ "prog1" \notin PortOps
      BY DEF Ops, PortOps
    <3>2. stray' \in BOOLEAN /\ (stray' => stray /\ "prog1" # "prog0")
      BY <1>2, <2>2, Zenon DEF Program, TypeOK, avrVars
    <3>3. Effect("prog1")
      BY <1>2, <2>2, <3>1, <3>2 DEF Program, Effect, Does, TypeOK, avrVars
    <3> QED
      BY <2>2, <3>1, <3>3
  <2> QED
    BY <1>2, <2>1, <2>2 DEF Program
<1>3. CASE ControlPins
  <2>1. CASE Does("rw0") /\ rw' = "low" /\ UNCHANGED pd0
    <3>1. "rw0" \in Ops \ {"done?"} /\ "rw0" \notin PortOps
      BY DEF Ops, PortOps
    <3>2. stray' \in BOOLEAN /\ (stray' => stray /\ "rw0" # "prog0")
      BY <1>3, <2>1, Zenon DEF ControlPins, TypeOK, avrVars
    <3>3. Effect("rw0")
      BY <1>3, <2>1, <3>1, <3>2 DEF ControlPins, Effect, Does, TypeOK, avrVars
    <3> QED
      BY <2>1, <3>1, <3>3
  <2>2. CASE Does("rw1") /\ rw' = "high" /\ UNCHANGED pd0
    <3>1. "rw1" \in Ops \ {"done?"} /\ "rw1" \notin PortOps
      BY DEF Ops, PortOps
    <3>2. stray' \in BOOLEAN /\ (stray' => stray /\ "rw1" # "prog0")
      BY <1>3, <2>2, Zenon DEF ControlPins, TypeOK, avrVars
    <3>3. Effect("rw1")
      BY <1>3, <2>2, <3>1, <3>2 DEF ControlPins, Effect, Does, TypeOK, avrVars
    <3> QED
      BY <2>2, <3>1, <3>3
  <2>3. CASE Does("ddr0") /\ pd0' = [pd0 EXCEPT !.bit = 0] /\ UNCHANGED rw
    <3>1. "ddr0" \in Ops \ {"done?"} /\ "ddr0" \notin PortOps
      BY DEF Ops, PortOps
    <3>2. stray' \in BOOLEAN /\ (stray' => stray /\ "ddr0" # "prog0")
      BY <1>3, <2>3, Zenon DEF ControlPins, TypeOK, avrVars
    <3>3. Effect("ddr0")
      BY <1>3, <2>3, <3>1, <3>2 DEF ControlPins, Effect, Does, TypeOK, avrVars
    <3> QED
      BY <2>3, <3>1, <3>3
  <2>4. CASE Does("pd0in") /\ pd0' = [pd0 EXCEPT !.out = FALSE] /\ UNCHANGED rw
    <3>1. "pd0in" \in Ops \ {"done?"} /\ "pd0in" \notin PortOps
      BY DEF Ops, PortOps
    <3>2. stray' \in BOOLEAN /\ (stray' => stray /\ "pd0in" # "prog0")
      BY <1>3, <2>4, Zenon DEF ControlPins, TypeOK, avrVars
    <3>3. Effect("pd0in")
      BY <1>3, <2>4, <3>1, <3>2 DEF ControlPins, Effect, Does, TypeOK, avrVars
    <3> QED
      BY <2>4, <3>1, <3>3
  <2>5. CASE Does("pd0out") /\ pd0' = [pd0 EXCEPT !.out = TRUE] /\ UNCHANGED rw
    <3>1. "pd0out" \in Ops \ {"done?"} /\ "pd0out" \notin PortOps
      BY DEF Ops, PortOps
    <3>2. stray' \in BOOLEAN /\ (stray' => stray /\ "pd0out" # "prog0")
      BY <1>3, <2>5, Zenon DEF ControlPins, TypeOK, avrVars
    <3>3. Effect("pd0out")
      BY <1>3, <2>5, <3>1, <3>2 DEF ControlPins, Effect, Does, TypeOK, avrVars
    <3> QED
      BY <2>5, <3>1, <3>3
  <2> QED
    BY <1>3, <2>1, <2>2, <2>3, <2>4, <2>5 DEF ControlPins
<1>4. CASE Clock
  <2>1. PICK op \in {"clock1", "ddr1"} : Does(op)
    BY <1>4 DEF Clock
  <2>2. op \in Ops \ {"done?"} /\ op \notin PortOps
    BY DEF Ops, PortOps
  <2>3. stray' \in BOOLEAN /\ (stray' => stray \/ (fpga = "empty" /\ ~DataValid))
    BY <1>4, Zenon DEF Clock, TypeOK
  <2>4. pd0' \in [out : BOOLEAN, bit : {0, 1}] /\ (pd0.out => pd0'.out)
    BY <1>4 DEF Clock, TypeOK
  <2>5. /\ fpga' \in {"reset", "empty", "running"}
        /\ fpga' # fpga => fpga = "empty" /\ loading
    BY <1>4 DEF Clock, TypeOK
  <2>6. Effect(op)
    BY <1>4, <2>1, <2>2, <2>3, <2>4, <2>5 DEF Clock, Effect, Does, TypeOK
  <2> QED
    BY <2>1, <2>2, <2>6
<1> QED
  BY <1>1, <1>2, <1>3, <1>4

LEMMA OperationEffect ==
  ASSUME TypeOK, Operation PROVE \E op \in Ops \ {"done?"} : Does(op) /\ Effect(op)
BY PortBEffect, OtherEffect DEF Operation

(***************************************************************************)
(* The port operations of each mode                                        *)
(***************************************************************************)

LEMMA BootOps ==
  ASSUME TypeOK, BootOK, NEW op \in Ops, Does(op), Effect(op)
  PROVE  BootOK'
<1>1. Flows(BootFlow)' /\ Place = op /\ <<op, Place'>> \in BootFlow
  BY FlowGoesOn DEF BootOK, TypeOK
<1>2. PICK next : next = Place'
  OBVIOUS
<1>3. <<op, next>> \in BootFlow
  BY <1>1, <1>2, Zenon
<1>4. /\ ~loading' /\ cs' # "low"
      /\ rw' = IF next = "rw0" THEN "float" ELSE "low"
      /\ next \in {"rw0", "zero", "drive", "deselect", "end"} => ddrb' = "in"
  BY <1>1, <1>3 DEF BootOK, BootFlow, Effect
<1> QED
  BY <1>1, <1>2, <1>4 DEF BootOK

LEMMA MainOps ==
  ASSUME TypeOK, MainOK, NEW op \in Ops, Does(op), Effect(op)
  PROVE  MainOK'
<1>1. /\ Place = op
      /\ \/ Flows(PrepareFlow)' /\ <<op, Place'>> \in PrepareFlow
         \/ Flows(ResetFlow)' /\ <<op, Place'>> \in ResetFlow
  BY FlowGoesOn DEF MainOK, TypeOK
<1>2. PICK next : next = Place'
  OBVIOUS
<1>3. <<op, next>> \in PrepareFlow \/ <<op, next>> \in ResetFlow
  BY <1>1, <1>2, Zenon
<1>4. /\ ~loading' /\ cs' # "low" /\ rw' # "float"
      /\ next \in {"ones", "zero", "end"} => ddrb' = "in"
      /\ fpga' = "running" /\ rw' = "high" => ddrb' = "in"
  BY <1>1, <1>3 DEF MainOK, PrepareFlow, ResetFlow, Effect
<1> QED
  BY <1>1, <1>2, <1>4 DEF MainOK

LEMMA AppOps ==
  ASSUME TypeOK, AppOK, NEW op \in Ops, Does(op), Effect(op)
  PROVE  AppOK'
<1>1. Flows(AppFlow)' /\ Place = op /\ <<op, Place'>> \in AppFlow
  BY FlowGoesOn DEF AppOK, TypeOK
<1>2. PICK next : next = Place'
  OBVIOUS
<1>3. <<op, next>> \in AppFlow
  BY <1>1, <1>2, Zenon
<1>4. /\ ~loading' /\ cs' # "low" /\ rw' # "float"
      /\ next \in {"zero", "drive"} => rw' = "low"
      /\ next = "rw1" => ddrb' = "in"
      /\ rw' = "high" => ddrb' = "in"
  BY <1>1, <1>3 DEF AppOK, AppFlow, Effect
<1> QED
  BY <1>1, <1>2, <1>4 DEF AppOK

LEMMA IrqOps ==
  ASSUME TypeOK, IrqOK, NEW op \in Ops, Does(op), Effect(op)
  PROVE  IrqOK'
<1>1. Flows(ResetFlow)' /\ Place = op /\ <<op, Place'>> \in ResetFlow
  BY FlowGoesOn DEF IrqOK, TypeOK
<1>2. PICK next : next = Place'
  OBVIOUS
<1>3. <<op, next>> \in ResetFlow
  BY <1>1, <1>2, Zenon
<1>4. /\ rw' # "float"
      /\ cs' = "low" => ddrb' # "out"
      /\ fpga' = "running" /\ rw' = "high" /\ ~loading' => ddrb' = "in"
  BY <1>1, <1>3 DEF IrqOK, ResetFlow, Effect
<1>5. op # "prog0" /\ loading' => ~stray'
  BY <1>1, <1>3 DEF IrqOK, ResetFlow, Effect
<1>6. op = "prog0" => ~stray'
  BY DEF Effect
<1> QED
  BY <1>1, <1>4, <1>5, <1>6 DEF IrqOK

(* SS is seen high, unless a design drives it that has just started.       *)
LEMMA SsHigh ==
  ASSUME TypeOK, NEW op \in {"ss1", "hiz", "ones"}, Effect(op), ss' = 1,
         rw # "float", fpga = "running" => loading,
         ddrb' = "in" \/ seen = 1 \/ TakesOver
  PROVE  seen' = 1 \/ TakesOver
<1>1. CASE ddrb' = "in" /\ DesignDrives
  <2>1. fpga = "running" /\ rw = "high"
    BY <1>1 DEF DesignDrives, TypeOK, Level
  <2> QED
    BY <2>1, Zenon DEF TakesOver
<1>2. CASE ddrb' = "in" /\ ~DesignDrives
  BY <1>2 DEF Effect, PortOps
<1>3. CASE ddrb' # "in"
  BY <1>3 DEF Effect
<1> QED
  BY <1>1, <1>2, <1>3

(* A SPI that is set up among port operations of the right order stays     *)
(* master: nobody pulls SS down, or the design that starts early does.     *)
LEMMA SpiOps ==
  ASSUME TypeOK, SpiOK, NEW op \in Ops, Does(op), Effect(op), Place = op,
         NEW next, next = Place', <<op, next>> \in FlashFlow \cup FeedFlow,
         rw # "float", fpga = "running" => loading,
         op = "ss1" => ddrb = "in" \/ seen = 1 \/ TakesOver
  PROVE  SpiOK' /\ (TakesOver => TakesOver')
<1>1. TakesOver => TakesOver'
  BY DEF TakesOver, Effect, FlashFlow, FeedFlow, SpiFlow
<1>2. ASSUME op = "ss1" PROVE seen' = 1 \/ TakesOver'
  <2>1. seen' = 1 \/ TakesOver
    <3>1. ss' = 1 /\ ddrb' = ddrb
      BY <1>2 DEF Effect
    <3> QED
      BY <1>2, <3>1, SsHigh
  <2> QED
    BY <1>1, <2>1
<1>3. next = "spiOn" => seen' = 1 \/ TakesOver'
  BY <1>1 DEF SpiOK, Effect, PortOps, FlashFlow, FeedFlow, SpiFlow
<1>4. next = "spiDir" => seen' = 1 \/ TakesOver'
  <2>1. next = "spiDir" => op = "ss1"
    BY DEF FlashFlow, FeedFlow, SpiFlow
  <2> QED
    BY <1>2, <2>1
<1>5. next \in {"select", "xfer", "deselect"} => spi' = "master" \/ TakesOver'
  BY <1>1 DEF SpiOK, Effect, FlashFlow, FeedFlow, SpiFlow
<1>6. /\ next \in {"spiOn", "select", "xfer", "deselect"} => ddrb' = "spi"
      /\ next = "xfer" => cs' = "low"
      /\ cs' = "low" => next \in {"xfer", "deselect"}
  BY DEF SpiOK, Effect, FlashFlow, FeedFlow, SpiFlow
<1> QED
  BY <1>1, <1>3, <1>4, <1>5, <1>6 DEF SpiOK

LEMMA FlashOps ==
  ASSUME TypeOK, FlashOK, NEW op \in Ops, Does(op), Effect(op)
  PROVE  FlashOK'
<1>1. Flows(FlashFlow)' /\ Place = op /\ <<op, Place'>> \in FlashFlow
  BY FlowGoesOn DEF FlashOK, TypeOK
<1>2. PICK next : next = Place'
  OBVIOUS
<1>3. <<op, next>> \in FlashFlow
  BY <1>1, <1>2, Zenon
<1>4. SpiOK'
  BY <1>1, <1>2, <1>3, SpiOps DEF FlashOK
<1>5. /\ ~loading' /\ fpga' # "running" /\ rw' # "float"
      /\ next \in {"ss1", "spiOff", "end"} => ddrb' = "in"
  BY <1>1, <1>3 DEF FlashOK, FlashFlow, SpiFlow, Effect
<1> QED
  BY <1>1, <1>2, <1>4, <1>5 DEF FlashOK

LEMMA FeedOps ==
  ASSUME TypeOK, FeedOK, NEW op \in Ops, Does(op), Effect(op)
  PROVE  FeedOK'
<1>1. Flows(FeedFlow)' /\ Place = op /\ <<op, Place'>> \in FeedFlow
  BY FlowGoesOn DEF FeedOK, TypeOK
<1>2. PICK next : next = Place'
  OBVIOUS
<1>3. <<op, next>> \in FeedFlow
  BY <1>1, <1>2, Zenon
<1>4. SpiOK' /\ (TakesOver => TakesOver')
  BY <1>1, <1>2, <1>3, SpiOps DEF FeedOK, Loads
<1>5. op = "clock1" => DataValid
  BY <1>1 DEF FeedOK, SpiOK, Loads, DataValid
<1>6. Loads'
  <2>1. loading' /\ rw' # "float" /\ pd0'.out
    BY <1>1, <1>3 DEF FeedOK, Loads, FeedFlow, SpiFlow, Effect
  <2>2. fpga = "running" => fpga' = "running"
    BY <1>1, <1>3 DEF FeedFlow, SpiFlow, Effect
  <2>3. op # "ddr1"
    BY <1>3 DEF FeedFlow, SpiFlow
  <2>4. stray' => stray
    BY <1>5, <2>3 DEF Effect
  <2> QED
    BY <2>1, <2>2, <2>4 DEF FeedOK, Loads
<1>7. seen' = 1 \/ TakesOver'
  <2>1. rw # "float" /\ loading /\ (seen = 1 \/ TakesOver)
    BY DEF FeedOK, Loads
  <2>2. CASE op \in {"hiz", "ss1"}
    <3>1. ss' = 1
      BY <1>1, <2>2 DEF FeedOK, Effect
    <3> QED
      BY <1>4, <2>1, <2>2, <3>1, SsHigh
  <2>3. CASE op \notin {"hiz", "ss1"}
    <3>1. op \notin PortOps \/ ddrb' # "in"
      BY <1>1, <1>3, <2>3 DEF FeedOK, FeedFlow, SpiFlow, Effect, PortOps
    <3> QED
      BY <1>4, <3>1 DEF FeedOK, Effect
  <2> QED
    BY <2>2, <2>3
<1>8. /\ next \in {"spiDir", "spiOn", "select", "xfer", "deselect", "hiz"} => ss' = 1
      /\ next \in {"byte", "clock1"} => ddrb' = "out"
      /\ next = "clock1" => port' = "byte"
  BY <1>1, <1>3 DEF FeedOK, FeedFlow, SpiFlow, Effect
<1> QED
  BY <1>1, <1>2, <1>4, <1>6, <1>7, <1>8 DEF FeedOK

LEMMA FinishOps ==
  ASSUME TypeOK, FinishOK, NEW op \in Ops \ {"done?"}, Does(op), Effect(op)
  PROVE  FinishOK'
<1>1. Flows(FinishFlow)' /\ Place = op /\ <<op, Place'>> \in FinishFlow
  BY FlowGoesOn DEF FinishOK, TypeOK
<1>2. PICK next : next = Place'
  OBVIOUS
<1>3. <<op, next>> \in FinishFlow
  BY <1>1, <1>2, Zenon
<1>4. todo' # <<>>
  <2>1. next # "end"
    BY <1>3 DEF FinishFlow
  <2> QED
    BY <1>2, <2>1 DEF Place
<1>5. op = "clock1" => DataValid
  BY <1>1 DEF FinishOK, Loads, DataValid
<1>6. Loads'
  <2>1. loading' /\ rw' # "float" /\ pd0'.out
    BY <1>3 DEF FinishOK, Loads, FinishFlow, Effect
  <2>2. fpga = "running" => fpga' = "running"
    BY <1>3 DEF FinishFlow, Effect
  <2>3. op # "ddr1"
    BY <1>3 DEF FinishFlow
  <2>4. stray' => stray
    BY <1>5, <2>3 DEF Effect
  <2> QED
    BY <2>1, <2>2, <2>4 DEF FinishOK, Loads
<1>7. /\ cs' # "low" /\ (next # "hiz" => ddrb' = "in")
      /\ next \in {"clock1", "ddr0", "done?"} => port' = "ones"
  BY <1>1, <1>3 DEF FinishOK, FinishFlow, Effect
<1> QED
  BY <1>1, <1>2, <1>4, <1>6, <1>7 DEF FinishOK

(* After its last operation the first block is a load like any other.      *)
LEMMA FirstBlockOps ==
  ASSUME TypeOK, FirstBlockOK, NEW op \in Ops, Does(op), Effect(op)
  PROVE  FirstBlockOK' \/ FeedOK'
<1>1. PICK n \in Nat : n = Len(todo)
  BY DEF TypeOK
<1>2. /\ Len(todo') = n - 1 /\ (todo' = <<>> \/ InFirstBlock')
      /\ \/ op = "prog0" /\ n = 10
         \/ op = "ddr0" /\ n = 9
         \/ op = "pd0out" /\ n = 8
         \/ op = "prog1" /\ n = 7
         \/ op = "hiz" /\ n = 6
         \/ op = "ones" /\ n = 5
         \/ op = "drive" /\ n = 4
         \/ op = "byte" /\ n = 3
         \/ op = "clock1" /\ n = 2
         \/ op = "ddr0" /\ n = 1
  BY <1>1, FirstBlockOp DEF FirstBlockOK, TypeOK
<1>3. /\ loading /\ rw # "float" /\ cs # "low"
      /\ n \in 7 .. 9 => ~stray
      /\ n < 7 => fpga = "running" \/ ~stray
      /\ n < 8 => pd0.out
      /\ n = 5 => ddrb = "in"
      /\ n < 5 => seen = 1 \/ TakesOver
      /\ n \in {2, 3} => ddrb = "out"
      /\ n = 2 => port = "byte"
  BY <1>1 DEF FirstBlockOK
<1>4. loading' /\ rw' # "float" /\ cs' # "low"
  BY <1>2, <1>3 DEF Effect
<1>5. /\ n \in 8 .. 10 => ~stray'
      /\ n < 8 => fpga' = "running" \/ ~stray'
  <2>1. op = "prog0" => ~stray'
    BY DEF Effect
  <2>2. op = "clock1" => DataValid
    BY <1>2, <1>3 DEF DataValid
  <2>3. op # "ddr1"
    BY <1>2
  <2>4. stray' => stray
    BY <2>2, <2>3 DEF Effect
  <2>5. op \notin {"prog0", "prog1"} /\ fpga = "running" => fpga' = "running"
    BY DEF Effect
  <2>6. CASE n \in 7 .. 10
    BY <1>2, <1>3, <2>1, <2>4, <2>6
  <2>7. CASE n < 7
    BY <1>2, <1>3, <2>4, <2>5, <2>7
  <2> QED
    BY <1>2, <2>6, <2>7
<1>6. n < 9 => pd0'.out
  BY <1>2, <1>3 DEF Effect
<1>7. n = 6 => ddrb' = "in"
  BY <1>2 DEF Effect
<1>8. n < 6 => seen' = 1 \/ TakesOver'
  <2>1. TakesOver /\ n < 7 => TakesOver'
    BY <1>2 DEF TakesOver, Effect
  <2>2. CASE op = "ones"
    <3>1. ss' = 1 /\ ddrb' = "in"
      BY <1>2, <1>3, <2>2 DEF Effect
    <3>2. seen' = 1 \/ TakesOver
      BY <1>3, <2>2, <3>1, SsHigh
    <3> QED
      BY <1>2, <2>1, <2>2, <3>2
  <2>3. CASE op # "ones" /\ n < 6
    <3>1. op \notin PortOps \/ ddrb' # "in"
      BY <1>2, <1>3, <2>3 DEF Effect, PortOps
    <3> QED
      BY <1>2, <1>3, <2>1, <2>3, <3>1 DEF Effect
  <2> QED
    BY <2>2, <2>3
<1>9. n \in {3, 4} => ddrb' = "out"
  BY <1>2, <1>3 DEF Effect
<1>10. n = 3 => port' = "byte"
  BY <1>2 DEF Effect
<1>11. CASE todo' = <<>>
  <2>1. n = 1
    BY <1>1, <1>2, <1>11
  <2>2. Flows(FeedFlow)' /\ Place' = "end"
    BY <1>11, NothingFlows
  <2>3. SpiOK'
    BY <1>4, <2>2 DEF SpiOK
  <2>4. Loads'
    BY <1>4, <1>5, <1>6, <2>1 DEF Loads
  <2> QED
    BY <1>8, <2>1, <2>2, <2>3, <2>4 DEF FeedOK
<1>12. CASE InFirstBlock'
  <2>1. Len(todo') \in Int /\ n - Len(todo') = 1
    BY <1>1, <1>2
  <2>2. ASSUME NEW k \in Int, k = Len(todo')
        PROVE  /\ k \in 7 .. 9 => n \in 8 .. 10
               /\ k < 7 => n < 8
               /\ k < 8 => n < 9
               /\ k = 5 => n = 6
               /\ k < 5 => n < 6
               /\ k \in {2, 3} => n \in {3, 4}
               /\ k = 2 => n = 3
    <3>1. n - k = 1
      BY <2>1, <2>2
    <3> QED
      BY <3>1
  <2>3. FirstBlockOK'
    <3>1. /\ Len(todo') \in 7 .. 9 => ~stray'
          /\ Len(todo') < 7 => fpga' = "running" \/ ~stray'
      BY <1>5, <2>1, <2>2
    <3>2. /\ Len(todo') < 8 => pd0'.out
          /\ Len(todo') = 5 => ddrb' = "in"
          /\ Len(todo') \in {2, 3} => ddrb' = "out"
          /\ Len(todo') = 2 => port' = "byte"
      BY <1>6, <1>7, <1>9, <1>10, <2>1, <2>2
    <3>3. Len(todo') < 5 => seen' = 1 \/ TakesOver'
      BY <1>8, <2>1, <2>2
    <3> QED
      BY <1>4, <1>12, <3>1, <3>2, <3>3 DEF FirstBlockOK
  <2> QED
    BY <2>3
<1> QED
  BY <1>2, <1>11, <1>12

LEMMA OpTypes ==
  ASSUME TypeOK, NEW op \in Ops, Does(op), Effect(op)
  PROVE  TypeOK'
<1>1. todo' \in Seq(Ops)
  BY DEF TypeOK, Does
<1>2. mode' = mode /\ loading' = loading /\ left' = left
  BY DEF Effect
<1>3. /\ ddrb' \in {"in", "out", "spi"} /\ cs' \in Level /\ rw' \in Level
      /\ port' \in {"zero", "ones", "byte"} /\ ss' \in {0, 1} /\ seen' \in {0, 1}
      /\ spi' \in {"off", "master", "slave"} /\ pd0' \in [out : BOOLEAN, bit : {0, 1}]
      /\ fpga' \in {"reset", "empty", "running"}
  BY DEF TypeOK, Effect, Level
<1>4. stray' \in BOOLEAN
  BY DEF Effect
<1> QED
  BY <1>1, <1>2, <1>3, <1>4, Zenon DEF TypeOK

LEMMA OperationKeeps == ASSUME IInv, Operation PROVE IInv'
<1>1. PICK op \in Ops \ {"done?"} : Does(op) /\ Effect(op)
  BY OperationEffect DEF IInv
<1>2. TypeOK /\ PlaceOK /\ TypeOK' /\ mode' = mode /\ mode \in {"boot", "main", "cli", "app", "irq"}
  BY <1>1, OpTypes DEF IInv, Does, TypeOK
<1>3. CASE mode = "boot"
  BY <1>1, <1>2, <1>3, BootOps DEF PlaceOK, IInv
<1>4. CASE mode = "main"
  BY <1>1, <1>2, <1>4, MainOps DEF PlaceOK, IInv
<1>5. CASE mode = "app"
  BY <1>1, <1>2, <1>5, AppOps DEF PlaceOK, IInv
<1>6. CASE mode = "irq"
  BY <1>1, <1>2, <1>6, IrqOps DEF PlaceOK, IInv
<1>7. CASE mode = "cli"
  <2>1. CliOK
    BY <1>2, <1>7 DEF PlaceOK
  <2>2. CliOK'
    BY <1>1, <1>2, <2>1, FlashOps, FirstBlockOps, FeedOps, FinishOps DEF CliOK
  <2> QED
    BY <1>2, <1>7, <2>2 DEF PlaceOK, IInv
<1> QED
  BY <1>2, <1>3, <1>4, <1>5, <1>6, <1>7

(***************************************************************************)
(* The callers                                                             *)
(***************************************************************************)

(* A call leaves the pins alone.                                           *)
LEMMA CallTypes ==
  ASSUME TypeOK, todo' \in Seq(Ops), mode' \in {"boot", "main", "cli", "app", "irq"},
         loading' \in BOOLEAN, left' = left \/ left' \in [baud : Nat, restart : Nat, power : Nat],
         UNCHANGED <<fpga, stray>>, UNCHANGED avrVars
  PROVE  TypeOK'
<1>1. left' \in [baud : Nat, restart : Nat, power : Nat]
  BY DEF TypeOK
<1> QED
  BY <1>1, Zenon DEF TypeOK, avrVars

(* When nothing is left to do at the prompt, and when a file is loaded.    *)
LEMMA AtPrompt ==
  ASSUME CliOK, todo = <<>>
  PROVE  (loading => FeedOK) /\ (~loading => FlashOK) /\ cs # "low" /\ rw # "float"
<1>1. ~FirstBlockOK
  <2>1. Len(todo) = 0
    OBVIOUS
  <2> QED
    BY <2>1, FirstBlockIs DEF FirstBlockOK, InFirstBlock
<1>2. FlashOK \/ FeedOK
  BY <1>1, Zenon DEF CliOK, FinishOK
<1>3. Place = "end"
  BY DEF Place
<1>4. CASE FlashOK
  BY <1>3, <1>4 DEF FlashOK, SpiOK
<1>5. CASE FeedOK
  BY <1>3, <1>5 DEF FeedOK, SpiOK, Loads
<1> QED
  BY <1>2, <1>4, <1>5

(* The prompt is a flash conversation that is over.                        *)
LEMMA ToPrompt ==
  ASSUME todo' = <<>>, ~loading', fpga' # "running", rw' # "float", cs' # "low",
         ddrb' = "in"
  PROVE  FlashOK'
<1>1. Flows(FlashFlow)' /\ Place' = "end"
  BY NothingFlows
<1>2. SpiOK'
  BY <1>1 DEF SpiOK
<1> QED
  BY <1>1, <1>2 DEF FlashOK

LEMMA MainLoopKeeps == ASSUME IInv, MainLoop PROVE IInv'
<1>1. /\ todo = <<>> /\ Place = "end" /\ mode \in {"boot", "main"}
      /\ UNCHANGED <<fpga, stray, left>> /\ UNCHANGED avrVars
      /\ UNCHANGED <<ddrb, cs, rw>>
  BY DEF MainLoop, Calls, Place, avrVars
<1>2. ~loading /\ cs # "low" /\ rw # "float" /\ ddrb = "in"
  BY <1>1 DEF IInv, PlaceOK, BootOK, MainOK
<1>3. CASE fpga = "running"
  <2>1. todo' = BaseInit /\ mode' = "app" /\ loading' = FALSE
    BY <1>3 DEF MainLoop, Calls
  <2>2. Flows(AppFlow)' /\ Place' = "rw0" /\ todo' \in Seq(Ops)
    <3>1. <<"pd0out", "end">> \in AppFlow
      BY DEF AppFlow
    <3> QED
      BY <2>1, <3>1, OtherPaths, CallFlows
  <2>3. AppOK'
    BY <1>1, <1>2, <2>1, <2>2 DEF AppOK
  <2>4. TypeOK'
    BY <1>1, <2>1, <2>2, CallTypes DEF IInv
  <2> QED
    BY <2>1, <2>3, <2>4 DEF IInv, PlaceOK
<1>4. CASE fpga # "running"
  <2>1. todo' = <<>> /\ mode' = "cli" /\ loading' = FALSE
    BY <1>4 DEF MainLoop, Calls
  <2>2. FlashOK'
    BY <1>1, <1>2, <1>4, <2>1, ToPrompt
  <2>3. TypeOK'
    <3>1. todo' \in Seq(Ops)
      BY <2>1
    <3> QED
      BY <1>1, <2>1, <3>1, CallTypes DEF IInv
  <2> QED
    BY <2>1, <2>2, <2>3 DEF IInv, PlaceOK, CliOK
<1> QED
  BY <1>3, <1>4

LEMMA UseFlashKeeps == ASSUME IInv, UseFlash PROVE IInv'
<1>1. /\ todo = <<>> /\ mode = "cli" /\ ~loading
      /\ UNCHANGED <<fpga, stray, left>> /\ UNCHANGED avrVars
      /\ UNCHANGED <<ddrb, cs, rw>> /\ mode' = "cli" /\ loading' = FALSE
  BY DEF UseFlash, Calls, avrVars
<1>2. PICK f \in FlashCall : todo' = f
  BY DEF UseFlash, Calls
<1>3. FlashOK /\ cs # "low" /\ rw # "float" /\ Place = "end"
  BY <1>1, AtPrompt DEF IInv, PlaceOK, Place
<1>4. Flows(FlashFlow)' /\ Place' = "ss1" /\ todo' \in Seq(Ops)
  <2>1. SpiFlow \subseteq FlashFlow /\ <<"spiOff", "end">> \in FlashFlow
    BY DEF FlashFlow
  <2> QED
    BY <1>2, <2>1, FlashPaths, CallFlows
<1>5. SpiOK'
  BY <1>1, <1>3, <1>4 DEF SpiOK
<1>6. FlashOK'
  BY <1>1, <1>3, <1>4, <1>5 DEF FlashOK
<1>7. TypeOK'
  BY <1>1, <1>4, CallTypes DEF IInv
<1> QED
  BY <1>1, <1>6, <1>7 DEF IInv, PlaceOK, CliOK

LEMMA BeginLoadKeeps == ASSUME IInv, BeginLoad PROVE IInv'
<1>1. /\ todo = <<>> /\ mode = "cli" /\ ~loading
      /\ UNCHANGED <<fpga, stray, left>> /\ UNCHANGED avrVars
      /\ UNCHANGED <<cs, rw>> /\ mode' = "cli" /\ loading' = TRUE /\ todo' = FirstBlock
  BY DEF BeginLoad, Calls, avrVars, FirstBlock
<1>2. cs # "low" /\ rw # "float"
  BY <1>1, AtPrompt DEF IInv, PlaceOK
<1>3. InFirstBlock' /\ Len(todo') = 10 /\ todo' \in Seq(Ops)
  <2>1. ASSUME NEW s, s \in Seq(Ops), Len(s) = 10, NEW i \in 1 .. Len(s)
        PROVE  s[i] = s[Len(s) - Len(s) + i]
    BY <2>1
  <2>2. FirstBlock' = FirstBlock
    BY DEF FirstBlock, XilinxReset, WriteBlock
  <2> QED
    BY <1>1, <2>1, <2>2, FirstBlockIs DEF InFirstBlock
<1>4. FirstBlockOK'
  BY <1>1, <1>2, <1>3 DEF FirstBlockOK
<1>5. TypeOK'
  BY <1>1, <1>3, CallTypes DEF IInv
<1> QED
  BY <1>1, <1>4, <1>5 DEF IInv, PlaceOK, CliOK

LEMMA GoOnLoadingKeeps == ASSUME IInv, GoOnLoading PROVE IInv'
<1>1. /\ todo = <<>> /\ mode = "cli" /\ loading
      /\ UNCHANGED <<fpga, stray, left>> /\ UNCHANGED avrVars
      /\ mode' = "cli" /\ loading' = TRUE
      /\ todo' \in {WriteBlock} \cup {f \o WriteBlock : f \in FlashCall}
  BY DEF GoOnLoading, Calls
<1>2. FeedOK /\ cs # "low"
  BY <1>1, AtPrompt DEF IInv, PlaceOK
<1>3. Flows(FeedFlow)' /\ Place' \in {"drive", "ss1"} /\ todo' \in Seq(Ops)
  <2>1. <<"ddr0", "end">> \in FeedFlow
    BY DEF FeedFlow
  <2>2. CASE todo' = WriteBlock
    BY <2>1, <2>2, FeedPaths, CallFlows
  <2>3. ASSUME NEW f \in FlashCall, todo' = f \o WriteBlock
        PROVE  Flows(FeedFlow)' /\ Place' = "ss1" /\ todo' \in Seq(Ops)
    BY <2>1, <2>3, FeedPaths, CallFlows
  <2> QED
    BY <1>1, <2>2, <2>3
<1>4. /\ Loads' /\ (seen' = 1 \/ TakesOver') /\ cs' # "low"
  BY <1>1, <1>2 DEF FeedOK, Loads, TakesOver, avrVars
<1>5. FeedOK'
  BY <1>3, <1>4 DEF FeedOK, SpiOK
<1>6. TypeOK'
  BY <1>1, <1>3, CallTypes DEF IInv
<1> QED
  BY <1>1, <1>5, <1>6 DEF IInv, PlaceOK, CliOK

LEMMA EndLoadKeeps == ASSUME IInv, EndLoad PROVE IInv'
<1>1. /\ todo = <<>> /\ mode = "cli" /\ loading
      /\ UNCHANGED <<fpga, stray, left>> /\ UNCHANGED avrVars
      /\ mode' = "cli" /\ loading' = TRUE /\ todo' = FinishConfig \o <<"done?">>
  BY DEF EndLoad, Calls
<1>2. FeedOK /\ cs # "low"
  BY <1>1, AtPrompt DEF IInv, PlaceOK
<1>3. Flows(FinishFlow)' /\ Place' = "hiz" /\ todo' \in Seq(Ops) /\ todo' # <<>>
  <2>1. <<"done?", "end">> \in FinishFlow
    BY DEF FinishFlow
  <2> QED
    BY <1>1, <2>1, FinishPath, CallFlows
<1>4. Loads' /\ cs' # "low"
  BY <1>1, <1>2 DEF FeedOK, Loads, avrVars
<1>5. FinishOK'
  BY <1>3, <1>4 DEF FinishOK
<1>6. TypeOK'
  BY <1>1, <1>3, CallTypes DEF IInv
<1> QED
  BY <1>1, <1>5, <1>6 DEF IInv, PlaceOK, CliOK

LEMMA FinishedKeeps == ASSUME IInv, Finished PROVE IInv'
<1>1. /\ todo = <<"done?">> /\ Place = "done?" /\ loading' = FALSE
      /\ UNCHANGED <<fpga, stray, left>> /\ UNCHANGED avrVars
      /\ UNCHANGED <<ddrb, cs, rw>>
  BY DEF Finished, Place, avrVars
<1>2. ASSUME NEW E, Flows(E) PROVE <<"done?", "end">> \in E
  BY <1>1, <1>2 DEF Flows
<1>3. ~FirstBlockOK
  <2>1. todo[1] = "done?"
    BY <1>1
  <2> QED
    BY <2>1, FirstBlockHead DEF FirstBlockOK, IInv
<1>4. /\ ~Flows(BootFlow) /\ ~Flows(PrepareFlow) /\ ~Flows(ResetFlow) /\ ~Flows(AppFlow)
      /\ ~Flows(FlashFlow) /\ ~Flows(FeedFlow)
  BY <1>2 DEF BootFlow, PrepareFlow, ResetFlow, AppFlow, FlashFlow, FeedFlow, SpiFlow
<1>5. mode = "cli" /\ FinishOK
  BY <1>3, <1>4 DEF IInv, PlaceOK, TypeOK, BootOK, MainOK, AppOK, IrqOK, CliOK, FlashOK, FeedOK
<1>6. cs # "low" /\ rw # "float" /\ ddrb = "in"
  BY <1>1, <1>5 DEF FinishOK, Loads
<1>7. CASE fpga = "running"
  <2>1. todo' = PreparePorts /\ mode' = "main"
    BY <1>7 DEF Finished
  <2>2. Flows(PrepareFlow)' /\ Place' = "pd0in" /\ todo' \in Seq(Ops)
    <3>1. <<"zero", "end">> \in PrepareFlow
      BY DEF PrepareFlow
    <3> QED
      BY <2>1, <3>1, OtherPaths, CallFlows
  <2>3. MainOK'
    BY <1>1, <1>6, <2>2 DEF MainOK
  <2>4. TypeOK'
    BY <1>1, <2>1, <2>2, CallTypes DEF IInv
  <2> QED
    BY <2>1, <2>3, <2>4 DEF IInv, PlaceOK
<1>8. CASE fpga # "running"
  <2>1. todo' = <<>> /\ mode' = "cli"
    BY <1>5, <1>8 DEF Finished
  <2>2. FlashOK'
    BY <1>1, <1>6, <1>8, <2>1, ToPrompt
  <2>3. TypeOK'
    <3>1. todo' \in Seq(Ops)
      BY <2>1
    <3> QED
      BY <1>1, <2>1, <3>1, CallTypes DEF IInv
  <2> QED
    BY <2>1, <2>2, <2>3 DEF IInv, PlaceOK, CliOK
<1> QED
  BY <1>7, <1>8

LEMMA AppTransferKeeps == ASSUME IInv, AppTransfer PROVE IInv'
<1>1. /\ mode = "app" /\ mode' = "app" /\ loading' = FALSE
      /\ UNCHANGED <<fpga, stray, left>> /\ UNCHANGED avrVars
      /\ UNCHANGED <<ddrb, cs, rw>>
  BY DEF AppTransfer, Calls, avrVars
<1>2. PICK f \in Transfers : todo' = f
  BY DEF AppTransfer, Calls
<1>3. Flows(AppFlow)' /\ Place' \in {"ddr0", "ddr1"} /\ todo' \in Seq(Ops)
  <2>1. PICK a \in {"ddr0", "ddr1"}, b \in {"byte", "rw1"} : Path(f, a, b, AppFlow)
    BY TransferPaths
  <2>2. <<b, "end">> \in AppFlow
    BY DEF AppFlow
  <2> QED
    BY <1>2, <2>1, <2>2, CallFlows
<1>4. AppOK'
  BY <1>1, <1>3 DEF IInv, PlaceOK, AppOK
<1>5. TypeOK'
  BY <1>1, <1>3, CallTypes DEF IInv
<1> QED
  BY <1>1, <1>4, <1>5 DEF IInv, PlaceOK

LEMMA ReconfigureKeeps == ASSUME IInv, Reconfigure PROVE IInv'
<1>1. /\ mode = "app" /\ mode' = "main" /\ loading' = FALSE /\ todo' = XilinxReset
      /\ UNCHANGED <<fpga, stray, left>> /\ UNCHANGED avrVars
      /\ UNCHANGED <<ddrb, cs, rw>>
  BY DEF Reconfigure, Calls, avrVars
<1>2. Flows(ResetFlow)' /\ Place' = "prog0" /\ todo' \in Seq(Ops)
  <2>1. <<"ones", "end">> \in ResetFlow
    BY DEF ResetFlow
  <2> QED
    BY <1>1, <2>1, OtherPaths, CallFlows
<1>3. MainOK'
  BY <1>1, <1>2 DEF IInv, PlaceOK, AppOK, MainOK
<1>4. TypeOK'
  BY <1>1, <1>2, CallTypes DEF IInv
<1> QED
  BY <1>1, <1>3, <1>4 DEF IInv, PlaceOK

(***************************************************************************)
(* The interrupt, resets and power losses                                  *)
(***************************************************************************)

LEMMA MagicBaudKeeps == ASSUME IInv, MagicBaud PROVE IInv'
<1>1. /\ mode \in {"main", "cli", "app"} /\ mode' = "irq" /\ loading' = loading
      /\ UNCHANGED <<fpga, stray>> /\ UNCHANGED avrVars /\ UNCHANGED <<ddrb, cs, rw>>
      /\ left.baud > 0 /\ left' = [left EXCEPT !.baud = @ - 1]
      /\ todo' \in {XilinxReset, <<>>}
  BY DEF IInv, TypeOK, MagicBaud, avrVars
<1>2. left' \in [baud : Nat, restart : Nat, power : Nat]
  BY <1>1 DEF IInv, TypeOK
<1>3. Flows(ResetFlow)' /\ Place' \in {"prog0", "end"} /\ todo' \in Seq(Ops)
  <2>1. <<"ones", "end">> \in ResetFlow
    BY DEF ResetFlow
  <2>2. CASE todo' = XilinxReset
    BY <2>1, <2>2, OtherPaths, CallFlows
  <2>3. CASE todo' = <<>>
    BY <2>3, NothingFlows
  <2> QED
    BY <1>1, <2>2, <2>3
<1>4. /\ rw # "float" /\ (cs = "low" => ddrb # "out")
      /\ fpga = "running" /\ rw = "high" /\ ~loading => ddrb = "in"
  <2>1. CASE mode = "main"
    BY <2>1 DEF IInv, PlaceOK, MainOK
  <2>2. CASE mode = "app"
    BY <2>2 DEF IInv, PlaceOK, AppOK
  <2>3. CASE mode = "cli"
    <3>1. CASE FlashOK
      BY <3>1 DEF FlashOK, SpiOK
    <3>2. CASE FirstBlockOK
      BY <3>2 DEF FirstBlockOK
    <3>3. CASE FeedOK
      BY <3>3 DEF FeedOK, SpiOK, Loads
    <3>4. CASE FinishOK
      BY <3>4 DEF FinishOK, Loads
    <3> QED
      BY <2>3, <3>1, <3>2, <3>3, <3>4 DEF IInv, PlaceOK, CliOK
  <2> QED
    BY <1>1, <2>1, <2>2, <2>3
<1>5. IrqOK'
  BY <1>1, <1>3, <1>4 DEF IrqOK
<1>6. TypeOK'
  BY <1>1, <1>2, <1>3, CallTypes DEF IInv, TypeOK
<1> QED
  BY <1>1, <1>5, <1>6 DEF IInv, PlaceOK

LEMMA RestartedKeeps ==
  ASSUME NEW f \in {"reset", "empty", "running"}, Restarted(f),
         left' \in [baud : Nat, restart : Nat, power : Nat]
  PROVE  IInv'
<1>1. Flows(BootFlow)' /\ Place' = "rw0" /\ todo' \in Seq(Ops)
  <2>1. <<"deselect", "end">> \in BootFlow
    BY DEF BootFlow
  <2> QED
    BY <2>1, BootPath, CallFlows DEF Restarted
<1>2. BootOK' /\ mode' = "boot"
  BY <1>1 DEF BootOK, Restarted
<1>3. TypeOK'
  BY <1>1 DEF TypeOK, Restarted, Level
<1> QED
  BY <1>2, <1>3 DEF IInv, PlaceOK

LEMMA RestartsKeep == ASSUME IInv, Restart \/ PowerLoss PROVE IInv'
<1>1. left' \in [baud : Nat, restart : Nat, power : Nat]
  BY DEF IInv, TypeOK, Restart, PowerLoss
<1>2. CASE Restart
  <2>1. (IF fpga = "reset" THEN "empty" ELSE fpga) \in {"reset", "empty", "running"}
    BY DEF IInv, TypeOK
  <2> QED
    BY <1>1, <1>2, <2>1, RestartedKeeps DEF Restart
<1>3. CASE PowerLoss
  BY <1>1, <1>3, RestartedKeeps DEF PowerLoss
<1> QED
  BY <1>2, <1>3

LEMMA Starts == ASSUME Init PROVE IInv
<1>1. Flows(BootFlow) /\ Place = "rw0" /\ todo \in Seq(Ops)
  <2>1. <<"deselect", "end">> \in BootFlow
    BY DEF BootFlow
  <2>2. Path(todo, "rw0", "deselect", BootFlow)
    BY BootPath, Zenon DEF Init
  <2> QED
    BY <2>1, <2>2 DEF Path, Flows, Place
<1>2. BootOK /\ mode = "boot"
  BY <1>1 DEF BootOK, Init
<1>3. TypeOK
  BY <1>1, PinsAssumption DEF TypeOK, Init, Level
<1> QED
  BY <1>2, <1>3 DEF IInv, PlaceOK

(***************************************************************************)
(* Theorems                                                                *)
(***************************************************************************)

(* The annotations are an inductive invariant: each step of main, of the   *)
(* command line, of the application loop, of the drivers, of the interrupt *)
(* and of a reset leaves the pins as the next port operation expects them. *)
THEOREM PinsInvariance == Spec => []IInv
<1>1. Init => IInv
  BY Starts
<1>2. IInv /\ [Next]_vars => IInv'
  <2> SUFFICES ASSUME IInv, [Next]_vars PROVE IInv'
    OBVIOUS
  <2>1. CASE Caller
    BY <2>1, MainLoopKeeps, UseFlashKeeps, BeginLoadKeeps, GoOnLoadingKeeps, EndLoadKeeps,
       FinishedKeeps, AppTransferKeeps, ReconfigureKeeps DEF Caller
  <2>2. CASE Operation
    BY <2>2, OperationKeeps
  <2>3. CASE MagicBaud
    BY <2>3, MagicBaudKeeps
  <2>4. CASE Restart \/ PowerLoss
    BY <2>4, RestartsKeep
  <2>5. CASE UNCHANGED vars
    <3>1. UNCHANGED <<mode, todo, loading, ddrb, port, ss, seen, spi, cs, pd0, rw, fpga,
                      stray, left>>
      BY <2>5 DEF vars
    <3> QED
      BY <3>1 DEF IInv, TypeOK, PlaceOK, Place, Flows, BootOK, MainOK, AppOK, CliOK,
         FlashOK, FirstBlockOK, FeedOK, FinishOK, IrqOK, SpiOK, Loads, InFirstBlock, TakesOver
  <2> QED
    BY <2>1, <2>2, <2>3, <2>4, <2>5 DEF Next
<1> QED
  BY <1>1, <1>2, PTL DEF Spec

(* Every pin, register and device stays in its domain.                     *)
THEOREM PinsTypes == Spec => []TypeOK
<1>1. IInv => TypeOK
  BY DEF IInv
<1> QED
  BY <1>1, PinsInvariance, PTL

LEMMA OneDriverHolds == IInv => OneDriver
<1> SUFFICES ASSUME IInv PROVE OneDriver
  OBVIOUS
<1>1. CASE mode = "boot"
  <2>1. BootOK
    BY <1>1 DEF IInv, PlaceOK
  <2>2. rw = "float" => ddrb = "in"
    BY <2>1 DEF BootOK
  <2> QED
    BY <1>1, <2>1, <2>2 DEF BootOK, OneDriver, DesignDrives
<1>2. CASE mode = "main"
  BY <1>2 DEF IInv, PlaceOK, MainOK, OneDriver, DesignDrives, TypeOK, Level
<1>3. CASE mode = "app"
  BY <1>3 DEF IInv, PlaceOK, AppOK, OneDriver, DesignDrives, TypeOK, Level
<1>4. CASE mode = "irq"
  <2>1. IrqOK
    BY <1>4 DEF IInv, PlaceOK
  <2>2. rw # "low" => rw = "high"
    BY <2>1 DEF IInv, TypeOK, Level, IrqOK
  <2> QED
    BY <1>4, <2>1, <2>2, Zenon DEF IrqOK, OneDriver, DesignDrives, TakesOver
<1>5. CASE mode = "cli"
  <2>1. rw \notin {"low", "float"} => rw = "high"
    BY DEF IInv, TypeOK, Level
  <2>2. CASE FlashOK
    BY <2>2 DEF FlashOK, SpiOK, OneDriver, DesignDrives
  <2>3. CASE FirstBlockOK
    BY <2>1, <2>3 DEF FirstBlockOK, OneDriver, DesignDrives, TakesOver
  <2>4. CASE FeedOK
    BY <2>1, <2>4 DEF FeedOK, SpiOK, Loads, OneDriver, DesignDrives, TakesOver
  <2>5. CASE FinishOK
    BY <2>1, <2>5 DEF FinishOK, Loads, OneDriver, DesignDrives, TakesOver
  <2> QED
    BY <1>5, <2>2, <2>3, <2>4, <2>5 DEF IInv, PlaceOK, CliOK
<1> QED
  BY <1>1, <1>2, <1>3, <1>4, <1>5 DEF IInv, TypeOK

(* No line of port B ever has two drivers.                                 *)
THEOREM LinesOneDriver == Spec => []OneDriver
BY OneDriverHolds, PinsInvariance, PTL

(* "xfer" is next only in a conversation with the flash chip.              *)
LEMMA XferPlace ==
  ASSUME IInv, todo # <<>>, Head(todo) = "xfer"
  PROVE  mode = "cli" /\ SpiOK /\ Place = "xfer"
<1>1. Place = "xfer" /\ Len(todo) \in Nat /\ Len(todo) > 0 /\ todo[1] = "xfer"
  BY DEF Place, IInv, TypeOK
<1>2. ASSUME NEW E, Flows(E) PROVE \E n : <<"xfer", n>> \in E
  <2>1. CASE Len(todo) = 1
    BY <1>1, <1>2, <2>1 DEF Flows
  <2>2. CASE Len(todo) > 1
    <3>1. 1 \in 1 .. Len(todo) - 1
      BY <1>1, <2>2
    <3> QED
      BY <1>1, <1>2, <3>1 DEF Flows
  <2>3. Len(todo) = 1 \/ Len(todo) > 1
    BY <1>1
  <2> QED
    BY <2>1, <2>2, <2>3, Zenon
<1>3. /\ ~Flows(BootFlow) /\ ~Flows(PrepareFlow) /\ ~Flows(ResetFlow) /\ ~Flows(AppFlow)
      /\ ~Flows(FinishFlow)
  <2>1. ASSUME NEW n, NEW E \in {BootFlow, PrepareFlow, ResetFlow, AppFlow, FinishFlow}
        PROVE  <<"xfer", n>> \notin E
    BY DEF BootFlow, PrepareFlow, ResetFlow, AppFlow, FinishFlow
  <2> QED
    BY <1>2, <2>1, Zenon
<1>4. ~FirstBlockOK
  BY <1>1, FirstBlockHead DEF FirstBlockOK, IInv
<1> QED
  BY <1>1, <1>3, <1>4 DEF IInv, TypeOK, PlaceOK, BootOK, MainOK, AppOK, IrqOK, CliOK,
     FlashOK, FeedOK, FinishOK

LEMMA SpiMasterHolds == IInv => SpiMaster
BY XferPlace DEF SpiMaster, SpiOK

(* A byte for the flash chip always finds an SPI that is its master: SS,   *)
(* which is a data line of the FPGA, was seen high before.                 *)
THEOREM SpiStaysMaster == Spec => []SpiMaster
BY SpiMasterHolds, PinsInvariance, PTL

LEMMA CleanFeedHolds == IInv => CleanFeed
<1> SUFFICES ASSUME IInv, loading, fpga # "running", todo # <<>>, Head(todo) # "prog0"
             PROVE  ~stray
  BY DEF CleanFeed
<1>1. Place # "prog0" /\ Place # "end" /\ todo[1] # "prog0"
  <2>1. Head(todo) # "end"
    <3>1. Head(todo) \in Ops
      BY DEF IInv, TypeOK
    <3> QED
      BY <3>1 DEF Ops
  <2> QED
    BY <2>1 DEF Place, IInv, TypeOK
<1>2. CASE mode = "cli"
  <2>1. CASE FirstBlockOK
    <3>1. Len(todo) \in 1 .. 10 /\ Len(todo) # 10
      <4>1. Len(todo) \in 1 .. 10 /\ (Len(todo) = 10 => todo[1] = "prog0")
        BY <2>1, FirstBlockHead DEF FirstBlockOK, IInv
      <4> QED
        BY <1>1, <4>1, Zenon
    <3>2. Len(todo) \in 7 .. 9 \/ Len(todo) < 7
      <4>1. ASSUME NEW k \in 1 .. 10, k # 10 PROVE k \in 7 .. 9 \/ k < 7
        BY <4>1
      <4> QED
        BY <3>1, <4>1, Zenon
    <3> QED
      BY <2>1, <3>2 DEF FirstBlockOK
  <2>2. CASE FlashOK \/ FeedOK \/ FinishOK
    BY <2>2 DEF FlashOK, FeedOK, FinishOK, Loads
  <2> QED
    BY <1>2, <2>1, <2>2 DEF IInv, PlaceOK, CliOK
<1>3. CASE mode = "irq"
  BY <1>1, <1>3 DEF IInv, PlaceOK, IrqOK
<1>4. CASE mode \in {"boot", "main", "app"}
  BY <1>4 DEF IInv, PlaceOK, BootOK, MainOK, AppOK
<1> QED
  BY <1>2, <1>3, <1>4 DEF IInv, TypeOK

(* The FPGA that is being loaded sees the bytes of the file and the clocks *)
(* of its start, and nothing of the SPI or of UCIF in between.             *)
THEOREM FeedClean == Spec => []CleanFeed
BY CleanFeedHolds, PinsInvariance, PTL
=============================================================================
