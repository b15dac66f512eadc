-------------------------------- MODULE Pins --------------------------------
(***************************************************************************)
(* The pins that several drivers share.  Port B is the SPI of the flash    *)
(* chip, the configuration data of the FPGA and the data of UCIF, PD0 is   *)
(* CCLK and the DDR line of UCIF.  Each driver sets up the pins for itself *)
(* and trusts the others to have left them alone.                          *)
(*                                                                         *)
(* A function of a driver is the sequence of its port operations; todo     *)
(* holds the ones the running function still has to do.  main, the command *)
(* line and the application loop call the drivers, the interrupt of the    *)
(* magic baud rates calls XilinxReset at any place and does not return.    *)
(***************************************************************************)
EXTENDS Integers, Sequences

CONSTANTS Byte,    (* values of configuration data and of UCIF *)
          Budget   (* bounds the interrupts, resets and power losses *)

ASSUME PinsAssumption ==
  Byte \subseteq Nat /\ Budget \in [baud : Nat, restart : Nat, power : Nat]

VARIABLES
  mode,      (* "boot", "main", "cli", "app", "irq" *)
  todo,      (* port operations left in the functions called *)
  loading,   (* XilinxReset done, XilinxFinishConfig not yet over *)
  ddrb,      (* DDRB: "in", "out", "spi" (MOSI, SCK and SS are outputs) *)
  port,      (* PORTB: "zero", "ones", "byte" *)
  ss,        (* PORTB bit 0, the SS line of the SPI *)
  seen,      (* the last level the SPI saw on SS as an input *)
  spi,       (* SPCR: "off", "master"; "slave" when SS took the bus away *)
  cs,        (* chip select of the flash: "float", "low", "high" *)
  pd0,       (* [out : BOOLEAN, bit : {0, 1}] *)
  rw,        (* "float", "low", "high" *)
  fpga,      (* "reset", "empty", "running" *)
  stray,     (* it got a clock that was no byte of XilinxWriteBlock *)
  left

avrVars == <<ddrb, port, ss, seen, spi, cs, pd0, rw>>
vars == <<mode, todo, loading, ddrb, port, ss, seen, spi, cs, pd0, rw, fpga,
          stray, left>>

-----------------------------------------------------------------------------
(* The functions of the drivers                                            *)

BaseInitDrives == <<"zero", "drive", "rw0", "ddr0", "pd0out">>
                                              (* mutant of BaseInit *)
BaseInit == <<"rw0", "zero", "drive", "ddr0", "pd0out">>     (* ucifBaseInit *)
PreparePorts == <<"pd0in", "ddr0", "hiz", "zero">>     (* XilinxPreparePorts *)
SpiBaseInit == <<"deselect">>                               (* spiBaseInitHw *)

XilinxReset == <<"prog0", "ddr0", "pd0out", "prog1", "hiz", "ones">>
BlockUndriven == <<"byte", "clock1", "ddr0">>           (* mutant of WriteBlock *)
WriteBlock == <<"drive", "byte", "clock1", "ddr0">>         (* for each byte *)
FinishConfig == <<"hiz", "ones", "clock1", "ddr0", "clock1", "ddr0">>

SetupBlind == <<"spiDir", "spiOn">>                       (* mutant of SetupSpi *)
SetupSpi == <<"ss1", "spiDir", "spiOn">>                (* setupSpiAsMaster *)
Command == <<"select", "xfer", "deselect">>
ReleaseSpi == <<"deselect", "hiz", "spiOff">>                (* spiReleaseHw *)
FlashCall ==                  (* getFlashChipID, readFlash; erase, writeFlash *)
  {SetupSpi \o Command \o ReleaseSpi, SetupSpi \o Command \o Command \o ReleaseSpi}

Transfers ==                             (* the transfers of applicationLoop *)
  {<<"ddr0", "rw0", "drive", "byte">>, <<"ddr1", "rw0", "drive", "byte">>,
   <<"ddr0", "rw0", "drive", "byte", "hiz", "rw1">>, <<"ddr1", "hiz", "rw1">>}

-----------------------------------------------------------------------------
(* Who calls them                                                          *)

Calls(functions, m, l) ==
  /\ todo = <<>>
  /\ todo' \in functions /\ mode' = m /\ loading' = l
  /\ UNCHANGED <<fpga, stray, left>> /\ UNCHANGED avrVars

(* main looks at DONE. *)
MainLoop ==
  /\ mode \in {"boot", "main"}
  /\ IF fpga = "running" THEN Calls({BaseInit}, "app", FALSE)
                         ELSE Calls({<<>>}, "cli", FALSE)

(* The flash is read for FlashInfo and to be loaded, erased and written.   *)
UseFlash == mode = "cli" /\ ~loading /\ Calls(FlashCall, "cli", FALSE)

BeginLoad ==
  /\ mode = "cli" /\ ~loading
  /\ Calls({XilinxReset \o WriteBlock}, "cli", TRUE)

(* The next block comes from USB or from the flash. *)
GoOnLoading ==
  /\ mode = "cli" /\ loading
  /\ Calls({WriteBlock} \cup {f \o WriteBlock : f \in FlashCall}, "cli", TRUE)

EndLoad ==
  mode = "cli" /\ loading /\ Calls({FinishConfig \o <<"done?">>}, "cli", TRUE)

(* XilinxFinishConfig returns: DONE decides. *)
Finished ==
  /\ todo = <<"done?">> /\ loading' = FALSE
  /\ IF fpga = "running" THEN todo' = PreparePorts /\ mode' = "main"
                         ELSE todo' = <<>> /\ UNCHANGED mode
  /\ UNCHANGED <<fpga, stray, left>> /\ UNCHANGED avrVars

AppTransfer == mode = "app" /\ Calls(Transfers, "app", FALSE)

Reconfigure == mode = "app" /\ Calls({XilinxReset}, "main", FALSE)     (* #R *)

(* The line encoding is set to 2400 or 1200 baud; the watchdog ends it.    *)
MagicBaud ==
  /\ mode \notin {"boot", "irq"} /\ left.baud > 0
  /\ left' = [left EXCEPT !.baud = @ - 1]
  /\ mode' = "irq" /\ todo' \in {XilinxReset, <<>>} /\ UNCHANGED loading
  /\ UNCHANGED <<fpga, stray>> /\ UNCHANGED avrVars

-----------------------------------------------------------------------------
(* Port operations                                                         *)

Does(op) ==
  /\ todo # <<>> /\ Head(todo) = op /\ todo' = Tail(todo)
  /\ UNCHANGED <<mode, loading, left>>

(* The logic in the FPGA drives its data pins while RW is 1, or floats. *)
DesignDrives == fpga = "running" /\ rw # "low"

(* As an input, SS has its pull-up or what the FPGA drives. *)
LooksAtSs ==
  seen' \in IF ddrb' # "in" THEN {seen}
            ELSE IF DesignDrives THEN {0, 1} ELSE {ss'}

Bit0Raw(b) == b                                            (* mutant of Bit0 *)
Bit0(b) == b % 2

PortB ==
  /\ \/ Does("drive") /\ ddrb' = "out" /\ UNCHANGED <<port, ss>>
     \/ Does("hiz") /\ ddrb' = "in" /\ UNCHANGED <<port, ss>>
     \/ Does("spiDir") /\ ddrb' = "spi" /\ UNCHANGED <<port, ss>>
     \/ Does("zero") /\ port' = "zero" /\ ss' = 0 /\ UNCHANGED ddrb
     \/ Does("ones") /\ port' = "ones" /\ ss' = 1 /\ UNCHANGED ddrb
     \/ Does("ss1") /\ port' = (IF port = "ones" THEN port ELSE "byte") /\ ss' = 1
        /\ UNCHANGED ddrb
     \/ Does("byte") /\ port' = "byte" /\ (\E b \in Byte : ss' = Bit0(b))
        /\ UNCHANGED ddrb
  /\ LooksAtSs
  /\ UNCHANGED <<spi, cs, pd0, rw, fpga, stray>>

(* A low SS seen before takes the SPI out of master mode at once. *)
FlashPins ==
  /\ \/ Does("spiOn") /\ spi' = (IF seen = 1 THEN "master" ELSE "slave")
        /\ UNCHANGED cs
     \/ Does("spiOff") /\ spi' = "off" /\ UNCHANGED cs
     \/ Does("select") /\ cs' = "low" /\ UNCHANGED spi
     \/ Does("deselect") /\ cs' = "high" /\ UNCHANGED spi
     \/ Does("xfer") /\ spi = "master" /\ UNCHANGED <<spi, cs>>
  /\ UNCHANGED <<ddrb, port, ss, seen, pd0, rw, fpga, stray>>

(* PROGRAM_B *)
Program ==
  /\ \/ Does("prog0") /\ fpga' = "reset" /\ stray' = FALSE
     \/ Does("prog1") /\ fpga' = "empty" /\ UNCHANGED stray
  /\ UNCHANGED avrVars

ControlPins ==
  /\ \/ Does("rw0") /\ rw' = "low" /\ UNCHANGED pd0
     \/ Does("rw1") /\ rw' = "high" /\ UNCHANGED pd0
     \/ Does("ddr0") /\ pd0' = [pd0 EXCEPT !.bit = 0] /\ UNCHANGED rw
     \/ Does("pd0in") /\ pd0' = [pd0 EXCEPT !.out = FALSE] /\ UNCHANGED rw
     \/ Does("pd0out") /\ pd0' = [pd0 EXCEPT !.out = TRUE] /\ UNCHANGED rw
  /\ UNCHANGED <<ddrb, port, ss, seen, spi, cs, fpga, stray>>

(* A byte, or the pull-ups of XilinxFinishConfig, and nobody else's data.  *)
DataValid ==
  /\ pd0.out /\ cs # "low"
  /\ \/ ddrb = "out" /\ port = "byte"
     \/ ddrb = "in" /\ port = "ones"

(* The rising edge of CCLK, or of DDR when there is no design: any byte    *)
(* may be the one that starts the design.                                  *)
Clock ==
  /\ Does("clock1") \/ Does("ddr1")
  /\ pd0' = [pd0 EXCEPT !.bit = 1]
  /\ fpga' \in IF fpga = "empty" /\ loading THEN {"empty", "running"} ELSE {fpga}
  /\ stray' = (stray \/ (fpga = "empty" /\ ~DataValid))
  /\ UNCHANGED <<ddrb, port, ss, seen, spi, cs, rw>>

-----------------------------------------------------------------------------
(* Reset of the microcontroller, and power loss: all pins are inputs, and  *)
(* a floating CCLK may clock the FPGA.                                     *)
Restarted(f) ==
  /\ mode' = "boot" /\ todo' = BaseInit \o PreparePorts \o SpiBaseInit
  /\ loading' = FALSE
  /\ ddrb' = "in" /\ port' = "zero" /\ ss' = 0 /\ seen' = 0 /\ spi' = "off"
  /\ cs' = "float" /\ pd0' = [out |-> FALSE, bit |-> 0] /\ rw' = "float"
  /\ fpga' = f /\ stray' = TRUE

Restart ==
  /\ \/ mode = "irq" /\ todo = <<>> /\ UNCHANGED left
     \/ left.restart > 0 /\ left' = [left EXCEPT !.restart = @ - 1]
  /\ Restarted(IF fpga = "reset" THEN "empty" ELSE fpga)

PowerLoss ==
  /\ left.power > 0 /\ left' = [left EXCEPT !.power = @ - 1]
  /\ Restarted("empty")

Init ==
  /\ mode = "boot" /\ todo = BaseInit \o PreparePorts \o SpiBaseInit
  /\ loading = FALSE
  /\ ddrb = "in" /\ port = "zero" /\ ss = 0 /\ seen = 0 /\ spi = "off"
  /\ cs = "float" /\ pd0 = [out |-> FALSE, bit |-> 0] /\ rw = "float"
  /\ fpga = "empty" /\ stray = TRUE /\ left = Budget

Caller ==
  \/ MainLoop \/ UseFlash \/ BeginLoad \/ GoOnLoading \/ EndLoad \/ Finished
  \/ AppTransfer \/ Reconfigure

Operation == PortB \/ FlashPins \/ Program \/ ControlPins \/ Clock

Next == Caller \/ Operation \/ MagicBaud \/ Restart \/ PowerLoss

Spec == Init /\ [][Next]_vars

-----------------------------------------------------------------------------
(* Properties                                                              *)

Ops == {"rw0", "rw1", "zero", "ones", "byte", "ss1", "drive", "hiz", "spiDir",
        "ddr0", "ddr1", "pd0in", "pd0out", "clock1", "prog0", "prog1", "spiOn",
        "spiOff", "select", "deselect", "xfer", "done?"}

Level == {"float", "low", "high"}

TypeOK ==
  /\ mode \in {"boot", "main", "cli", "app", "irq"} /\ todo \in Seq(Ops)
  /\ loading \in BOOLEAN /\ ddrb \in {"in", "out", "spi"}
  /\ port \in {"zero", "ones", "byte"} /\ ss \in {0, 1} /\ seen \in {0, 1}
  /\ spi \in {"off", "master", "slave"} /\ cs \in Level
  /\ pd0 \in [out : BOOLEAN, bit : {0, 1}] /\ rw \in Level
  /\ fpga \in {"reset", "empty", "running"} /\ stray \in BOOLEAN
  /\ left \in [baud : Nat, restart : Nat, power : Nat]

(* A design that starts while it is still being loaded finds RW as the     *)
(* last packet before #R has left it: the finding of AppLoop's TakeOver.   *)
TakesOver == loading /\ fpga = "running" /\ rw = "high"

(* Never two drivers on a line of port B: the flash chip has MISO only as  *)
(* long as the AVR has it as an input, the design drives only while the    *)
(* whole port is an input.                                                 *)
OneDriver ==
  /\ cs = "low" /\ mode # "irq" => ddrb = "spi"
  /\ cs = "low" => ddrb # "out"
  /\ DesignDrives /\ ~TakesOver => ddrb = "in"

(* xfer does not wait for ever: whatever the other drivers have done to    *)
(* port B, the SPI is the master when a byte is to be sent.                *)
SpiMaster ==
  todo # <<>> /\ Head(todo) = "xfer" /\ ~TakesOver =>
    spi = "master" /\ ddrb = "spi" /\ cs = "low"

(* While a file is loaded the FPGA gets its bytes and the clocks for its   *)
(* start, and nothing else: no level of the SPI and no edge of DDR.        *)
CleanFeed == loading /\ fpga # "running" /\ todo # <<>> /\ Head(todo) # "prog0" => ~stray

=============================================================================
