------------------------------- MODULE MojoOs -------------------------------
(***************************************************************************)
(* The Mojo OS firmware as a whole: main()'s loop, the command line that   *)
(* configures the FPGA and stores bitstreams (commandLineInterface), the   *)
(* loader of fpga.c, writeFlash's programming order, the interrupt that    *)
(* serves the "magic" baud rates, the watchdog, and around it the host,    *)
(* the USB endpoint, the FPGA and the flash chip.                          *)
(*                                                                         *)
(* The CPU is one sequential process: mode says which function it runs,    *)
(* cli is cliState and pc the place in an iteration of the CLI's loop.     *)
(* One step is as much as the code does between two places where the host, *)
(* the bus or a reset can make a difference: one poll of the endpoint, one *)
(* byte out of it, one word into the flash.                                *)
(*                                                                         *)
(* The application loop appears here only as the consumer of the endpoint  *)
(* that a #R packet ends.                                                  *)
(***************************************************************************)
EXTENDS Bitstream, FiniteSets

CONSTANTS
  BufLen,     (* sizeof(aBuffer), 1800 *)
  EpSize,     (* CDC_TXRX_EPSIZE, 64 *)
  FlashLen,   (* cells of the flash chip; reads wrap around *)
  KeyIdx,     (* offset in aBuffer of the cell cfgKeyPtr points to; BufLen *)
              (* if the build places the buffer elsewhere                  *)
  KeyBytes,   (* bytes that make that cell equal 0x1234 *)
  Budget      (* bounds on what the environment does, a record: cmd typed  *)
              (* commands, file files sent, baud magic baud rates, reset   *)
              (* buttons and power losses, drop bus events, fault failed   *)
              (* configurations of a complete design                       *)

ASSUME SizeAssumption ==
  /\ BufLen \in Nat /\ EpSize \in Nat \ {0} /\ FlashLen \in Nat \ {0}
  /\ KeyIdx \in Nat
  /\ DataStart + EpSize <= BufLen   (* a header fits the buffer's safe part *)
  /\ BufLen <= MaxSize

ASSUME BudgetAssumption ==
  Budget \in [cmd : Nat, file : Nat, baud : Nat, reset : Nat, drop : Nat, fault : Nat]

VARIABLES
  mode,      (* "main", "cli", "app", "unwind" (#R seen), "halt" (an ISR    *)
             (* waits for the watchdog), "loader" (Caterina)                *)
  cli,       (* cliState *)
  src,       (* cfgSrc *)
  pc,        (* "poll", "take", "act", "write", "erase" *)
  n, cnt,    (* bytes still to take and rxCount of this iteration *)
  wr,        (* bytes of the current writeFlash block already programmed *)
  flashAddr, fileSize, aBuffer,
  cfgKey, bootKey,
  flash,     (* contents of the SPI flash *)
  deaf,      (* it was left in the mode for words: it answers nothing *)
  rx, done,  (* bytes the FPGA got since PROGRAM_B, and its DONE pin *)
  usb, ep,   (* "on": Configured and a baud rate set; the OUT bank *)
  hfile, hpos,          (* the file the host sends, bytes of it sent *)
  manual,    (* the user asked for the command line and gave no command yet *)
  left       (* what remains of Budget *)

cpuVars  == <<mode, cli, src, pc, n, cnt, wr, flashAddr, fileSize, aBuffer>>
fpgaVars == <<rx, done>>
hostVars == <<hfile, hpos>>
vars == <<mode, cli, src, pc, n, cnt, wr, flashAddr, fileSize, aBuffer, cfgKey,
          bootKey, flash, deaf, rx, done, usb, ep, hfile, hpos, manual, left>>

CliState == {"WAIT", "HELP", "INFO", "PROMPT", "LISTEN", "TRIGGER", "CFG_INTRO",
             "CFG_BODY", "FINISH", "ST_INTRO", "ST_BODY"}
NoFile == "none"

(* Bytes of different origin are different, and a host has a file to send. *)
ASSUME NameAssumption ==
  /\ File # {} /\ NoFile \notin File /\ "blank" \notin File
  /\ File \cap Command = {}

Garbage == <<"blank", 1>>
ErasedFlash == [a \in 0 .. FlashLen - 1 |-> Blank]
Sending == hfile # NoFile /\ hpos < FileLen(hfile)

(* Unsigned arithmetic of fileSize (uint32_t). *)
Wrap(x) == x % (MaxSize + 1)
MinusSkipsOne(x, y) == Wrap(x + MaxSize - y)          (* mutant of Minus *)
Minus(x, y) == Wrap(x + (MaxSize + 1) - y)

ThresholdFull == BufLen - 1                           (* mutant of Threshold *)

(* The longest aBuffer fill that still leaves room for a USB packet. *)
Threshold == BufLen - EpSize

-----------------------------------------------------------------------------
(* Helpers of the drivers: the endpoint, the flash, the FPGA.              *)

(* CDC_Device_BytesReceived *)
BytesReceived == IF usb = "on" THEN Len(ep) ELSE 0

(* CDC_Device_ReceiveByte, the -1 of an empty endpoint cut to a uint8_t *)
ReceivedByte == IF usb = "on" /\ ep # <<>> THEN Head(ep) ELSE Blank
AfterReceive == IF usb = "on" /\ ep # <<>> THEN Tail(ep) ELSE ep

(* The key cell lies inside aBuffer: whoever fills the buffer sets it. *)
KeyIn(b) == IF b \in KeyBytes THEN "magic" ELSE "other"

FlashBlockLate(address) ==                            (* mutant of FlashBlock *)
  [i \in 0 .. BufLen - 1 |-> IF deaf THEN Blank ELSE flash[(address + i + 1) % FlashLen]]

(* readFlash(aBuffer, address, sizeof(aBuffer)) *)
FlashBlock(address) ==
  [i \in 0 .. BufLen - 1 |-> IF deaf THEN Blank ELSE flash[(address + i) % FlashLen]]

FillBuffer(address) ==
  /\ aBuffer' = FlashBlock(address)
  /\ cfgKey' = IF KeyIdx < BufLen THEN KeyIn(FlashBlock(address)[KeyIdx])
                                  ELSE cfgKey

(* Programming clears bits: only an erased cell takes any value. *)
Programmed(old, new) ==
  IF old = Blank THEN new ELSE IF new \in {old, Blank} THEN old ELSE Garbage

SliceLate(buffer, from, len) ==                       (* mutant of Slice *)
  [i \in 1 .. len |-> buffer[(from + i) % BufLen]]

(* A slice of a buffer as the sequence of bytes clocked out. *)
Slice(buffer, from, len) == [i \in 1 .. len |-> buffer[from + i - 1]]

(* XilinxReset: PROGRAM_B clears the configuration. *)
XilinxReset == rx' = <<>> /\ done' = FALSE

(* XilinxWriteBlock after which the FPGA has got bytes.  The clocks of the *)
(* padding may already finish the start-up, so DONE may rise here.         *)
Fed(bytes, wasDone) ==
  /\ rx' = bytes
  /\ done' \in IF DesignLoaded(bytes) THEN {wasDone, TRUE} ELSE {wasDone}

-----------------------------------------------------------------------------
(* main                                                                    *)

(* One round of main's loop: the DONE pin decides.  commandLineInterface's *)
(* locals start afresh, its first state depends on the configuration key.  *)
MainLoop ==
  /\ mode = "main"
  /\ IF done
     THEN /\ mode' = "app"
          /\ UNCHANGED <<cli, src, flashAddr, fileSize>>
     ELSE /\ mode' = "cli"
          /\ flashAddr' = 0 /\ fileSize' = 0
          /\ IF cfgKey = "magic" THEN cli' = "WAIT" /\ src' = "none"
                                 ELSE cli' = "TRIGGER" /\ src' = "spi"
  /\ pc' = "poll" /\ n' = 0 /\ cnt' = 0 /\ wr' = 0
  /\ UNCHANGED <<aBuffer, cfgKey, bootKey, flash, deaf, usb, ep, manual, left>>
  /\ UNCHANGED fpgaVars /\ UNCHANGED hostVars

-----------------------------------------------------------------------------
(* commandLineInterface                                                    *)

At(state, place) == mode = "cli" /\ cli = state /\ pc = place

WaitForConnect ==
  /\ At("WAIT", "poll")
  /\ IF BytesReceived # 0
     THEN ep' = AfterReceive /\ cli' = "HELP" /\ manual' = FALSE
     ELSE UNCHANGED <<ep, cli, manual>>
  /\ UNCHANGED <<mode, src, pc, n, cnt, wr, flashAddr, fileSize, aBuffer>>
  /\ UNCHANGED <<cfgKey, bootKey, flash, deaf, usb, left>>
  /\ UNCHANGED fpgaVars /\ UNCHANGED hostVars

(* CLI_HELP and CLI_FLASH_INFO, which falls through to CLI_PROMPT. *)
FlashInfo ==
  /\ At("HELP", "poll") \/ At("INFO", "poll")
  /\ FillBuffer(0)
  /\ cli' = "PROMPT"
  /\ UNCHANGED <<mode, src, pc, n, cnt, wr, flashAddr, fileSize>>
  /\ UNCHANGED <<bootKey, flash, deaf, usb, ep, manual, left>>
  /\ UNCHANGED fpgaVars /\ UNCHANGED hostVars

(* CLI_PROMPT falls through to CLI_LISTEN: a packet of one byte is a       *)
(* command, any other one is thrown away.                                  *)
Listen ==
  /\ At("PROMPT", "poll") \/ At("LISTEN", "poll")
  /\ IF BytesReceived = 1
     THEN cli' = "PROMPT" /\ pc' = "take" /\ UNCHANGED ep
     ELSE /\ cli' = "LISTEN" /\ UNCHANGED pc
          /\ ep' = IF BytesReceived = 0 THEN ep ELSE <<>>
  /\ UNCHANGED <<mode, src, n, cnt, wr, flashAddr, fileSize, aBuffer>>
  /\ UNCHANGED <<cfgKey, bootKey, flash, deaf, usb, manual, left>>
  /\ UNCHANGED fpgaVars /\ UNCHANGED hostVars

(* What a received byte means to the CLI.  A byte of a file may be any     *)
(* character; Blank (0xFF) is no command.                                  *)
Meanings(b) == IF b[1] \in Command THEN {b[1]}
               ELSE IF b = Blank THEN {"other"} ELSE Command

TakeCommand ==
  /\ At("PROMPT", "take")
  /\ \E c \in Meanings(ReceivedByte) :
       /\ cli' = CASE c = "help"      -> "HELP"
                   [] c = "info"      -> "INFO"
                   [] c \in {"V","C"} -> "TRIGGER"
                   [] c = "W"         -> "ST_INTRO"
                   [] OTHER           -> "PROMPT"
       /\ src' = CASE c = "V" -> "usb" [] c = "C" -> "spi" [] OTHER -> src
       /\ pc' = IF c \in {"W", "E"} THEN "erase" ELSE "poll"
  /\ ep' = AfterReceive
  /\ UNCHANGED <<mode, n, cnt, wr, flashAddr, fileSize, aBuffer>>
  /\ UNCHANGED <<cfgKey, bootKey, flash, deaf, usb, manual, left>>
  /\ UNCHANGED fpgaVars /\ UNCHANGED hostVars

(* eraseFlash returns, for 'W' the CLI then asks for the file.  It never   *)
(* does from a chip that is deaf. *)
EraseDone ==
  /\ mode = "cli" /\ pc = "erase" /\ ~deaf
  /\ flash' = ErasedFlash
  /\ pc' = "poll"
  /\ IF cli = "ST_INTRO" THEN flashAddr' = 0 /\ fileSize' = 0
                         ELSE UNCHANGED <<flashAddr, fileSize>>
  /\ UNCHANGED <<mode, cli, src, n, cnt, wr, aBuffer, hfile, hpos>>
  /\ UNCHANGED <<cfgKey, bootKey, deaf, usb, ep, manual, left>>
  /\ UNCHANGED fpgaVars

TriggerConfig ==
  /\ At("TRIGGER", "poll")
  /\ flashAddr' = 0 /\ fileSize' = 0 /\ cli' = "CFG_INTRO"
  /\ UNCHANGED <<mode, src, pc, n, cnt, wr, aBuffer>>
  /\ UNCHANGED <<cfgKey, bootKey, flash, deaf, usb, ep, manual, left>>
  /\ UNCHANGED fpgaVars /\ UNCHANGED hostVars

(* The states that take a packet from the endpoint into aBuffer. *)
FromUsb ==
  /\ mode = "cli"
  /\ \/ cli \in {"CFG_INTRO", "CFG_BODY"} /\ src = "usb"
     \/ cli \in {"ST_INTRO", "ST_BODY"}

(* rxCount = CDC_Device_BytesReceived() *)
Poll ==
  /\ FromUsb /\ pc = "poll"
  /\ cnt' = BytesReceived /\ n' = BytesReceived
  /\ pc' = IF BytesReceived = 0 THEN "act" ELSE "take"
  /\ UNCHANGED <<mode, cli, src, wr, flashAddr, fileSize, aBuffer>>
  /\ UNCHANGED <<cfgKey, bootKey, flash, deaf, usb, ep, manual, left>>
  /\ UNCHANGED fpgaVars /\ UNCHANGED hostVars

(* One turn of the loop that calls CDC_Device_ReceiveByte rxCount times:   *)
(* the intro states append at flashAddr, the body states start over.       *)
InIntro == cli \in {"CFG_INTRO", "ST_INTRO"}
TakeIndex == IF InIntro THEN flashAddr ELSE cnt - n

Take ==
  /\ FromUsb /\ pc = "take"
  /\ aBuffer' = [aBuffer EXCEPT ![TakeIndex] = ReceivedByte]
  /\ cfgKey' = IF TakeIndex = KeyIdx THEN KeyIn(ReceivedByte) ELSE cfgKey
  /\ flashAddr' = IF InIntro THEN flashAddr + 1 ELSE flashAddr
  /\ n' = n - 1
  /\ pc' = IF n = 1 THEN "act" ELSE "take"
  /\ ep' = AfterReceive
  /\ UNCHANGED <<mode, cli, src, cnt, wr, fileSize>>
  /\ UNCHANGED <<bootKey, flash, deaf, usb, manual, left>>
  /\ UNCHANGED fpgaVars /\ UNCHANGED hostVars

StartConfigRetries(buffer, addr) ==                   (* mutant of StartConfig *)
  IF DataFieldFound(buffer)
  THEN /\ fileSize' = Minus(ExtractSize(buffer), addr - DataStart)
       /\ Fed(Slice(buffer, DataStart, addr - DataStart), FALSE)
       /\ cli' = "CFG_BODY"
  ELSE /\ cli' = "TRIGGER"
       /\ UNCHANGED <<fileSize, rx, done>>

(* The second half of CLI_XILINX_CONFIGURE_INTRO, with addr bytes of the   *)
(* source in buffer: look for the data field, start the configuration.     *)
StartConfig(buffer, addr) ==
  IF DataFieldFound(buffer)
  THEN /\ fileSize' = Minus(ExtractSize(buffer), addr - DataStart)
       /\ Fed(Slice(buffer, DataStart, addr - DataStart), FALSE)
       /\ cli' = "CFG_BODY"
  ELSE /\ cli' = "PROMPT"
       /\ UNCHANGED <<fileSize, rx, done>>

ConfigIntroUsb ==
  /\ At("CFG_INTRO", "act")
  /\ pc' = "poll"
  /\ IF flashAddr > Threshold THEN StartConfig(aBuffer, flashAddr)
                              ELSE UNCHANGED <<cli, fileSize, rx, done>>
  /\ UNCHANGED <<mode, src, n, cnt, wr, flashAddr, aBuffer>>
  /\ UNCHANGED <<cfgKey, bootKey, flash, deaf, usb, ep, manual, left>>
  /\ UNCHANGED hostVars

ConfigIntroSpi ==
  /\ At("CFG_INTRO", "poll") /\ src = "spi"
  /\ FillBuffer(flashAddr)
  /\ flashAddr' = flashAddr + BufLen
  /\ StartConfig(FlashBlock(flashAddr), flashAddr + BufLen)
  /\ UNCHANGED <<mode, src, pc, n, cnt, wr>>
  /\ UNCHANGED <<bootKey, flash, deaf, usb, ep, manual, left>>
  /\ UNCHANGED hostVars

FeedBlockAll(buffer, count) ==                        (* mutant of FeedBlock *)
  /\ fileSize' = fileSize - count
  /\ Fed(rx \o Slice(buffer, 0, count), done)
  /\ cli' = IF fileSize = count THEN "FINISH" ELSE "CFG_BODY"

FeedBlockMore(buffer, count) ==                       (* mutant of FeedBlock *)
  LET len == IF fileSize < count THEN fileSize ELSE count IN
  /\ fileSize' = fileSize - len
  /\ Fed(rx \o Slice(buffer, 0, len), done)
  /\ cli' = IF fileSize < count THEN "FINISH" ELSE "CFG_BODY"

(* The second half of CLI_XILINX_CONFIGURE_BODY with count bytes in        *)
(* buffer: feed what belongs to the bitstream.                             *)
FeedBlock(buffer, count) ==
  LET len == IF fileSize < count THEN fileSize ELSE count IN
  /\ fileSize' = fileSize - len
  /\ Fed(rx \o Slice(buffer, 0, len), done)
  /\ cli' = IF fileSize = len THEN "FINISH" ELSE "CFG_BODY"

ConfigBodyUsb ==
  /\ At("CFG_BODY", "act")
  /\ pc' = "poll"
  /\ FeedBlock(aBuffer, cnt)
  /\ UNCHANGED <<mode, src, n, cnt, wr, flashAddr, aBuffer>>
  /\ UNCHANGED <<cfgKey, bootKey, flash, deaf, usb, ep, manual, left>>
  /\ UNCHANGED hostVars

ConfigBodySpi ==
  /\ At("CFG_BODY", "poll") /\ src = "spi"
  /\ FillBuffer(flashAddr)
  /\ flashAddr' = flashAddr + BufLen
  /\ FeedBlock(FlashBlock(flashAddr), BufLen)
  /\ UNCHANGED <<mode, src, pc, n, cnt, wr>>
  /\ UNCHANGED <<bootKey, flash, deaf, usb, ep, manual, left>>
  /\ UNCHANGED hostVars

(* XilinxFinishConfig clocks until DONE rises or gives up.  Success leaves *)
(* commandLineInterface for main's loop.  A loaded design may fail too     *)
(* (a CRC error, a PLL that does not lock): Budget.fault times.            *)
FinishSuccess ==
  /\ At("FINISH", "poll")
  /\ done \/ DesignLoaded(rx)
  /\ done' = TRUE /\ mode' = "main"
  /\ UNCHANGED <<cli, src, pc, n, cnt, wr, flashAddr, fileSize, aBuffer>>
  /\ UNCHANGED <<cfgKey, bootKey, flash, deaf, rx, usb, ep, manual, left>>
  /\ UNCHANGED hostVars

FinishFail ==
  /\ At("FINISH", "poll")
  /\ ~done
  /\ IF DesignLoaded(rx)
     THEN left.fault > 0 /\ left' = [left EXCEPT !.fault = @ - 1]
     ELSE UNCHANGED left
  /\ cli' = "PROMPT"
  /\ UNCHANGED <<mode, src, pc, n, cnt, wr, flashAddr, fileSize, aBuffer>>
  /\ UNCHANGED <<cfgKey, bootKey, flash, deaf, usb, ep, manual>>
  /\ UNCHANGED fpgaVars /\ UNCHANGED hostVars

StoredSizeLeft(buffer) ==                             (* mutant of StoredSize *)
  Minus(ExtractSize(buffer), flashAddr - DataStart)

(* CLI_STORE_BITSTREAM_INTRO after the packet was taken.  The size in the  *)
(* file counts the data; ptrToSize - aBuffer is added to it.               *)
StoredSize(buffer) == Wrap(ExtractSize(buffer) + HeaderLen)

StoreIntro ==
  /\ At("ST_INTRO", "act")
  /\ \/ /\ flashAddr > Threshold /\ DataFieldFound(aBuffer)
        /\ fileSize' = StoredSize(aBuffer)
        /\ pc' = "write" /\ wr' = 0 /\ UNCHANGED cli
     \/ /\ flashAddr > Threshold /\ ~DataFieldFound(aBuffer)
        /\ cli' = "PROMPT" /\ pc' = "poll" /\ UNCHANGED <<fileSize, wr>>
     \/ /\ flashAddr <= Threshold
        /\ pc' = "poll" /\ UNCHANGED <<cli, fileSize, wr>>
  /\ UNCHANGED <<mode, src, n, cnt, flashAddr, aBuffer>>
  /\ UNCHANGED <<cfgKey, bootKey, flash, deaf, usb, ep, manual, left>>
  /\ UNCHANGED fpgaVars /\ UNCHANGED hostVars

(* if (flashAddr >= fileSize): load the FPGA from what was stored *)
StoreCheck(addr) ==
  IF addr >= fileSize THEN cli' = "TRIGGER" /\ src' = "spi"
                      ELSE cli' = "ST_BODY" /\ UNCHANGED src

StoreBody ==
  /\ At("ST_BODY", "act")
  /\ IF cnt > 0 THEN pc' = "write" /\ UNCHANGED <<cli, src>>
                ELSE pc' = "poll" /\ StoreCheck(flashAddr)
  /\ wr' = 0
  /\ UNCHANGED <<mode, n, cnt, flashAddr, fileSize, aBuffer>>
  /\ UNCHANGED <<cfgKey, bootKey, flash, deaf, usb, ep, manual, left>>
  /\ UNCHANGED fpgaVars /\ UNCHANGED hostVars

BlockBaseLate == flashAddr                            (* mutant of BlockBase *)

(* One program command of writeFlash: a single byte to reach an even       *)
(* address or when only one is left, else a word.                          *)
BlockBase == IF cli = "ST_INTRO" THEN 0 ELSE flashAddr
BlockSize == IF cli = "ST_INTRO" THEN flashAddr ELSE cnt
Chunk == IF (BlockBase + wr) % 2 = 1 \/ BlockSize - wr = 1 THEN 1 ELSE 2
WriteCellStuck(k) == (BlockBase + k) % FlashLen       (* mutant of WriteCell *)
WriteCell(k) == (BlockBase + wr + k) % FlashLen

ChunkWritten ==
  [a \in 0 .. FlashLen - 1 |->
     IF \E k \in 0 .. Chunk - 1 : a = WriteCell(k)
     THEN Programmed(flash[a],
            aBuffer[wr + CHOOSE k \in 0 .. Chunk - 1 : a = WriteCell(k)])
     ELSE flash[a]]

WriteFlash ==
  /\ mode = "cli" /\ pc = "write"
  /\ flash' = ChunkWritten
  /\ IF wr + Chunk < BlockSize
     THEN wr' = wr + Chunk /\ UNCHANGED <<cli, src, pc, flashAddr>>
     ELSE /\ wr' = 0 /\ pc' = "poll"
          /\ IF cli = "ST_INTRO"
             THEN cli' = "ST_BODY" /\ UNCHANGED <<src, flashAddr>>
             ELSE flashAddr' = flashAddr + cnt /\ StoreCheck(flashAddr + cnt)
  /\ UNCHANGED <<mode, n, cnt, fileSize, aBuffer>>
  /\ UNCHANGED <<cfgKey, bootKey, deaf, usb, ep, manual, left>>
  /\ UNCHANGED fpgaVars /\ UNCHANGED hostVars

-----------------------------------------------------------------------------
(* applicationLoop, as the consumer of the endpoint                        *)

AppReceive ==
  /\ mode = "app"
  /\ ep' = IF BytesReceived > 0 THEN <<>> ELSE ep
  /\ \/ UNCHANGED <<mode, rx, done, manual>>
     \/ /\ BytesReceived > 0
        /\ "recfg" \in UNION {Meanings(ep[i]) : i \in 1 .. Len(ep)}
        /\ mode' = "unwind" /\ XilinxReset /\ manual' = TRUE
  /\ UNCHANGED <<cli, src, pc, n, cnt, wr, flashAddr, fileSize, aBuffer>>
  /\ UNCHANGED <<cfgKey, bootKey, flash, deaf, usb, left>>
  /\ UNCHANGED hostVars

AppStays ==                                           (* mutant of AppReturn *)
  /\ mode = "unwind"
  /\ cfgKey' = "magic" /\ mode' = "app"
  /\ UNCHANGED <<cli, src, pc, n, cnt, wr, flashAddr, fileSize, aBuffer>>
  /\ UNCHANGED <<bootKey, flash, deaf, usb, ep, manual, left>>
  /\ UNCHANGED fpgaVars /\ UNCHANGED hostVars

(* After XilinxReset the #R packet sets the key and returns to main. *)
AppReturn ==
  /\ mode = "unwind"
  /\ cfgKey' = "magic" /\ mode' = "main"
  /\ UNCHANGED <<cli, src, pc, n, cnt, wr, flashAddr, fileSize, aBuffer>>
  /\ UNCHANGED <<bootKey, flash, deaf, usb, ep, manual, left>>
  /\ UNCHANGED fpgaVars /\ UNCHANGED hostVars

-----------------------------------------------------------------------------
(* Interrupts, resets and the way back to main                             *)

Running == mode \in {"main", "cli", "app", "unwind"}

(* The CPU stops.  A chip erase or a word that was under way ends, or was  *)
(* not started yet, and between words the chip stays in their mode.        *)
FlashStops ==
  /\ flash' \in CASE mode = "cli" /\ pc = "erase" /\ ~deaf -> {flash, ErasedFlash}
                  [] mode = "cli" /\ pc = "write" -> {flash, ChunkWritten}
                  [] OTHER -> {flash}
  /\ deaf' \in IF mode = "cli" /\ pc = "write" THEN BOOLEAN ELSE {deaf}

(* EVENT_CDC_Device_LineEncodingChanged, case 1200 *)
BaudBootloader ==
  /\ Running /\ usb = "on" /\ left.baud > 0
  /\ left' = [left EXCEPT !.baud = @ - 1]
  /\ cfgKey' = "other" /\ bootKey' = "loader" /\ manual' = FALSE
  /\ mode' = "halt" /\ FlashStops
  /\ usb' = "off" /\ ep' = <<>>
  /\ hfile' = NoFile /\ hpos' = 0
  /\ UNCHANGED <<cli, src, pc, n, cnt, wr, flashAddr, fileSize, aBuffer>>
  /\ UNCHANGED fpgaVars

KeysForgotten == cfgKey' = cfgKey /\ bootKey' = "other"   (* mutant of ManualKeys *)
ManualKeys == cfgKey' = "magic" /\ bootKey' = "other"

(* case 2400 *)
BaudManual ==
  /\ Running /\ usb = "on" /\ left.baud > 0
  /\ left' = [left EXCEPT !.baud = @ - 1]
  /\ ManualKeys /\ manual' = TRUE
  /\ XilinxReset
  /\ mode' = "halt" /\ FlashStops
  /\ usb' = "off" /\ ep' = <<>>
  /\ hfile' = NoFile /\ hpos' = 0
  /\ UNCHANGED <<cli, src, pc, n, cnt, wr, flashAddr, fileSize, aBuffer>>

(* After a reset main starts from the top; until then its locals, which    *)
(* main does not keep, are cleared here.                                   *)
Restart ==
  /\ cli' = "TRIGGER" /\ src' = "none" /\ pc' = "poll"
  /\ n' = 0 /\ cnt' = 0 /\ wr' = 0 /\ flashAddr' = 0 /\ fileSize' = 0
  /\ usb' = "off" /\ ep' = <<>>
  /\ hfile' = NoFile /\ hpos' = 0

(* The watchdog ends the ISR's for (;;); the bootloader looks at its key. *)
Watchdog ==
  /\ mode = "halt"
  /\ mode' = IF bootKey = "loader" THEN "loader" ELSE "main"
  /\ Restart
  /\ UNCHANGED <<aBuffer, cfgKey, bootKey, flash, deaf, rx, done, manual, left>>

(* The reset button keeps the SRAM and enters the bootloader.  Between the *)
(* two halves of #R it forgets the request: the key is not set yet.        *)
ResetButton ==
  /\ left.reset > 0 /\ left' = [left EXCEPT !.reset = @ - 1]
  /\ FlashStops
  /\ mode' = "loader" /\ manual' = (manual /\ mode # "unwind")
  /\ Restart
  /\ UNCHANGED <<aBuffer, cfgKey, bootKey, rx, done>>

(* The bootloader times out or was used, and starts the firmware. *)
LoaderExit ==
  /\ mode = "loader"
  /\ mode' = "main" /\ bootKey' = "other"
  /\ UNCHANGED <<cli, src, pc, n, cnt, wr, flashAddr, fileSize, aBuffer>>
  /\ UNCHANGED <<cfgKey, flash, deaf, usb, ep, manual, left>>
  /\ UNCHANGED fpgaVars /\ UNCHANGED hostVars

FlashTorn ==
  CASE pc = "erase" /\ ~deaf ->
         {[a \in 0 .. FlashLen - 1 |-> IF a < k THEN Blank ELSE flash[a]] :
            k \in 0 .. FlashLen}
    [] mode = "cli" /\ pc = "write" ->
         {flash, ChunkWritten,
          [a \in 0 .. FlashLen - 1 |-> IF ChunkWritten[a] = flash[a]
                                       THEN flash[a] ELSE Garbage]}
    [] OTHER -> {flash}

(* Without power SRAM, FPGA and the flash chip's mode are lost; an erase   *)
(* stops half way, a word as well.                                         *)
PowerCycle ==
  /\ left.reset > 0 /\ left' = [left EXCEPT !.reset = @ - 1]
  /\ cfgKey' \in {"magic", "other"} /\ bootKey' = "other" /\ manual' = FALSE
  /\ flash' \in FlashTorn /\ deaf' = FALSE
  /\ XilinxReset
  /\ mode' = "main"
  /\ aBuffer' = [i \in 0 .. BufLen - 1 |-> Blank]
  /\ Restart

-----------------------------------------------------------------------------
(* The host and the bus                                                    *)

(* The terminal opens the port: enumeration and a line coding other than   *)
(* the magic ones.                                                         *)
HostOpen ==
  /\ Running /\ usb = "off"
  /\ usb' = "on"
  /\ UNCHANGED cpuVars /\ UNCHANGED fpgaVars /\ UNCHANGED hostVars
  /\ UNCHANGED <<cfgKey, bootKey, flash, deaf, ep, manual, left>>

(* One typed character, or the packet #R. *)
HostType ==
  /\ usb = "on" /\ ep = <<>> /\ ~Sending /\ left.cmd > 0
  /\ left' = [left EXCEPT !.cmd = @ - 1]
  /\ \E c \in Command : ep' = <<Typed(c)>>
  /\ UNCHANGED cpuVars /\ UNCHANGED fpgaVars /\ UNCHANGED hostVars
  /\ UNCHANGED <<cfgKey, bootKey, flash, deaf, usb, manual>>

(* The terminal shows "Awaiting data": the user picks a file. *)
AwaitingData ==
  /\ mode = "cli" /\ pc # "erase"
  /\ \/ cli = "ST_INTRO"
     \/ cli \in {"TRIGGER", "CFG_INTRO"} /\ src = "usb"

HostPickFile ==
  /\ usb = "on" /\ AwaitingData /\ ~Sending /\ left.file > 0
  /\ left' = [left EXCEPT !.file = @ - 1]
  /\ hfile' \in File /\ hpos' = 0
  /\ UNCHANGED cpuVars /\ UNCHANGED fpgaVars
  /\ UNCHANGED <<cfgKey, bootKey, flash, deaf, usb, ep, manual>>

(* The next packet of the file, short or full, into the free bank. *)
HostSend ==
  /\ usb = "on" /\ ep = <<>> /\ Sending
  /\ \E k \in 1 .. EpSize :
       /\ hpos + k <= FileLen(hfile)
       /\ ep' = [i \in 1 .. k |-> <<hfile, hpos + i - 1>>]
       /\ hpos' = hpos + k
  /\ UNCHANGED cpuVars /\ UNCHANGED fpgaVars
  /\ UNCHANGED <<cfgKey, bootKey, flash, deaf, usb, manual, left, hfile>>

(* Suspend keeps the endpoint's bank, a bus reset clears it and ends the   *)
(* transfer of the terminal.  Both make BytesReceived and ReceiveByte fail.*)
Suspend ==
  /\ usb = "on" /\ left.drop > 0
  /\ left' = [left EXCEPT !.drop = @ - 1]
  /\ usb' = "off"
  /\ UNCHANGED cpuVars /\ UNCHANGED fpgaVars /\ UNCHANGED hostVars
  /\ UNCHANGED <<cfgKey, bootKey, flash, deaf, ep, manual>>

BusReset ==
  /\ usb = "on" /\ left.drop > 0
  /\ left' = [left EXCEPT !.drop = @ - 1]
  /\ usb' = "off" /\ ep' = <<>>
  /\ hfile' = NoFile /\ hpos' = 0
  /\ UNCHANGED cpuVars /\ UNCHANGED fpgaVars
  /\ UNCHANGED <<cfgKey, bootKey, flash, deaf, manual>>

-----------------------------------------------------------------------------
(* A board as it leaves the bench: power just came on, the flash is erased *)
(* or holds a file stored earlier.                                         *)
StoredFile(f) ==
  [a \in 0 .. FlashLen - 1 |-> IF a < FileLen(f) THEN <<f, a>> ELSE Blank]

Init ==
  /\ mode = "main" /\ cli = "TRIGGER" /\ src = "none" /\ pc = "poll"
  /\ n = 0 /\ cnt = 0 /\ wr = 0 /\ flashAddr = 0 /\ fileSize = 0
  /\ aBuffer = [i \in 0 .. BufLen - 1 |-> Blank]
  /\ cfgKey \in {"magic", "other"} /\ bootKey = "other"
  /\ flash \in {ErasedFlash} \cup {StoredFile(f) : f \in GoodFile}
  /\ deaf = FALSE
  /\ rx = <<>> /\ done = FALSE
  /\ usb = "off" /\ ep = <<>>
  /\ hfile = NoFile /\ hpos = 0
  /\ manual = FALSE /\ left = Budget

Cli ==
  \/ WaitForConnect \/ FlashInfo \/ Listen \/ TakeCommand \/ EraseDone
  \/ TriggerConfig \/ Poll \/ Take
  \/ ConfigIntroUsb \/ ConfigIntroSpi \/ ConfigBodyUsb \/ ConfigBodySpi
  \/ FinishSuccess \/ FinishFail
  \/ StoreIntro \/ StoreBody \/ WriteFlash

Cpu == MainLoop \/ Cli \/ AppReceive \/ AppReturn \/ Watchdog \/ LoaderExit

Environment ==
  \/ BaudBootloader \/ BaudManual \/ ResetButton \/ PowerCycle
  \/ HostOpen \/ HostType \/ HostPickFile \/ HostSend \/ Suspend \/ BusReset

Next == Cpu \/ Environment

Spec == Init /\ [][Next]_vars

(* The CPU never stops: every state of the firmware has a next step or     *)
(* polls, and no interrupt but the two above keeps it from going on.       *)
FairSpec == Spec /\ WF_vars(Cpu)

(* A terminal that has begun to send a file goes on, on a bus that resumes.*)
SendingSpec == FairSpec /\ WF_vars(HostOpen) /\ WF_vars(HostSend)

-----------------------------------------------------------------------------
(* Properties                                                              *)

CpuTypeOK ==
  /\ mode \in {"main", "cli", "app", "unwind", "halt", "loader"}
  /\ cli \in CliState /\ src \in {"none", "usb", "spi"}
  /\ pc \in {"poll", "take", "act", "write", "erase"}
  /\ n \in Nat /\ cnt \in Nat /\ wr \in Nat
  /\ flashAddr \in Nat /\ fileSize \in 0 .. MaxSize

BytesTypeOK ==
  /\ aBuffer \in [0 .. BufLen - 1 -> Byte]
  /\ flash \in [0 .. FlashLen - 1 -> Byte] /\ deaf \in BOOLEAN
  /\ rx \in Seq(Byte)
  /\ ep \in Seq(Byte) /\ Len(ep) <= EpSize

BoardTypeOK ==
  /\ cfgKey \in {"magic", "other"} /\ bootKey \in {"loader", "other"}
  /\ done \in BOOLEAN /\ usb \in {"on", "off"} /\ manual \in BOOLEAN
  /\ hfile \in File \cup {NoFile} /\ hpos \in Nat
  /\ left \in [cmd : Nat, file : Nat, baud : Nat, reset : Nat, drop : Nat,
               fault : Nat]

TypeOK == CpuTypeOK /\ BytesTypeOK /\ BoardTypeOK

(* aBuffer[flashAddr++] and aBuffer[n] of the packet loops never leave the *)
(* buffer, whatever the host sends and wherever the bus drops out.         *)
BufferBound ==
  mode = "cli" /\ pc = "take" =>
    IF FromUsb THEN TakeIndex + n <= BufLen ELSE cli = "PROMPT"

(* The application loop runs only over an FPGA that holds a complete       *)
(* design: no reset, key, leftover or failed configuration leads main      *)
(* there with an empty or half loaded FPGA.                                *)
AppOnlyConfigured == mode = "app" => done /\ DesignLoaded(rx)

(* What the FPGA has got while it is configured is the data of one file    *)
(* (of what the flash holds) from its first byte on, none lost or doubled  *)
(* between the buffer fills, and with what fileSize still counts it is     *)
(* exactly as long as declared.                                            *)
FedFrom(Source(_), size) ==
  /\ \A i \in 1 .. Len(rx) : rx[i] = Source(DataStart + i - 1)
  /\ Len(rx) + fileSize = size

FedInOrder ==
  mode = "cli" /\ cli \in {"CFG_BODY", "FINISH"} =>
    IF src = "usb"
    THEN \E f \in GoodFile : FedFrom(LAMBDA a : <<f, a>>, DataLen[f])
    ELSE FedFrom(LAMBDA a : flash[a % FlashLen], ExtractSize(FlashBlock(0)))

(* A volatile configuration that finishes has eaten the file to its last   *)
(* byte: nothing is left for the command line or the application to take   *)
(* for commands.                                                           *)
VolatileEatsFile ==
  At("FINISH", "poll") /\ src = "usb" =>
    ~Sending /\ \A i \in 1 .. Len(ep) : ep[i][1] \notin File

(* While a file is stored, what has been programmed is its beginning, and  *)
(* the rest of the chip is still erased.                                   *)
StoredLen == IF cli = "ST_INTRO" THEN (IF pc = "write" THEN wr ELSE 0)
             ELSE flashAddr + wr

FlashHoldsPrefix ==
  /\ mode = "cli"
  /\ \/ cli = "ST_BODY"
     \/ cli = "ST_INTRO" /\ pc # "erase"
  => \E f \in File : \A a \in 0 .. FlashLen - 1 :
       flash[a] = IF a < StoredLen THEN <<f, a>> ELSE Blank

(* The flash is programmed only where it is erased. *)
ProgramsErasedOnly ==
  [][WriteFlash => \A a \in 0 .. FlashLen - 1 :
                     flash'[a] # flash[a] => flash[a] = Blank]_vars

(* A store that the firmware takes for complete has put all the data the   *)
(* FPGA needs into the flash.                                              *)
StoreEndsUseful ==
  [][At("ST_BODY", pc) /\ cli' = "TRIGGER" =>
       \E f \in GoodFile : \A a \in 0 .. DataStart + Essential(f) - 1 :
         flash'[a] = <<f, a>>]_vars

(* From a 2400 baud reset, or the XilinxReset of #R, on the FPGA gets no   *)
(* bitstream until the user has sent something to the command line, or has *)
(* reset the board in some other way before #R has set its key, or with    *)
(* 1200 baud or the power.                                                 *)
ManualModeHolds == [][manual => Len(rx') <= Len(rx)]_vars

(* Why the packet loops stay inside aBuffer: where an iteration of the     *)
(* loop may be, and what it has in hand there.                             *)
PlaceOK ==
  mode = "cli" =>
    /\ pc = "take"  => FromUsb \/ cli = "PROMPT"
    /\ pc = "act"   => FromUsb
    /\ pc = "write" => cli \in {"ST_INTRO", "ST_BODY"}
    /\ pc = "erase" => cli \in {"ST_INTRO", "PROMPT"}

FillOK ==
  mode = "cli" /\ FromUsb =>
    /\ InIntro /\ pc = "poll" => flashAddr <= Threshold
    /\ InIntro /\ pc = "take" => n > 0 /\ flashAddr + n <= BufLen
    /\ InIntro /\ pc \in {"act", "write"} => flashAddr <= BufLen
    /\ ~InIntro /\ pc = "take" => n > 0 /\ n <= cnt
    /\ ~InIntro /\ pc \in {"take", "act", "write"} => cnt <= EpSize
    /\ pc = "write" => wr < BlockSize

SourceOK ==
  mode = "cli" /\ cli \in {"TRIGGER", "CFG_INTRO", "CFG_BODY"} =>
    /\ src \in {"usb", "spi"}
    /\ cli = "TRIGGER" \/ src = "spi" => pc = "poll"
    /\ cli = "CFG_INTRO" /\ src = "spi" => flashAddr = 0

FpgaOK == done => DesignLoaded(rx)

IInv == TypeOK /\ PlaceOK /\ FillOK /\ SourceOK /\ FpgaOK /\ (mode = "app" => done)

(* Why the manual mode holds: from the request until the first byte for    *)
(* the command line the FPGA is empty and the key is set, or #R is just    *)
(* about to set it.                                                        *)
ManualOK ==
  /\ mode = "unwind" => ~done
  /\ manual => /\ ~done
               /\ \/ mode = "unwind"
                  \/ cfgKey = "magic" /\ mode \in {"main", "halt", "loader"}
                  \/ cfgKey = "magic" /\ At("WAIT", "poll")

(* No byte is made up: what the packet loops put into aBuffer was sent by  *)
(* the host.  CDC_Device_ReceiveByte answers -1 when there is nothing.     *)
NoPhantomByte == [][Take => ep' # ep]_vars

(* When the store is over, the whole file is in the flash. *)
StoreComplete ==
  [][At("ST_BODY", pc) /\ cli' = "TRIGGER" =>
       \E f \in GoodFile : \A a \in 0 .. FileLen(f) - 1 : flash'[a] = <<f, a>>]_vars

(* Whatever a reset interrupted, and whatever it left in the flash, the    *)
(* board comes back to the application or to the prompt of the command line.     *)
AtRest == mode = "app" \/ (mode = "cli" /\ cli \in {"WAIT", "PROMPT", "LISTEN"})

BootSettles == mode = "main" ~> AtRest

(* A board that starts with a whole file in the flash, which answers, and  *)
(* whose user did not ask for the command line, gets its FPGA configured,  *)
(* unless another reset comes first.                                       *)
FlashHolds(f) == \A a \in 0 .. FileLen(f) - 1 : flash[a] = <<f, a>>

ValidFlashBoots ==
  mode = "main" /\ cfgKey = "other" /\ ~deaf /\ (\E f \in GoodFile : FlashHolds(f))
    ~> mode \in {"app", "halt", "loader"} \/ cfgKey = "magic"

(* Once the header and the size of a file were taken in and the host has   *)
(* sent all of it, the command line comes to an end with it, even if a     *)
(* suspend mixes phantom bytes into the data.  Only a bus reset that       *)
(* throws bytes of the file away leaves it waiting: there is no timeout.   *)
SentFileSettles ==
  /\ mode = "cli" /\ hfile # NoFile /\ ~Sending
  /\ \/ cli = "ST_BODY" /\ fileSize <= FileLen(hfile)
     \/ /\ cli = "CFG_BODY" /\ src = "usb"
        /\ Len(rx) + fileSize <= DataLen[hfile]
  ~> AtRest \/ hfile = NoFile

=============================================================================
