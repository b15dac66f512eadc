# Verification of Mojo OS

TLA+ specifications of the firmware in `Software/` (ATmega32U4 of the Mojo board), with the parts around it that
it depends on: the USB host, the FPGA and the SPI flash. TLC checks the specifications on small instances, TLAPS
proves the theorems for all values of the constants.

## 1. The system

| Component | State | Operations | Talks to |
|---|---|---|---|
| Command line, `fct.c` (`main`, `commandLineInterface`) | `cliState`, `cfgSrc`, `flashAddr`, `fileSize`, `rxCount`, `aBuffer`; the two keys at fixed SRAM addresses | configure the FPGA from USB or flash, store a file, erase, show what is stored, choose the loop | all drivers |
| Line encoding interrupt, `fct.c:629` | both keys, watchdog | 1200 baud: bootloader; 2400 baud: empty the FPGA, manual mode | preempts everything above |
| FPGA driver, `Fpga/fpga.c` | none of its own; FPGA: bytes taken since PROGRAM_B, DONE | reset, write block, finish, read DONE, read fields of a `.bit` header | port B/D pins |
| SPI flash driver, `SPI-flash/flash.c` | none of its own; chip: cells, write enable, busy, AAI mode | read, write (byte and AAI word programming), erase | SPI on port B |
| Application loop, `fct.c:207` | ring buffer, `appState`, `id`, `size` | take bytes, parse packets, bus cycles, answer | CDC, UCIF pins |
| Ring buffer, `LUFA/Drivers/Misc/RingBuffer.h` | `In`, `Out`, `Count` | insert, remove, peek, counts | application loop |
| UCIF, `Ucif/ucif.c` and the Verilog sample | pins E, RW, DDR, data; address register | one edge = one transfer | FPGA logic |
| USB device and CDC, LUFA | device state, endpoint banks, selected endpoint, line encoding | `BytesReceived`, `ReceiveByte`, `SendByte`, control requests | host; two interrupts |
| Bootloader Caterina (not in the repository) | boot key | starts the firmware | watchdog reset |

How they interact. There is one thread: `main` looks at DONE and runs `applicationLoop` or `commandLineInterface`;
each is left only through success of a configuration or `#R`. Two interrupts run in between: bus events (reset,
suspend, wake-up) and control requests, in which the magic baud rates are served. A reset of any kind leaves the
flash, and unless power was lost the FPGA and the SRAM with its keys. The host cuts a file or a packet into USB
packets as it likes.

What makes it hard, and where it would go wrong (`hazards` in PROJECT.json has the lines):

- *Counts that go stale.* `rxCount`, `count` and `ready` are taken once and used by a whole loop, while a bus event
  may make the calls in it fail.
- *Arithmetic on positions.* Header, size field, data, first fill of the buffer, odd addresses of the flash: a byte
  lost or doubled at one seam gives an FPGA that does not start.
- *Where a file ends.* One-byte packets are commands; whatever the loader leaves in the endpoint is one.
- *Resets anywhere.* Keys, FPGA and flash survive in any combination.
- *Shared lines.* The data port is driven by two sides, and the order of four pin changes decides who drives. The same
  port is the SPI of the flash and the FPGA's configuration port; one pin is CCLK and DDR.
- *Nested interrupts.* The control interrupt enables interrupts and waits for the host; the endpoint registers it works on
  belong to whoever selected last.
- *A chip that ignores.* The flash chip obeys a command only in the right mode, and the driver does not look whether it did.
- *No timeouts.* Only a reset ends a transfer that misses a byte.

What makes each component correct:

- Command line: the packet loops stay in `aBuffer`; the FPGA gets the data of one file, in order, none twice; the
  flash holds a prefix of the file while storing; the application loop runs only over a configured FPGA; manual mode
  keeps the FPGA empty; a boot always ends in the application or at the prompt, and boots a valid design.
- Application loop: what a host sees is `PacketProtocol`; no contention on the lines; no unintended writes; the ring
  buffer is used within its bounds; nothing sent is left lying.
- Ring buffer: it is a queue.
- SPI flash driver: the chip never sees a command it ignores; after return the cells hold what was asked.
- USB device: the main loop always finds the endpoint selected that it selected, one request is handled at a time and
  comes to its end, address, configuration and device state agree with the host's.
- Pins: a line has one driver, and no driver's traffic means anything to another's partner.

## 2. The modules

| Module | What it is |
|---|---|
| `Bitstream` | bytes by their origin, `.bit` files, what `fpga.c` reads out of a header, when a design is complete |
| `MojoOs` | `main`, the command line, loader and store, keys, interrupts and resets, host, FPGA, flash cells |
| `MCMojoOs` | instances of it |
| `MojoOs_proof` | its inductive invariant and the safety theorems of all histories |
| `MojoData_proof` | the data path: what reaches FPGA and flash is the file |
| `RingBuffer` | the ring buffer's pointers, operation by operation |
| `RingBuffer_proof` | it implements a queue |
| `PacketProtocol` | abstract: what the application loop promises a host |
| `AppLoop` | the application loop pin by pin, over `RingBuffer`; implements `PacketProtocol` |
| `MCAppLoop` | instances of it |
| `AppLoop_proof` | its inductive invariant (stated in `AppLoop`) and safety theorems |
| `AppProtocol_proof` | its steps are `PacketProtocol`'s |
| `FlashCells` | flash cells: erasing, programming, tearing |
| `FlashStore` | abstract: what `flash.c` promises its callers |
| `SpiFlash` | `flash.c` command by command, against the chip; implements `FlashStore` |
| `MCSpiFlash` | instance of it |
| `SpiFlash_proof` | its inductive invariant, and that its steps are `FlashStore`'s |
| `UsbDevice` | control endpoint, both USB interrupts and the main loop, access by access |
| `MCUsbDevice` | instances of it |
| `UsbDevice_proof` | the stack of activations, one request at a time, the address, host and handlers in step |
| `Pins` | port B, PD0, RW and chip select, port operation by port operation |
| `MCPins` | instance of it |
| `Pins_proof` | its inductive invariant and safety theorems |

`AppLoop` extends `RingBuffer` and instantiates `PacketProtocol` with a refinement mapping. `MojoOs` extends
`Bitstream` and contains the application loop only as a consumer of the endpoint; `AppLoop` contains the command line
only as the source of a configured FPGA. The two meet in `mode`, the DONE pin (`done`, `on`) and the endpoint (`ep`). `SpiFlash` and `FlashStore` extend `FlashCells`; `MojoOs` uses
the flash the way `FlashStore` describes it: cells, one program command at a time, and `deaf`. `UsbDevice` and `Pins` are the
layer below the other modules: they have the whole program as their caller, reduced to the order of its calls.

### `MojoOs`

`mode` is the function the CPU is in, `cli` is `cliState`, and `pc` is the place in an iteration of the loop: `poll`
(`BytesReceived`), `take` (one turn of the loop calling `ReceiveByte`), `act` (the rest of the case), `write` (inside
`writeFlash`) and `erase`. One step is the code between two places where the host, the bus or a reset makes a
difference, so every byte taken and every program command is a step.

| Action | Code |
|---|---|
| `MainLoop` | one round of `main`'s loop |
| `WaitForConnect`, `FlashInfo`, `Listen`, `TakeCommand`, `EraseDone`, `TriggerConfig` | the states up to `CLI_TRIGGER_CONFIG`, with the fall-throughs of the switch |
| `Poll`, `Take` | the packet loops of the four states that take a file |
| `ConfigIntroUsb`/`Spi`, `ConfigBodyUsb`/`Spi` | start of the configuration and its data |
| `FinishSuccess`, `FinishFail` | `XilinxFinishConfig` and what follows |
| `StoreIntro`, `StoreBody`, `WriteFlash` | storing a file; `WriteFlash` is one program command |
| `AppReceive`, `AppReturn` | the application loop as a consumer, `#R`; between the two the FPGA is empty and the key not yet set: `manual` counts from the first, a reset there ends the request |
| `BaudBootloader`, `BaudManual`, `Watchdog`, `LoaderExit` | the magic baud rates, and the way back |
| `ResetButton`, `PowerCycle` | external resets |
| `HostOpen`, `HostType`, `HostPickFile`, `HostSend`, `Suspend`, `BusReset` | the host and the bus |

Abstractions. A byte is its origin (`<<file, offset>>`, `<<command, 0>>`, or 0xFF). The header is `HeaderLen` bytes that
are right or not; a file of `BadFile` has no data field. A byte of a file that is taken for a command may mean any.
`PadLen` trailing bytes of a bitstream are padding the FPGA can do without; DONE may rise from there on, or only in
`FinishSuccess`. A configuration of a complete design may fail (`Budget.fault`). `fileSize` keeps its width: it wraps at
`MaxSize`. The application loop's `#R` is recognised when the two bytes are among those taken, or not (they may be
payload). `KeyIdx` says which byte of `aBuffer` covers the configuration key, if the linker put it there. An interrupted
store leaves whole program commands; an interrupted erase leaves any prefix erased. `deaf`: a reset in the middle of a store
may leave the chip in AAI mode (see `SpiFlash`), in which it reads as erased and no erase ends, until the power is cut.

### `AppLoop`

`todo` is the list of port operations and `SendByte` calls that the code still has to do in the current round; they are
done one per step, so every moment between two pin changes is a state. `Direction`, `PutByte`, `Strobe`, `Answer` are
these steps, `CountDown` the `size--`, `ready -= 2` at the end of a word. `Receive`, `InsertByte`, `PacketId`,
`PacketSize`, `Dispatch`, `Return`, `StartTransfer`, `NextUnit` are the control flow between them. `Edge` is `ucif.v`:
with RW at 0 an edge takes an address or writes; it sees an edge before the next AVR instruction (60 ns at 50 MHz
against 62.5 ns at 16 MHz). `SendByte` may lose the byte, on a suspended bus or when the host leaves the bank full
(`Budget.lost`), because its result is ignored.

`PacketProtocol` has no pins, no iterations and no ring buffer: a queue of bytes, and bus cycles. In the mapping a
byte is used when the edge that brings it to the FPGA has come, and the header is used at its second echo. Its promise ends with
`quiet`, that is with the first suspend or the first answer nobody took: from then on an answer may be missing or a byte invented. Of a
packet with an unknown ID it promises only that it moves nothing (`Unknown`); whether such a packet is echoed and how much of what
follows belongs to it is left open, because `README.md:136` and the code disagree (run `Unknown`).

### `SpiFlash` and `FlashStore`

`pc` is the place in `eraseFlash`, `writeFlash`, `readFlash` or `getFlashChipID`; a step is one SPI command (chip select low to
high) or one look of a wait loop. `EraseFlash`, `WriteFlash`, `WaitWhileBusy`, `WaitWhileHwBusy`, `ReadFlash`, `GetFlashChipID` are
the functions, `Call*` the calls the command line makes: reads at any time, stores in blocks that follow each other after an
erase. `Obeys` and `Obey` are the chip, taken from how the driver uses it: write enable latch (`wel`), block protection
(`protect`), AAI mode (`aai`), ready/busy on the data line (`ebsy`), and what it is busy with (`pend`). `McuReset` may come between
any two commands and leaves the chip as it is; `PowerLoss` tears what it was doing (`Torn`).

`FlashStore` has cells and calls and no commands. In the mapping a byte is programmed when the chip has finished, so what the chip
is busy with still belongs to the rest of the block (`StoreAt`, `StoreRest`); an erase is done when the chip is, before the
driver has seen it (`StoreCall`). The chip in AAI mode outside `writeFlash` is `deaf`.

### `UsbDevice`

`frames` is the stack of activations of `USB_Device_ProcessControlRequest`: the one of `USB_COM_vect`, the ones nested in it, and the
one `USB_DeviceTask` calls from the main loop although the interrupt does its work (`USB_USBTask`, `fct.c:223`, `359`). A step is one
access to something shared: the selected endpoint (`sel`, UENUM), the flags and banks of the control endpoint (`ep0`), the request
header, the device state. The flag RXSTPI is read (`ReadFlag`, into `saw`) one step before it is used. `ComEnter` and
`ComLeave`/`ComReturn` are the entry and exit of the interrupt; it is taken before the next step of whatever runs, or one step
late (`left.late`), when the flag rises during the instruction that reads it. The bus event interrupt runs with interrupts disabled
and is one step per branch: `Connect`, `Disconnect`, `Suspend`, `WakeUp`, `BusReset`.

| Action | Code |
|---|---|
| `ReadHeader`, `ReadFlags`, `StallRest` | frame of `USB_Device_ProcessControlRequest` |
| `ClassRequest`, `GetLineEncoding`, `SetLineEncoding` | `CDC_Device_ProcessControlRequest` |
| `StandardRequest`, `GetStatus`, `EnableAddress`, `AddressState`, `ConfigState` | the standard requests; `SetAddress` and `SetConfiguration` with their steps after the status stage |
| `Stream`, `StreamEnds` | `Endpoint_Write_Control_PStream_LE`, `Endpoint_ClearOUT` |
| `ClearStatusStage` | `Endpoint_ClearStatusStage`, both directions |
| `ConfigureEndpoints` | `CDC_Device_ConfigureEndpoints`, one endpoint a step |
| `DataTest`, `DataSelect`, `DataAccess` | what `SendByte`, `Flush`, `BytesReceived` and `ReceiveByte` have in common |
| `TaskBegin`, `TaskLook`, `TaskEnd` | `USB_DeviceTask` |
| `Setup`, `TakeData`, `SendStatus`, `SendData`, `TakeStatus`, `TakeStall` | the host (external): control transfers with their three stages |

The controller (external): a SETUP is always accepted, discards what waits in the IN bank, and everything else is refused until it
is acknowledged; a bus reset empties the endpoint and clears the address. The bus is suspended only when nothing is
under way (3 ms without traffic). VBUS is away longer than a handler takes to see it.

### `Pins`

A function of a driver is the sequence of its port operations (`BaseInit` is `ucifBaseInit`, `WriteBlock` one byte of
`XilinxWriteBlock`, and so on); `todo` is what is left of the functions called, one operation a step. `MainLoop`, `UseFlash`, `BeginLoad`,
`GoOnLoading`, `EndLoad`, `Finished`, `AppTransfer`, `Reconfigure` are the calls of `main`, the command line and the application loop in their
order, `MagicBaud` the interrupt that calls `XilinxReset` at any place and does not return. `seen` is the level the SPI saw on SS
while it was an input: what the comment in `setupSpiAsMaster` says of it is modelled, a low level takes the SPI out of master
mode when it is enabled. `Clock` is a rising edge of PD0, whoever makes it; `stray` remembers one that was no byte.

## 3. What is checked

| Run | Instance | Shows |
|---|---|---|
| `Load` | two commands, one file (valid or not), one failing configuration, quiet bus | `TypeOK`; `FedInOrder`: the FPGA gets the file or the flash from the first data byte on, nothing twice, and with `fileSize` in exactly the declared length; `VolatileEatsFile`: a volatile load leaves no byte that could become a command; `FlashHoldsPrefix`: while storing, the flash is a prefix of the file and otherwise erased; `ProgramsErasedOnly`; `StoreEndsUseful`: a store that ends has stored all that the FPGA needs |
| `Faults` | one command, one file (valid, without data field, too short, or none), and of each at most one, at any step: a magic baud rate, a reset or power loss, a suspend or bus reset; fair CPU, terminal and bus | `BufferBound`, `AppOnlyConfigured`; `ManualModeHolds`: from 2400 baud or the `XilinxReset` of `#R` on no byte goes to the FPGA before the user has typed, or has reset the board in another way; `BootSettles`: every start ends in the application or at the prompt, whatever is in the flash; `ValidFlashBoots`: with a whole file in the flash, a chip that listens and no manual key, the application runs; `SentFileSettles`: a file whose size was read comes to an end if all of it was sent, phantom bytes or not |
| `App` | two packets of eight kinds, a suspend and a lost answer at any step; fair loop and host, a bus that wakes up | `TypeOK`; `ImplementsProtocol`; `PacketsHandled`: what was sent is taken out of endpoint and ring buffer, and the parser returns to its start; `RingUsedInBounds`; `NoContention`: AVR and FPGA never both drive the lines; `OnlyWritesWrite`: no edge writes but the data edges of a write packet |
| `Flash` | a chip of five cells, blocks of up to four bytes, one reset and one power loss at any SPI command; fair driver and chip | `TypeOK`; `CommandsObeyed`: no command is ignored, but by a chip a reset left in AAI mode; `ImplementsStore`: safety and liveness of `FlashStore` |
| `Usb` | two requests of ten kinds, two-packet descriptors, a fresh or an enumerated device, one suspend, one bus reset between requests, unplugging at any step, one late interrupt; fair CPU, and a host that goes on with its transfer | `SelectionKept`, `ControlOnEp0`: main loop and handlers work on the endpoint they mean; `NotReentered`; `AnswersHost`: what waits in the endpoint is for the request and stage the host is at; `KnownAccepted`: no known request is stalled; `AddressAgrees`; `OnlyAfterConfiguration`: no data access before the host has configured the device since the last bus reset; `RequestDone`: every request ends |
| `Pins` | at most two interrupts, two resets and one power loss at any port operation, four byte values | `OneDriver`: no line of port B has two drivers; `SpiMaster`: no byte is sent by an SPI that is not master, which would wait for ever; `CleanFeed`: a loading FPGA gets no clock but the ones of its driver, with its data |

Bounds. `Load`, `Faults`: one header byte, one size byte, six data bytes of which two are padding; a buffer of
five bytes and packets of one or two. So a header fills in the middle of a packet or at its end, the first fill is four
or five bytes, the data take several fills from flash, blocks start at odd and even addresses with odd and even sizes,
and the last packet ends before, at and after the end that `fileSize` computes. The flash has ten cells, two more than
the file, and reads wrap. `MaxSize` is 15. A second file would only find the state machine in a state a first one already
reaches: each transfer starts with `flashAddr = fileSize = 0`; what a first attempt leaves in flash, FPGA and keys is
covered by the initial states and the two commands. The too short file, whose `fileSize` wraps to `MaxSize`, is in `Faults` only: from
flash it is fed to its wrapped end, which is what `BootSettles` is asked about; sent to the prompt it is waited for without end, and `FedInOrder` is not
true of it. `App`, `Unknown`: a ring buffer of three bytes (128 in the code) with packets of
one or two: it fills, wraps at every offset, and holds an odd byte in front of a word. Lengths are 0, 1 and 2; eight kinds of
packets in every sequence of two cover each kind of transfer after each other, `#R` in between or at the end, and headers cut anywhere.
`Flash`: five cells take an odd first byte, words and a last byte in one call, and a second
block at an odd or an even address after it; cells start erased or full of garbage. `Usb`: a second request finds whatever the first
left, and one more of each disturbance would find a state one has already reached. `Enumerated` is a state `Init` leads to
(bus reset, `SetAddress`, `Configure`, `SetLineEncoding`); starting in it too saves three requests. A bus reset during a request is the
subject of `UsbReset`, in `Usb` it comes only between requests (`Quiet`; `resetMidway`, `unplugMidway` bound what comes during one). A
host that sends a new SETUP before the interrupt has returned is bounded by `eager`, which is 0: see below. `Pins`: the values of a
byte matter only through bit 0, the SS line. All bounds on the environment are counted down in `left`.

Deadlock is checked in the runs of `MojoOs` and `AppLoop`: the CPU always polls. It is not checked where the code may really stop:
in `Flash`, when no caller calls a chip that is deaf; in `Usb`, where `SetAddress` waits without an exit when unplugged; in `Pins`, where
a design that takes over while it is being loaded from flash (see `TakeOver`) may hold SS low, so that the next `xfer` waits for ever.

Fairness. `WF(Cpu)` and `WF(Loop)`: the firmware never blocks, except in the waits for INIT_B and the flash, which the
hardware is assumed to end; `Flash` has the waits, with `WF(Driver)` and `WF(ChipFinishes)`. `WF(HostSend)`: a terminal that sends a file goes on when the endpoint has room, `WF(HostOpen)`:
the bus resumes and the terminal opens the port again; these two are needed only for `SentFileSettles`. `App` has `WF(HostSend)` and
`WF(Resume)`, the bus wakes up again, for `PacketsHandled`. `Usb`: `WF(Cpu)`, and `WF(HostGoesOn)` for the steps of a transfer the host has begun, which USB's timeouts for control
transfers make it do. No fairness is assumed for commands, requests, resets, packets or faults.

### Where the code and its texts differ

Six runs state what a comment or the README says, and TLC shows a behaviour of the code against it:

- `Phantom`: the bus drops between `BytesReceived` and `ReceiveByte`; the `-1` becomes a 0xFF in the bitstream.
- `StoreComplete`: the end of a stored file is computed from `ptrToSize` without the four bytes of the size; the store may
  end early. `StoreEndsUseful` shows why it goes unnoticed: the missing bytes are padding.
- `FlashHang`: a reset of the microcontroller between two words of a store leaves the flash chip in AAI mode; the next erase never
  returns. Only a power cycle helps.
- `UsbReset`: a bus reset while the control handler waits in the status stage; the handler stays, later requests are served by
  handlers nested in it, and the main loop never runs again.
- `Unknown`: `README.md:136` says "Unknown packets get ignored." The loop echoes ID and Length before it looks at the ID (`fct.c:244`),
  which is what TLC shows. It then parses the payload as packets (`fct.c:272`), so that one that looks like a read is answered, and one that
  looks like a write is written.
- `TakeOver`: after a read packet and `#R`, RW is still high when the next design takes over, while the AVR drives the lines.

Seen while modelling, without a run:

- A `SendByte` that fails is not noticed (`fct.c:308`, `324`): the answer to a read is one byte short, where `README.md:109` promises the exact
  amount. `AppLoop` loses the byte.
- No state that awaits a file has a timeout (`fct.c:497`). `SentFileSettles` is about files that arrive whole.
- A SETUP that arrives between the end of a request and the handler's last look at RXSTPI is stalled without being read
  (`DeviceStandardReq.c:118`). A host that is as fast as that (`eager`) would see a known request fail and repeat it.
- The main loop's `USB_DeviceTask` races the interrupt for a SETUP. One late interrupt does no harm (`Usb`); two in a row
  may have a request handled twice. `CompileTimeTokens.txt:175-179` says that `USB_USBTask` need not be called.
- `SetConfiguration(0)` leaves the state Configured when the device is addressed (`DeviceStandardReq.c:203`).
- `SetAddress` and `GetLineEncoding` wait for the IN bank without an exit (`DeviceStandardReq.c:135`, `CDCClassDevice.c:55`).

## 4. What is proved

All safety properties of the passing runs are theorems, for every value of the constants. The assumptions named below
are the `ASSUME`s of the modules; a hypothesis beyond them is part of the theorem. The constants of a run that checks
a property satisfy the assumptions and hypotheses of its theorem.

`MojoOs_proof`, from `FileAssumption`, `SizeAssumption` and `BudgetAssumption` (the size assumption says that the buffer
holds a header and a packet, and that `fileSize` can count the buffer):

- `Invariance`: `Spec => []IInv`. `IInv` adds to `TypeOK` what makes the bounds of the packet loops inductive. `BufferBound`
  alone is not: that byte `flashAddr + n` is inside `aBuffer` while taking follows from the fill being at most `Threshold`
  when polling (`FillOK`), which follows from the check after the loop, which is only made in the two intro states that
  read USB (`PlaceOK`, `SourceOK`). `FpgaOK` says DONE is high only over a complete design.
- `TypeCorrect` (`TypeOK`), `BufferSafe` (`BufferBound`), `AppSafe` (`AppOnlyConfigured`) follow from `IInv`.
- `ManualSafety` (`ManualModeHolds`): the invariant `ManualOK` in addition: from the request on, DONE is
  low, the key is set (or `#R` is just about to set it, `mode = "unwind"`), and the CPU is on a way that ends in `CLI_WAIT_FOR_CONNECT`, which feeds nothing. This is where it matters that `#R`
  and the interrupt set the key and empty the FPGA before they return.

`MojoData_proof`, in addition from `NameAssumption` (bytes of different origin differ) and two hypotheses. `Quiet`: no magic baud rate, no
reset and no bus event; after a bus event the code does feed bytes nobody sent (`Phantom`), and a reset may stop a file anywhere. `FilesFit`: a
file is longer than `aBuffer` and a packet together, and fits the flash. A shorter file would end while it is still looked
at as a header, and what is typed next would be taken for its data. Any number of files, commands and failed
configurations, every way to cut a file into packets:

- `DataInvariance`: `DataOK` is inductive. The properties speak of `rx` and `flash` only; what makes them inductive is the way
  of the bytes behind: those in hand in `aBuffer` (`Coming`, `HoldsBytes`), those in the endpoint and those the host has still to send
  (`OnWay`) are one file without a gap, at each place of the packet loops (`InHand`). `IntroOK` has it from the first byte, before the header
  is known to be one; `VolatileOK`, `FromFlashOK`, `StoreIntroOK`, `StoreBodyOK` for the states after it; `AllTaken` when
  the last packet has been taken, and the user may already type.
- `FeedsInOrder` (`FedInOrder`), `EatsFile` (`VolatileEatsFile`), `HoldsPrefix` (`FlashHoldsPrefix`), `ErasedOnly` (`ProgramsErasedOnly`) follow.
- `EndsUseful` (`StoreEndsUseful`) needs `PaddingEnough`: the padding of a design is at least as long as the size field that the end of the store
  is computed without, and `fileSize` can count the file. Without that the last bytes of a design would be missing.

`AppLoop_proof`, from the assumptions of `RingBuffer` and `AppLoop`, for every buffer, packet and bus event:

- `LoopInvariance`: `IInv` is inductive. Neither `NoContention` nor `RingUsedInBounds` is: a step of a pin is safe because of the steps
  that came before it in its unit. `IInv` says that `todo` is the rest of one of the sequences (`Rest`), and for each length of
  the rest where E, RW and the direction are; `n`, the local copy of the count, never exceeds what is in the buffer, give or take
  the bytes this unit has already taken.
- `LoopTypes` (`TypeOK`), `RingSafe` (`RingUsedInBounds`), `QuietLines` (`NoContention`), `WritesSafe` (`OnlyWritesWrite`) follow.

`AppProtocol_proof`: `LoopImplementsProtocol`, `Spec => ImplementsProtocol`, one lemma per kind of step: an edge is a bus cycle of
`PacketProtocol` or latches its address, the second echo begins a packet, the rest stutters. The mapping of `quiet` is
`Undisturbed`, that no part of `Budget.lost` and `Budget.drop` is spent: a step that ends the quiet is free, and so are all after it, because a budget never
grows back (`BudgetShrinks`, `Spent`). `QuietInvariance` proves that until then what `BytesReceived` counted is still there.

`SpiFlash_proof`, from `CellAssumption` and `DriverAssumption`, for every chip, block length and number of resets:

- `FlashInvariance`: `Spec => []IInv`. `CommandsObeyed` is not inductive: whether the next command is obeyed depends on when the chip is
  busy (`BusyOK`: only in the wait loops), where the write enable is set (`ArmedOK`), and where the chip is in AAI mode (`AaiOK`). `BlockOK` has
  the alignment and the rest of the block at each place, on which the choice between byte and word commands rests.
- `FlashTypes` (`TypeOK`) and `ChipObeys` (`CommandsObeyed`) follow.
- `FlashImplementsStore`: `Spec => Store!Spec`, one lemma per action. The steps of the chip are `Program` and `Erase`, the ones of the driver
  stutter or return. The liveness of `ImplementsStore` stays with TLC.

`RingBuffer_proof`, from `RingAssumption`: the pointers implement a queue of any size, `InitEmpty`, `InsertAppends`,
`RemoveTakesHead`. `Cell` numbers the contents; the key facts are that a step of a pointer is the next cell and that two
cells of the contents are distinct, so that `Insert` overwrites none of them.

`UsbDevice_proof`, from `DeviceAssumption`, for every set of requests, every nesting and every number of bus events:

- `UsbInvariance`: `IInv` is inductive. `ControlOnEp0` speaks of the activation that runs; the ones below it on the stack need their
  endpoint only when they run again. So `IInv` says for every level what UENUM will be by then (`SelAt`: what the activation above has
  saved) and that it is 0 where the level needs it (`EveryNeedMet`), and the same for the main loop below all of them (`Base`,
  `MainSelected`). `OpenInTime`: a configuration without its endpoints is still being made by some activation.
- `UsbTypes` (`TypeOK`), `KeepsSelection` (`SelectionKept`), `WorksOnEp0` (`ControlOnEp0`) follow, bus resets in a request included.
- Under `NoResetMidway` (no bus reset in the middle of a request; the host may be as early as it likes with the next SETUP, unplug at any
  step, and interrupts may be late): `UsbMasked`, the interrupt on SETUP is off from the entry of an activation to the end of its
  request, hence `OneRequestAtATime` (`NotReentered`). A bus reset enables the interrupt under a waiting handler, `UsbReset` shows what comes of it.
- `AddressInTime` (`AddressAgrees`), under the same hypothesis. Its invariant `AddressOK` follows a SetAddress from the header to
  ADDEN: the activation that may still enable the address is the innermost one and the host waits for its status stage (`Agrees`),
  or the host uses the new address already or is away (`Settled`, which stays so as long as there is an activation). This is needed because all activations
  share `USB_ControlRequest`: one that was interrupted may find a SetAddress there that is not its own. With a bus reset in `addressWait` and
  a host that is early, an old activation does enable the address under another transfer.
- Under `Unhurried` (also `Budget.eager = 0`: the host's next SETUP comes when the handler of the last one is done; and `Budget.late <= 1`),
  with any number of requests, suspends, resets and unpluggings: `UsbInOrder`, its invariant `OrderOK` pairs every place of a handler with the
  stage the host is at and what waits in the endpoint (`Serves`). Its turn is `TaskInert`: an activation of the main loop exists only after
  the one late interrupt and never sees a SETUP, so it does nothing, whatever header it finds. `AnswersInOrder` (`AnswersHost`), `NoKnownStalled`
  (`KnownAccepted`) and `AccessAfterConfiguration` (`OnlyAfterConfiguration`) follow; the last because a line encoding outlives the configuration
  only while an activation is on its way to forget it (`LineForgotten`). Both hypotheses are needed: with two late interrupts or
  one early SETUP TLC finds a known request stalled, see the end of section 3.

`Pins_proof`, from the type of the constants only, for every order of calls, interrupts, resets and power losses:

- `PinsInvariance`: `IInv` is inductive. What is left to do goes along the edges of a flow graph of each mode (`Flows`), and each node of the
  graph says how the pins are when it is next (`BootOK`, `MainOK`, `AppOK`, `FlashOK`, `FirstBlockOK`, `FeedOK`, `FinishOK`). The first steps of a load are a straight line
  (`InFirstBlock`): there SS is seen high, by the pull-ups `XilinxReset` leaves on, and stays so until the design takes over.
- `PinsTypes` (`TypeOK`), `LinesOneDriver` (`OneDriver`), `SpiStaysMaster` (`SpiMaster`), `FeedClean` (`CleanFeed`) follow.

Only model-checked: all liveness (fairness and ENABLED are beyond the prover): `SentFileSettles`, `BootSettles`, `ValidFlashBoots`, `PacketsHandled`,
`RequestDone` and the liveness of `ImplementsStore`.

## 5. What is not modelled, and the plan

Not modelled, and why:

- Texts and layout of the command line, USB descriptors, build files: nothing changes state.
- The LED controller behind the demo interface: no interaction but the register values.
- The rest of LUFA (host mode, other classes, other architectures, boards: most of the lines of the repository): vendored, and not
  compiled into this firmware. What is modelled of LUFA is what the firmware calls and the two interrupts run.
- `ClearFeature`, `SetFeature`, `SendBreak` have the shape of requests that are modelled; a halted endpoint would add a state no
  driver of the host asks for. `USB_Init` and `USB_Disable` run once, before and after everything else.
- The waits for INIT_B and all delays: how long a thing takes is outside TLA+ without clocks. For the same reason the sampling of
  the data lines up to 60 ns after an edge (`ucif.v:227`) is an assumption of `AppLoop`.
- The walk through the fields of a header (`XilinxGetHeaderField`) is the predicate `DataFieldFound`.

Next:

1. `BitHeader`: `XilinxGetHeaderField` and `XilinxExtractBitstreamSize` as functions on short buffers against a reference
   reading of the file format; this justifies the predicate in `Bitstream`.
