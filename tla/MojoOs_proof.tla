--------------------------- MODULE MojoOs_proof ---------------------------
(***************************************************************************)
(* Proofs about MojoOs for every value of its constants: the type          *)
(* invariant with the bounds of the packet loops, that the application     *)
(* loop runs only over a configured FPGA, and that the manual mode feeds   *)
(* it nothing before the user has spoken.                                  *)
(***************************************************************************)
EXTENDS MojoOs, TLAPS

(***************************************************************************)
(* Lemmas about the operators the actions are built from.                  *)
(***************************************************************************)

(* The bytes that are named in the model are bytes. *)
LEMMA SomeBytes ==
  /\ Blank \in Byte /\ Garbage \in Byte
  /\ \A c \in Command : Typed(c) \in Byte
  /\ \A f \in File, i \in Nat : <<f, i>> \in Byte
BY DEF Blank, Garbage, Byte, Typed

(* An endpoint or a configuration without bytes; an endpoint that is kept  *)
(* or emptied.                                                             *)
LEMMA EmptySeq == <<>> \in Seq(Byte) /\ Len(<<>>) = 0
OBVIOUS

LEMMA EmptiedType ==
  ASSUME BytesTypeOK, ep' = ep \/ ep' = <<>>
  PROVE  ep' \in Seq(Byte) /\ Len(ep') <= EpSize
<1>1. CASE ep' = ep
  BY <1>1 DEF BytesTypeOK
<1>2. CASE ep' = <<>>
  <2>1. Len(ep') = 0
    BY <1>2
  <2>2. ep' \in Seq(Byte)
    BY <1>2
  <2> QED
    BY <2>1, <2>2, SizeAssumption
<1> QED
  BY <1>1, <1>2

(* The sizes the bounds are computed with. *)
LEMMA Sizes ==
  /\ MaxSize \in Nat /\ BufLen \in Nat /\ EpSize \in Nat /\ EpSize > 0
  /\ DataStart \in Nat /\ Threshold \in Nat
  /\ Threshold + EpSize = BufLen /\ DataStart <= Threshold
  /\ EpSize <= BufLen /\ BufLen <= MaxSize
BY FileAssumption, SizeAssumption DEF DataStart, Threshold

(* An erased chip is a chip full of bytes, and so is what a word leaves,   *)
(* an interrupted erase and an interrupted word.                           *)
LEMMA ErasedType == ErasedFlash \in [0 .. FlashLen - 1 -> Byte]
BY SomeBytes DEF ErasedFlash

LEMMA ChunkType ==
  ASSUME IInv, mode = "cli", pc = "write"
  PROVE  ChunkWritten \in [0 .. FlashLen - 1 -> Byte]
<1> USE DEF IInv, TypeOK, BytesTypeOK, CpuTypeOK
<1>1. \A k \in 0 .. Chunk - 1 : wr + k \in 0 .. BufLen - 1
  BY Sizes DEF Chunk, BlockSize, PlaceOK, FillOK, FromUsb, InIntro
<1> QED
  BY <1>1, SomeBytes DEF ChunkWritten, Programmed

LEMMA FlashTypes ==
  ASSUME IInv
  PROVE  /\ FlashStops => flash' \in [0 .. FlashLen - 1 -> Byte] /\ deaf' \in BOOLEAN
         /\ FlashTorn \subseteq [0 .. FlashLen - 1 -> Byte]
<1>1. flash \in [0 .. FlashLen - 1 -> Byte] /\ deaf \in BOOLEAN
  BY DEF IInv, TypeOK, BytesTypeOK
<1>2. ASSUME FlashStops
      PROVE  flash' \in [0 .. FlashLen - 1 -> Byte] /\ deaf' \in BOOLEAN
  <2>1. \/ flash' \in {flash, ErasedFlash}
        \/ mode = "cli" /\ pc = "write" /\ flash' = ChunkWritten
    BY <1>2 DEF FlashStops
  <2>2. deaf' \in BOOLEAN
    BY <1>1, <1>2 DEF FlashStops
  <2> QED
    BY <1>1, <2>1, <2>2, ErasedType, ChunkType
<1>3. FlashTorn \subseteq [0 .. FlashLen - 1 -> Byte]
  <2>1. CASE pc = "erase" /\ ~deaf
    BY <1>1, <2>1, SomeBytes DEF FlashTorn
  <2>2. CASE mode = "cli" /\ pc = "write"
    BY <1>1, <2>2, ChunkType, SomeBytes DEF FlashTorn
  <2>3. CASE ~(pc = "erase" /\ ~deaf) /\ ~(mode = "cli" /\ pc = "write")
    BY <1>1, <2>3 DEF FlashTorn
  <2> QED
    BY <2>1, <2>2, <2>3
<1> QED
  BY <1>2, <1>3

(* readFlash fills the whole buffer with bytes. *)
LEMMA FlashBlockType ==
  ASSUME flash \in [0 .. FlashLen - 1 -> Byte], NEW address \in Nat
  PROVE  FlashBlock(address) \in [0 .. BufLen - 1 -> Byte]
<1>1. \A i \in 0 .. BufLen - 1 : flash[(address + i) % FlashLen] \in Byte
  BY SizeAssumption
<1> QED
  BY <1>1, SomeBytes DEF FlashBlock

(* A byte comes out of ReceiveByte, whatever the state of the bus. *)
LEMMA ReceiveType ==
  ASSUME ep \in Seq(Byte), Len(ep) <= EpSize
  PROVE  /\ ReceivedByte \in Byte
         /\ AfterReceive \in Seq(Byte)
         /\ Len(AfterReceive) <= EpSize
         /\ BytesReceived \in 0 .. EpSize
BY SomeBytes, SizeAssumption DEF ReceivedByte, AfterReceive, BytesReceived

(* A slice that stays inside the buffer is a sequence of its bytes. *)
LEMMA SliceType ==
  ASSUME NEW buffer \in [0 .. BufLen - 1 -> Byte],
         NEW from \in Nat, NEW len \in Nat, from + len <= BufLen
  PROVE  Slice(buffer, from, len) \in Seq(Byte)
<1>1. \A i \in 1 .. len : buffer[from + i - 1] \in Byte
  BY SizeAssumption
<1> QED
  BY <1>1 DEF Slice

(* The size of a header and its differences stay within uint32_t. *)
LEMMA SizeType ==
  ASSUME NEW buffer
  PROVE  /\ ExtractSize(buffer) \in 0 .. MaxSize
         /\ StoredSize(buffer) \in 0 .. MaxSize
         /\ \A y \in 0 .. MaxSize : Minus(ExtractSize(buffer), y) \in 0 .. MaxSize
<1>1. ExtractSize(buffer) \in 0 .. MaxSize
  <2>1. CASE \E f \in GoodFile : SizeOf(f, buffer)
    <3>1. (CHOOSE f \in GoodFile : SizeOf(f, buffer)) \in File
      BY <2>1 DEF GoodFile
    <3> QED
      BY <2>1, <3>1, FileAssumption DEF ExtractSize
  <2>2. CASE ~ \E f \in GoodFile : SizeOf(f, buffer)
    BY <2>2, FileAssumption DEF ExtractSize
  <2> QED
    BY <2>1, <2>2
<1> QED
  BY <1>1, FileAssumption DEF StoredSize, Minus, Wrap

(* What the start of a configuration leaves is well typed. *)
LEMMA StartConfigType ==
  ASSUME CpuTypeOK, BytesTypeOK, NEW buffer, NEW addr,
         Minus(ExtractSize(buffer), addr - DataStart) \in 0 .. MaxSize,
         Slice(buffer, DataStart, addr - DataStart) \in Seq(Byte),
         StartConfig(buffer, addr)
  PROVE  /\ fileSize' \in 0 .. MaxSize
         /\ cli' = "CFG_BODY" \/ cli' = "PROMPT"
         /\ rx' \in Seq(Byte)
<1>1. fileSize' \in 0 .. MaxSize
  BY DEF StartConfig, CpuTypeOK
<1>2. cli' = "CFG_BODY" \/ cli' = "PROMPT"
  BY DEF StartConfig
<1>3. rx' \in Seq(Byte)
  BY DEF StartConfig, Fed, BytesTypeOK
<1> QED
  BY <1>1, <1>2, <1>3

(* More bytes after a complete design leave it complete. *)
LEMMA LoadedStays ==
  ASSUME NEW s \in Seq(Byte), NEW t \in Seq(Byte), DesignLoaded(s)
  PROVE  DesignLoaded(s \o t)
<1>1. PICK f \in GoodFile :
        /\ Len(s) >= Essential(f)
        /\ \A i \in 1 .. Essential(f) : s[i] = <<f, DataStart + i - 1>>
  BY DEF DesignLoaded
<1>2. Essential(f) \in Nat
  BY FileAssumption DEF Essential, GoodFile
<1>3. \A i \in 1 .. Essential(f) : (s \o t)[i] = s[i]
  BY <1>1, <1>2
<1>4. Len(s \o t) >= Essential(f)
  BY <1>1, <1>2
<1> QED
  BY <1>1, <1>3, <1>4 DEF DesignLoaded

(***************************************************************************)
(* The invariant holds initially and every step keeps it.                  *)
(***************************************************************************)

(* --- The pieces of a step --- *)

(* CLI_XILINX_CONFIGURE_INTRO leaves a size, a state and an FPGA of the    *)
(* right type: the data of the header lies inside aBuffer.                 *)
LEMMA ConfigIntroUsbType ==
  ASSUME IInv, ConfigIntroUsb
  PROVE  /\ fileSize' \in 0 .. MaxSize /\ cli' \in CliState
         /\ rx' \in Seq(Byte)
<1> USE DEF IInv, TypeOK
<1>1. CASE flashAddr > Threshold
  <2>1. /\ flashAddr - DataStart \in 0 .. MaxSize
        /\ DataStart + (flashAddr - DataStart) <= BufLen
    BY <1>1, Sizes DEF ConfigIntroUsb, At, PlaceOK, FillOK, InIntro, CpuTypeOK
  <2>2. StartConfig(aBuffer, flashAddr)
    BY <1>1 DEF ConfigIntroUsb
  <2>3. Slice(aBuffer, DataStart, flashAddr - DataStart) \in Seq(Byte)
    BY <2>1, Sizes, SliceType DEF BytesTypeOK
  <2>4. Minus(ExtractSize(aBuffer), flashAddr - DataStart) \in 0 .. MaxSize
    BY <2>1, SizeType
  <2> QED
    BY <2>2, <2>3, <2>4, StartConfigType DEF CliState
<1>2. CASE ~(flashAddr > Threshold)
  BY <1>2 DEF ConfigIntroUsb, CpuTypeOK, BytesTypeOK
<1> QED
  BY <1>1, <1>2

(* The same when the buffer was read from the flash.                       *)
LEMMA ConfigIntroSpiType ==
  ASSUME IInv, ConfigIntroSpi
  PROVE  /\ fileSize' \in 0 .. MaxSize /\ cli' \in CliState
         /\ rx' \in Seq(Byte)
         /\ aBuffer' \in [0 .. BufLen - 1 -> Byte]
         /\ flashAddr' \in Nat
<1> USE DEF IInv, TypeOK
<1>1. FlashBlock(flashAddr) \in [0 .. BufLen - 1 -> Byte]
  BY FlashBlockType DEF CpuTypeOK, BytesTypeOK
<1>2. flashAddr = 0
  BY DEF ConfigIntroSpi, At, SourceOK
<1>3. /\ (flashAddr + BufLen) - DataStart \in 0 .. MaxSize
      /\ DataStart + ((flashAddr + BufLen) - DataStart) <= BufLen
  BY <1>2, Sizes
<1>4. StartConfig(FlashBlock(flashAddr), flashAddr + BufLen)
  BY DEF ConfigIntroSpi
<1>5. Slice(FlashBlock(flashAddr), DataStart, (flashAddr + BufLen) - DataStart)
        \in Seq(Byte)
  BY <1>1, <1>3, Sizes, SliceType
<1>6. Minus(ExtractSize(FlashBlock(flashAddr)), (flashAddr + BufLen) - DataStart)
        \in 0 .. MaxSize
  BY <1>3, SizeType
<1>7. fileSize' \in 0 .. MaxSize /\ cli' \in CliState /\ rx' \in Seq(Byte)
  BY <1>4, <1>5, <1>6, StartConfigType DEF CliState
<1> QED
  BY <1>1, <1>7, Sizes

(* CLI_XILINX_CONFIGURE_BODY appends bytes of the buffer to what the FPGA  *)
(* has got.                                                                *)
LEMMA ConfigBodyUsbType ==
  ASSUME IInv, ConfigBodyUsb
  PROVE  \E s \in Seq(Byte) : Fed(rx \o s, done)
<1> DEFINE len == IF fileSize < cnt THEN fileSize ELSE cnt
<1>1. len \in Nat /\ 0 + len <= BufLen
  BY Sizes DEF IInv, TypeOK, CpuTypeOK, ConfigBodyUsb, At, PlaceOK, FillOK,
     InIntro
<1>2. Slice(aBuffer, 0, len) \in Seq(Byte)
  BY <1>1, SliceType DEF IInv, TypeOK, BytesTypeOK
<1> QED
  BY <1>2 DEF ConfigBodyUsb, FeedBlock

(* The same when the buffer was read from the flash.                       *)
LEMMA ConfigBodySpiType ==
  ASSUME IInv, ConfigBodySpi
  PROVE  /\ \E s \in Seq(Byte) : Fed(rx \o s, done)
         /\ aBuffer' \in [0 .. BufLen - 1 -> Byte]
<1> DEFINE len == IF fileSize < BufLen THEN fileSize ELSE BufLen
<1>1. len \in Nat /\ 0 + len <= BufLen
  BY Sizes DEF IInv, TypeOK, CpuTypeOK
<1>2. FlashBlock(flashAddr) \in [0 .. BufLen - 1 -> Byte]
  BY FlashBlockType DEF IInv, TypeOK, CpuTypeOK, BytesTypeOK
<1>3. Slice(FlashBlock(flashAddr), 0, len) \in Seq(Byte)
  BY <1>1, <1>2, SliceType
<1> QED
  BY <1>2, <1>3 DEF ConfigBodySpi, FeedBlock, FillBuffer

(* Appending keeps the FPGA well typed, and DONE true only of a complete   *)
(* design.                                                                 *)
LEMMA FedLoaded ==
  ASSUME IInv, NEW s \in Seq(Byte), Fed(rx \o s, done)
  PROVE  rx' \in Seq(Byte) /\ (done' => DesignLoaded(rx'))
<1>1. rx' = rx \o s /\ rx \in Seq(Byte)
  BY DEF Fed, IInv, TypeOK, BytesTypeOK
<1>2. CASE done
  BY <1>1, <1>2, LoadedStays DEF IInv, FpgaOK
<1>3. CASE ~done /\ ~DesignLoaded(rx \o s)
  <2>1. done' \in {done}
    BY <1>3 DEF Fed
  <2>2. done' = done
    BY <2>1
  <2> QED
    BY <1>1, <1>3, <2>2
<1>4. CASE DesignLoaded(rx \o s)
  BY <1>1, <1>4
<1> QED
  BY <1>1, <1>2, <1>3, <1>4

(* --- Every step keeps each part of the invariant --- *)

(* mode, cliState, the place in the loop and the counters.                 *)
LEMMA CpuStep == IInv /\ [Next]_vars => CpuTypeOK'
<1> SUFFICES ASSUME IInv, [Next]_vars PROVE CpuTypeOK'
  OBVIOUS
<1> USE DEF IInv, TypeOK, CpuTypeOK, BytesTypeOK, CliState, PlaceOK, FillOK
<1>1. CASE WaitForConnect
  BY <1>1 DEF WaitForConnect
<1>2. CASE FlashInfo
  BY <1>2 DEF FlashInfo
<1>3. CASE Listen
  BY <1>3 DEF Listen
<1>4. CASE TakeCommand
  BY <1>4 DEF TakeCommand
<1>5. CASE EraseDone
  BY <1>5, Sizes DEF EraseDone
<1>6. CASE TriggerConfig
  BY <1>6, Sizes DEF TriggerConfig
<1>7. CASE Poll
  BY <1>7, ReceiveType DEF Poll
<1>8. CASE Take
  BY <1>8 DEF Take, FromUsb
<1>9. CASE ConfigIntroUsb
  BY <1>9, ConfigIntroUsbType DEF ConfigIntroUsb
<1>10. CASE ConfigIntroSpi
  BY <1>10, ConfigIntroSpiType DEF ConfigIntroSpi
<1>11. CASE ConfigBodyUsb
  BY <1>11, Sizes DEF ConfigBodyUsb, FeedBlock
<1>12. CASE ConfigBodySpi
  BY <1>12, Sizes DEF ConfigBodySpi, FeedBlock
<1>13. CASE FinishSuccess
  BY <1>13 DEF FinishSuccess
<1>14. CASE FinishFail
  BY <1>14 DEF FinishFail
<1>15. CASE StoreIntro
  <2>1. fileSize' \in 0 .. MaxSize
    BY <1>15, SizeType DEF StoreIntro
  <2> QED
    BY <1>15, <2>1 DEF StoreIntro
<1>16. CASE StoreBody
  BY <1>16 DEF StoreBody, StoreCheck
<1>17. CASE WriteFlash
  BY <1>17 DEF WriteFlash, Chunk, StoreCheck
<1>18. CASE MainLoop
  BY <1>18, Sizes DEF MainLoop
<1>19. CASE AppReceive
  BY <1>19 DEF AppReceive
<1>20. CASE AppReturn
  BY <1>20 DEF AppReturn
<1>21. CASE Watchdog
  BY <1>21, Sizes DEF Watchdog, Restart
<1>22. CASE LoaderExit
  BY <1>22 DEF LoaderExit
<1>23. CASE BaudBootloader
  BY <1>23 DEF BaudBootloader
<1>24. CASE BaudManual
  BY <1>24 DEF BaudManual
<1>25. CASE ResetButton
  BY <1>25, Sizes DEF ResetButton, Restart
<1>26. CASE PowerCycle
  BY <1>26, Sizes DEF PowerCycle, Restart
<1>27. CASE HostOpen
  BY <1>27 DEF HostOpen, cpuVars
<1>28. CASE HostType
  BY <1>28 DEF HostType, cpuVars
<1>29. CASE HostPickFile
  BY <1>29 DEF HostPickFile, cpuVars
<1>30. CASE HostSend
  BY <1>30 DEF HostSend, cpuVars
<1>31. CASE Suspend
  BY <1>31 DEF Suspend, cpuVars
<1>32. CASE BusReset
  BY <1>32 DEF BusReset, cpuVars
<1>33. CASE UNCHANGED vars
  BY <1>33 DEF vars
<1> QED
  BY <1>1, <1>2, <1>3, <1>4, <1>5, <1>6, <1>7, <1>8, <1>9, <1>10, <1>11,
     <1>12, <1>13, <1>14, <1>15, <1>16, <1>17, <1>18, <1>19, <1>20, <1>21,
     <1>22, <1>23, <1>24, <1>25, <1>26, <1>27, <1>28, <1>29, <1>30, <1>31,
     <1>32, <1>33 DEF Next, Cpu, Cli, Environment

(* The keys, the FPGA pin, the bus and the host.                           *)
LEMMA BoardStep == IInv /\ [Next]_vars => BoardTypeOK'
<1> SUFFICES ASSUME IInv, [Next]_vars PROVE BoardTypeOK'
  OBVIOUS
<1> USE DEF IInv, TypeOK, BoardTypeOK, NoFile, KeyIn
<1>1. CASE WaitForConnect
  BY <1>1 DEF WaitForConnect, fpgaVars, hostVars
<1>2. CASE FlashInfo
  BY <1>2 DEF FlashInfo, fpgaVars, hostVars, FillBuffer
<1>3. CASE Listen
  BY <1>3 DEF Listen, fpgaVars, hostVars
<1>4. CASE TakeCommand
  BY <1>4 DEF TakeCommand, fpgaVars, hostVars
<1>5. CASE EraseDone
  BY <1>5 DEF EraseDone, fpgaVars
<1>6. CASE TriggerConfig
  BY <1>6 DEF TriggerConfig, fpgaVars, hostVars
<1>7. CASE Poll
  BY <1>7 DEF Poll, fpgaVars, hostVars
<1>8. CASE Take
  BY <1>8 DEF Take, fpgaVars, hostVars
<1>9. CASE ConfigIntroUsb
  BY <1>9 DEF ConfigIntroUsb, hostVars, StartConfig, Fed
<1>10. CASE ConfigIntroSpi
  BY <1>10 DEF ConfigIntroSpi, hostVars, FillBuffer, StartConfig, Fed
<1>11. CASE ConfigBodyUsb
  BY <1>11 DEF ConfigBodyUsb, hostVars, FeedBlock, Fed
<1>12. CASE ConfigBodySpi
  BY <1>12 DEF ConfigBodySpi, hostVars, FillBuffer, FeedBlock, Fed
<1>13. CASE FinishSuccess
  BY <1>13 DEF FinishSuccess, hostVars
<1>14. CASE FinishFail
  BY <1>14 DEF FinishFail, fpgaVars, hostVars
<1>15. CASE StoreIntro
  BY <1>15 DEF StoreIntro, fpgaVars, hostVars
<1>16. CASE StoreBody
  BY <1>16 DEF StoreBody, fpgaVars, hostVars
<1>17. CASE WriteFlash
  BY <1>17 DEF WriteFlash, fpgaVars, hostVars
<1>18. CASE MainLoop
  BY <1>18 DEF MainLoop, fpgaVars, hostVars
<1>19. CASE AppReceive
  BY <1>19 DEF AppReceive, hostVars, XilinxReset
<1>20. CASE AppReturn
  BY <1>20 DEF AppReturn, fpgaVars, hostVars
<1>21. CASE Watchdog
  BY <1>21 DEF Watchdog, Restart
<1>22. CASE LoaderExit
  BY <1>22 DEF LoaderExit, fpgaVars, hostVars
<1>23. CASE BaudBootloader
  <2>1. left' \in [cmd : Nat, file : Nat, baud : Nat, reset : Nat, drop : Nat,
                   fault : Nat]
    BY <1>23 DEF BaudBootloader
  <2> QED
    BY <1>23, <2>1 DEF BaudBootloader, fpgaVars
<1>24. CASE BaudManual
  <2>1. left' \in [cmd : Nat, file : Nat, baud : Nat, reset : Nat, drop : Nat,
                   fault : Nat]
    BY <1>24 DEF BaudManual
  <2> QED
    BY <1>24, <2>1 DEF BaudManual, XilinxReset, ManualKeys
<1>25. CASE ResetButton
  BY <1>25 DEF ResetButton, Restart
<1>26. CASE PowerCycle
  <2>1. left' \in [cmd : Nat, file : Nat, baud : Nat, reset : Nat, drop : Nat,
                   fault : Nat]
    BY <1>26 DEF PowerCycle
  <2> QED
    BY <1>26, <2>1 DEF PowerCycle, Restart, XilinxReset
<1>27. CASE HostOpen
  BY <1>27 DEF HostOpen, fpgaVars, hostVars
<1>28. CASE HostType
  BY <1>28 DEF HostType, fpgaVars, hostVars
<1>29. CASE HostPickFile
  BY <1>29 DEF HostPickFile, fpgaVars
<1>30. CASE HostSend
  BY <1>30 DEF HostSend, fpgaVars
<1>31. CASE Suspend
  BY <1>31 DEF Suspend, fpgaVars, hostVars
<1>32. CASE BusReset
  BY <1>32 DEF BusReset, fpgaVars
<1>33. CASE UNCHANGED vars
  BY <1>33 DEF vars
<1> QED
  BY <1>1, <1>2, <1>3, <1>4, <1>5, <1>6, <1>7, <1>8, <1>9, <1>10, <1>11,
     <1>12, <1>13, <1>14, <1>15, <1>16, <1>17, <1>18, <1>19, <1>20, <1>21,
     <1>22, <1>23, <1>24, <1>25, <1>26, <1>27, <1>28, <1>29, <1>30, <1>31,
     <1>32, <1>33 DEF Next, Cpu, Cli, Environment

(* aBuffer, the flash, what the FPGA got and the endpoint hold bytes.      *)
LEMMA BytesStep == IInv /\ [Next]_vars => BytesTypeOK'
<1> SUFFICES ASSUME IInv, [Next]_vars PROVE BytesTypeOK'
  OBVIOUS
<1> USE DEF IInv, TypeOK, BytesTypeOK, CpuTypeOK
<1>1. CASE WaitForConnect
  BY <1>1, ReceiveType DEF WaitForConnect, fpgaVars
<1>2. CASE FlashInfo
  BY <1>2, FlashBlockType DEF FlashInfo, fpgaVars, FillBuffer
<1>3. CASE Listen
  <2>1. ep' = ep \/ ep' = <<>>
    BY <1>3 DEF Listen
  <2>2. ep' \in Seq(Byte) /\ Len(ep') <= EpSize
    BY <2>1, EmptiedType
  <2> QED
    BY <1>3, <2>2 DEF Listen, fpgaVars
<1>4. CASE TakeCommand
  BY <1>4, ReceiveType DEF TakeCommand, fpgaVars
<1>5. CASE EraseDone
  BY <1>5, ErasedType DEF EraseDone, fpgaVars
<1>6. CASE TriggerConfig
  BY <1>6 DEF TriggerConfig, fpgaVars
<1>7. CASE Poll
  BY <1>7 DEF Poll, fpgaVars
<1>8. CASE Take
  BY <1>8, ReceiveType DEF Take, fpgaVars
<1>9. CASE ConfigIntroUsb
  BY <1>9, ConfigIntroUsbType DEF ConfigIntroUsb
<1>10. CASE ConfigIntroSpi
  BY <1>10, ConfigIntroSpiType DEF ConfigIntroSpi
<1>11. CASE ConfigBodyUsb
  BY <1>11, ConfigBodyUsbType, FedLoaded DEF ConfigBodyUsb
<1>12. CASE ConfigBodySpi
  BY <1>12, ConfigBodySpiType, FedLoaded DEF ConfigBodySpi
<1>13. CASE FinishSuccess
  BY <1>13 DEF FinishSuccess
<1>14. CASE FinishFail
  BY <1>14 DEF FinishFail, fpgaVars
<1>15. CASE StoreIntro
  BY <1>15 DEF StoreIntro, fpgaVars
<1>16. CASE StoreBody
  BY <1>16 DEF StoreBody, fpgaVars
<1>17. CASE WriteFlash
  <2>2. flash' \in [0 .. FlashLen - 1 -> Byte]
    BY <1>17, ChunkType DEF WriteFlash
  <2> QED
    BY <1>17, <2>2 DEF WriteFlash, fpgaVars
<1>18. CASE MainLoop
  BY <1>18 DEF MainLoop, fpgaVars
<1>19. CASE AppReceive
  <2>1. (ep' = ep \/ ep' = <<>>) /\ (rx' = rx \/ rx' = <<>>)
    BY <1>19 DEF AppReceive, XilinxReset
  <2>2. ep' \in Seq(Byte) /\ Len(ep') <= EpSize
    BY <2>1, EmptiedType
  <2>3. rx' \in Seq(Byte)
    BY <2>1, EmptySeq
  <2> QED
    BY <1>19, <2>2, <2>3 DEF AppReceive
<1>20. CASE AppReturn
  BY <1>20 DEF AppReturn, fpgaVars
<1>21. CASE Watchdog
  BY <1>21, Sizes DEF Watchdog, Restart
<1>22. CASE LoaderExit
  BY <1>22 DEF LoaderExit, fpgaVars
<1>23. CASE BaudBootloader
  BY <1>23, Sizes, FlashTypes DEF BaudBootloader, fpgaVars
<1>24. CASE BaudManual
  BY <1>24, Sizes, FlashTypes DEF BaudManual, XilinxReset
<1>25. CASE ResetButton
  BY <1>25, Sizes, FlashTypes DEF ResetButton, Restart
<1>26. CASE PowerCycle
  <2>1. flash' \in [0 .. FlashLen - 1 -> Byte] /\ deaf' \in BOOLEAN
    BY <1>26, FlashTypes DEF PowerCycle
  <2>2. aBuffer' \in [0 .. BufLen - 1 -> Byte] /\ rx' = <<>> /\ ep' = <<>>
    BY <1>26, SomeBytes DEF PowerCycle, Restart, XilinxReset
  <2> QED
    BY <2>1, <2>2, Sizes, EmptySeq
<1>27. CASE HostOpen
  BY <1>27 DEF HostOpen, fpgaVars, cpuVars
<1>28. CASE HostType
  BY <1>28, SomeBytes, Sizes DEF HostType, fpgaVars, cpuVars
<1>29. CASE HostPickFile
  BY <1>29 DEF HostPickFile, fpgaVars, cpuVars
<1>30. CASE HostSend
  <2>1. ep' \in Seq(Byte) /\ Len(ep') <= EpSize
    BY <1>30, SomeBytes DEF HostSend, Sending, BoardTypeOK
  <2> QED
    BY <1>30, <2>1 DEF HostSend, cpuVars, fpgaVars
<1>31. CASE Suspend
  BY <1>31 DEF Suspend, fpgaVars, cpuVars
<1>32. CASE BusReset
  BY <1>32, Sizes, FlashBlockType, FlashTypes DEF BusReset, fpgaVars, cpuVars
<1>33. CASE UNCHANGED vars
  BY <1>33 DEF vars
<1> QED
  BY <1>1, <1>2, <1>3, <1>4, <1>5, <1>6, <1>7, <1>8, <1>9, <1>10, <1>11,
     <1>12, <1>13, <1>14, <1>15, <1>16, <1>17, <1>18, <1>19, <1>20, <1>21,
     <1>22, <1>23, <1>24, <1>25, <1>26, <1>27, <1>28, <1>29, <1>30, <1>31,
     <1>32, <1>33 DEF Next, Cpu, Cli, Environment

(* The place in an iteration of the loop fits the state it is in.          *)
LEMMA PlaceStep == IInv /\ [Next]_vars => PlaceOK'
<1> SUFFICES ASSUME IInv, [Next]_vars PROVE PlaceOK'
  OBVIOUS
<1> USE DEF IInv, PlaceOK, FromUsb
<1>1. CASE WaitForConnect
  BY <1>1 DEF WaitForConnect, At
<1>2. CASE FlashInfo
  BY <1>2 DEF FlashInfo, At
<1>3. CASE Listen
  BY <1>3 DEF Listen, At
<1>4. CASE TakeCommand
  BY <1>4 DEF TakeCommand
<1>5. CASE EraseDone
  BY <1>5 DEF EraseDone
<1>6. CASE TriggerConfig
  BY <1>6 DEF TriggerConfig, At
<1>7. CASE Poll
  BY <1>7 DEF Poll
<1>8. CASE Take
  BY <1>8 DEF Take
<1>9. CASE ConfigIntroUsb
  BY <1>9 DEF ConfigIntroUsb
<1>10. CASE ConfigIntroSpi
  BY <1>10 DEF ConfigIntroSpi, At
<1>11. CASE ConfigBodyUsb
  BY <1>11 DEF ConfigBodyUsb
<1>12. CASE ConfigBodySpi
  BY <1>12 DEF ConfigBodySpi, At
<1>13. CASE FinishSuccess
  BY <1>13 DEF FinishSuccess
<1>14. CASE FinishFail
  BY <1>14 DEF FinishFail, At
<1>15. CASE StoreIntro
  BY <1>15 DEF StoreIntro, At
<1>16. CASE StoreBody
  BY <1>16 DEF StoreBody, At
<1>17. CASE WriteFlash
  BY <1>17 DEF WriteFlash
<1>18. CASE MainLoop
  BY <1>18 DEF MainLoop
<1>19. CASE AppReceive
  BY <1>19 DEF AppReceive
<1>20. CASE AppReturn
  BY <1>20 DEF AppReturn
<1>21. CASE Watchdog
  BY <1>21 DEF Watchdog
<1>22. CASE LoaderExit
  BY <1>22 DEF LoaderExit
<1>23. CASE BaudBootloader
  BY <1>23 DEF BaudBootloader
<1>24. CASE BaudManual
  BY <1>24 DEF BaudManual
<1>25. CASE ResetButton
  BY <1>25 DEF ResetButton
<1>26. CASE PowerCycle
  BY <1>26 DEF PowerCycle
<1>27. CASE HostOpen
  BY <1>27 DEF HostOpen, cpuVars
<1>28. CASE HostType
  BY <1>28 DEF HostType, cpuVars
<1>29. CASE HostPickFile
  BY <1>29 DEF HostPickFile, cpuVars
<1>30. CASE HostSend
  BY <1>30 DEF HostSend, cpuVars
<1>31. CASE Suspend
  BY <1>31 DEF Suspend, cpuVars
<1>32. CASE BusReset
  BY <1>32 DEF BusReset, cpuVars
<1>33. CASE UNCHANGED vars
  BY <1>33 DEF vars
<1> QED
  BY <1>1, <1>2, <1>3, <1>4, <1>5, <1>6, <1>7, <1>8, <1>9, <1>10, <1>11,
     <1>12, <1>13, <1>14, <1>15, <1>16, <1>17, <1>18, <1>19, <1>20, <1>21,
     <1>22, <1>23, <1>24, <1>25, <1>26, <1>27, <1>28, <1>29, <1>30, <1>31,
     <1>32, <1>33 DEF Next, Cpu, Cli, Environment

(* A configuration has a source, and one from flash starts at 0.           *)
LEMMA SourceStep == IInv /\ [Next]_vars => SourceOK'
<1> SUFFICES ASSUME IInv, [Next]_vars PROVE SourceOK'
  OBVIOUS
<1> USE DEF IInv, SourceOK, FromUsb
<1>1. CASE WaitForConnect
  BY <1>1 DEF WaitForConnect
<1>2. CASE FlashInfo
  BY <1>2 DEF FlashInfo
<1>3. CASE Listen
  BY <1>3 DEF Listen
<1>4. CASE TakeCommand
  BY <1>4 DEF TakeCommand
<1>5. CASE EraseDone
  BY <1>5 DEF EraseDone
<1>6. CASE TriggerConfig
  BY <1>6 DEF TriggerConfig, At
<1>7. CASE Poll
  BY <1>7 DEF Poll
<1>8. CASE Take
  BY <1>8 DEF Take
<1>9. CASE ConfigIntroUsb
  BY <1>9 DEF ConfigIntroUsb, At
<1>10. CASE ConfigIntroSpi
  BY <1>10 DEF ConfigIntroSpi, At, StartConfig
<1>11. CASE ConfigBodyUsb
  BY <1>11 DEF ConfigBodyUsb, At
<1>12. CASE ConfigBodySpi
  BY <1>12 DEF ConfigBodySpi, At, FeedBlock
<1>13. CASE FinishSuccess
  BY <1>13 DEF FinishSuccess
<1>14. CASE FinishFail
  BY <1>14 DEF FinishFail
<1>15. CASE StoreIntro
  BY <1>15 DEF StoreIntro, At
<1>16. CASE StoreBody
  BY <1>16 DEF StoreBody, At, StoreCheck
<1>17. CASE WriteFlash
  BY <1>17 DEF WriteFlash, StoreCheck
<1>18. CASE MainLoop
  BY <1>18 DEF MainLoop
<1>19. CASE AppReceive
  BY <1>19 DEF AppReceive
<1>20. CASE AppReturn
  BY <1>20 DEF AppReturn
<1>21. CASE Watchdog
  BY <1>21 DEF Watchdog
<1>22. CASE LoaderExit
  BY <1>22 DEF LoaderExit
<1>23. CASE BaudBootloader
  BY <1>23 DEF BaudBootloader
<1>24. CASE BaudManual
  BY <1>24 DEF BaudManual
<1>25. CASE ResetButton
  BY <1>25 DEF ResetButton
<1>26. CASE PowerCycle
  BY <1>26 DEF PowerCycle
<1>27. CASE HostOpen
  BY <1>27 DEF HostOpen, cpuVars
<1>28. CASE HostType
  BY <1>28 DEF HostType, cpuVars
<1>29. CASE HostPickFile
  BY <1>29 DEF HostPickFile, cpuVars
<1>30. CASE HostSend
  BY <1>30 DEF HostSend, cpuVars
<1>31. CASE Suspend
  BY <1>31 DEF Suspend, cpuVars
<1>32. CASE BusReset
  BY <1>32 DEF BusReset, cpuVars
<1>33. CASE UNCHANGED vars
  BY <1>33 DEF vars
<1> QED
  BY <1>1, <1>2, <1>3, <1>4, <1>5, <1>6, <1>7, <1>8, <1>9, <1>10, <1>11,
     <1>12, <1>13, <1>14, <1>15, <1>16, <1>17, <1>18, <1>19, <1>20, <1>21,
     <1>22, <1>23, <1>24, <1>25, <1>26, <1>27, <1>28, <1>29, <1>30, <1>31,
     <1>32, <1>33 DEF Next, Cpu, Cli, Environment

(* The fill level of aBuffer.                                              *)
LEMMA FillStep == IInv /\ [Next]_vars => FillOK'
<1> SUFFICES ASSUME IInv, [Next]_vars PROVE FillOK'
  OBVIOUS
<1> USE DEF IInv, PlaceOK, SourceOK, FillOK, FromUsb, InIntro, BlockSize, TypeOK, CpuTypeOK, BytesTypeOK
<1>1. CASE WaitForConnect
  BY <1>1 DEF WaitForConnect
<1>2. CASE FlashInfo
  BY <1>2 DEF FlashInfo
<1>3. CASE Listen
  BY <1>3 DEF Listen
<1>4. CASE TakeCommand
  BY <1>4 DEF TakeCommand
<1>5. CASE EraseDone
  BY <1>5, Sizes DEF EraseDone
<1>6. CASE TriggerConfig
  BY <1>6, Sizes DEF TriggerConfig, At
<1>7. CASE Poll
  BY <1>7, Sizes, ReceiveType DEF Poll
<1>8. CASE Take
  BY <1>8 DEF Take
<1>9. CASE ConfigIntroUsb
  <2>1. pc' = "poll" /\ UNCHANGED <<mode, src, flashAddr>>
    BY <1>9 DEF ConfigIntroUsb
  <2>2. CASE flashAddr > Threshold
    <3>1. cli' \in {"CFG_BODY", "PROMPT"}
      BY <1>9, <2>2 DEF ConfigIntroUsb, StartConfig
    <3> QED
      BY <2>1, <3>1
  <2>3. CASE flashAddr <= Threshold
    BY <1>9, <2>1, <2>3
  <2> QED
    BY <2>2, <2>3, Sizes
<1>10. CASE ConfigIntroSpi
  BY <1>10 DEF ConfigIntroSpi, StartConfig
<1>11. CASE ConfigBodyUsb
  BY <1>11 DEF ConfigBodyUsb, FeedBlock
<1>12. CASE ConfigBodySpi
  BY <1>12 DEF ConfigBodySpi, FeedBlock
<1>13. CASE FinishSuccess
  BY <1>13 DEF FinishSuccess
<1>14. CASE FinishFail
  BY <1>14 DEF FinishFail
<1>15. CASE StoreIntro
  BY <1>15, Sizes DEF StoreIntro, At
<1>16. CASE StoreBody
  BY <1>16 DEF StoreBody, At, StoreCheck
<1>17. CASE WriteFlash
  BY <1>17 DEF WriteFlash, StoreCheck
<1>18. CASE MainLoop
  BY <1>18 DEF MainLoop
<1>19. CASE AppReceive
  BY <1>19 DEF AppReceive
<1>20. CASE AppReturn
  BY <1>20 DEF AppReturn
<1>21. CASE Watchdog
  BY <1>21 DEF Watchdog
<1>22. CASE LoaderExit
  BY <1>22 DEF LoaderExit
<1>23. CASE BaudBootloader
  BY <1>23 DEF BaudBootloader
<1>24. CASE BaudManual
  BY <1>24 DEF BaudManual
<1>25. CASE ResetButton
  BY <1>25 DEF ResetButton
<1>26. CASE PowerCycle
  BY <1>26 DEF PowerCycle
<1>27. CASE HostOpen
  BY <1>27 DEF HostOpen, cpuVars
<1>28. CASE HostType
  BY <1>28 DEF HostType, cpuVars
<1>29. CASE HostPickFile
  BY <1>29 DEF HostPickFile, cpuVars
<1>30. CASE HostSend
  BY <1>30 DEF HostSend, cpuVars
<1>31. CASE Suspend
  BY <1>31 DEF Suspend, cpuVars
<1>32. CASE BusReset
  BY <1>32 DEF BusReset, cpuVars
<1>33. CASE UNCHANGED vars
  BY <1>33 DEF vars
<1> QED
  BY <1>1, <1>2, <1>3, <1>4, <1>5, <1>6, <1>7, <1>8, <1>9, <1>10, <1>11,
     <1>12, <1>13, <1>14, <1>15, <1>16, <1>17, <1>18, <1>19, <1>20, <1>21,
     <1>22, <1>23, <1>24, <1>25, <1>26, <1>27, <1>28, <1>29, <1>30, <1>31,
     <1>32, <1>33 DEF Next, Cpu, Cli, Environment

(* DONE is high only over a complete design.                               *)
LEMMA FpgaStep == IInv /\ [Next]_vars => FpgaOK'
<1> SUFFICES ASSUME IInv, [Next]_vars PROVE FpgaOK'
  OBVIOUS
<1> USE DEF IInv, FpgaOK
<1>1. CASE WaitForConnect
  BY <1>1 DEF WaitForConnect, fpgaVars
<1>2. CASE FlashInfo
  BY <1>2 DEF FlashInfo, fpgaVars
<1>3. CASE Listen
  BY <1>3 DEF Listen, fpgaVars
<1>4. CASE TakeCommand
  BY <1>4 DEF TakeCommand, fpgaVars
<1>5. CASE EraseDone
  BY <1>5 DEF EraseDone, fpgaVars
<1>6. CASE TriggerConfig
  BY <1>6 DEF TriggerConfig, fpgaVars
<1>7. CASE Poll
  BY <1>7 DEF Poll, fpgaVars
<1>8. CASE Take
  BY <1>8 DEF Take, fpgaVars
<1>9. CASE ConfigIntroUsb
  BY <1>9 DEF ConfigIntroUsb, StartConfig, Fed
<1>10. CASE ConfigIntroSpi
  BY <1>10 DEF ConfigIntroSpi, StartConfig, Fed
<1>11. CASE ConfigBodyUsb
  BY <1>11, ConfigBodyUsbType, FedLoaded
<1>12. CASE ConfigBodySpi
  BY <1>12, ConfigBodySpiType, FedLoaded
<1>13. CASE FinishSuccess
  BY <1>13 DEF FinishSuccess
<1>14. CASE FinishFail
  BY <1>14 DEF FinishFail, fpgaVars
<1>15. CASE StoreIntro
  BY <1>15 DEF StoreIntro, fpgaVars
<1>16. CASE StoreBody
  BY <1>16 DEF StoreBody, fpgaVars
<1>17. CASE WriteFlash
  BY <1>17 DEF WriteFlash, fpgaVars
<1>18. CASE MainLoop
  BY <1>18 DEF MainLoop, fpgaVars
<1>19. CASE AppReceive
  BY <1>19 DEF AppReceive, XilinxReset
<1>20. CASE AppReturn
  BY <1>20 DEF AppReturn, fpgaVars
<1>21. CASE Watchdog
  BY <1>21 DEF Watchdog
<1>22. CASE LoaderExit
  BY <1>22 DEF LoaderExit, fpgaVars
<1>23. CASE BaudBootloader
  BY <1>23 DEF BaudBootloader, fpgaVars
<1>24. CASE BaudManual
  BY <1>24 DEF BaudManual, XilinxReset
<1>25. CASE ResetButton
  BY <1>25 DEF ResetButton
<1>26. CASE PowerCycle
  BY <1>26 DEF PowerCycle, XilinxReset
<1>27. CASE HostOpen
  BY <1>27 DEF HostOpen, fpgaVars
<1>28. CASE HostType
  BY <1>28 DEF HostType, fpgaVars
<1>29. CASE HostPickFile
  BY <1>29 DEF HostPickFile, fpgaVars
<1>30. CASE HostSend
  BY <1>30 DEF HostSend, fpgaVars
<1>31. CASE Suspend
  BY <1>31 DEF Suspend, fpgaVars
<1>32. CASE BusReset
  BY <1>32 DEF BusReset, fpgaVars
<1>33. CASE UNCHANGED vars
  BY <1>33 DEF vars
<1> QED
  BY <1>1, <1>2, <1>3, <1>4, <1>5, <1>6, <1>7, <1>8, <1>9, <1>10, <1>11,
     <1>12, <1>13, <1>14, <1>15, <1>16, <1>17, <1>18, <1>19, <1>20, <1>21,
     <1>22, <1>23, <1>24, <1>25, <1>26, <1>27, <1>28, <1>29, <1>30, <1>31,
     <1>32, <1>33 DEF Next, Cpu, Cli, Environment

(* applicationLoop runs only while DONE is high.                           *)
LEMMA AppStep == IInv /\ [Next]_vars => (mode = "app" => done)'
<1> SUFFICES ASSUME IInv, [Next]_vars PROVE (mode = "app" => done)'
  OBVIOUS
<1> USE DEF IInv, PlaceOK
<1>1. CASE WaitForConnect
  BY <1>1 DEF WaitForConnect, fpgaVars
<1>2. CASE FlashInfo
  BY <1>2 DEF FlashInfo, fpgaVars
<1>3. CASE Listen
  BY <1>3 DEF Listen, fpgaVars
<1>4. CASE TakeCommand
  BY <1>4 DEF TakeCommand, fpgaVars
<1>5. CASE EraseDone
  BY <1>5 DEF EraseDone
<1>6. CASE TriggerConfig
  BY <1>6 DEF TriggerConfig, fpgaVars
<1>7. CASE Poll
  BY <1>7 DEF Poll, fpgaVars
<1>8. CASE Take
  BY <1>8 DEF Take, fpgaVars
<1>9. CASE ConfigIntroUsb
  BY <1>9 DEF ConfigIntroUsb, At
<1>10. CASE ConfigIntroSpi
  BY <1>10 DEF ConfigIntroSpi, At
<1>11. CASE ConfigBodyUsb
  BY <1>11 DEF ConfigBodyUsb, FeedBlock, Fed
<1>12. CASE ConfigBodySpi
  BY <1>12 DEF ConfigBodySpi, FeedBlock, Fed
<1>13. CASE FinishSuccess
  BY <1>13 DEF FinishSuccess
<1>14. CASE FinishFail
  BY <1>14 DEF FinishFail
<1>15. CASE StoreIntro
  BY <1>15 DEF StoreIntro, fpgaVars
<1>16. CASE StoreBody
  BY <1>16 DEF StoreBody, fpgaVars
<1>17. CASE WriteFlash
  BY <1>17 DEF WriteFlash
<1>18. CASE MainLoop
  BY <1>18 DEF MainLoop, fpgaVars
<1>19. CASE AppReceive
  BY <1>19 DEF AppReceive
<1>20. CASE AppReturn
  BY <1>20 DEF AppReturn
<1>21. CASE Watchdog
  BY <1>21 DEF Watchdog
<1>22. CASE LoaderExit
  BY <1>22 DEF LoaderExit
<1>23. CASE BaudBootloader
  BY <1>23 DEF BaudBootloader
<1>24. CASE BaudManual
  BY <1>24 DEF BaudManual
<1>25. CASE ResetButton
  BY <1>25 DEF ResetButton
<1>26. CASE PowerCycle
  BY <1>26 DEF PowerCycle
<1>27. CASE HostOpen
  BY <1>27 DEF HostOpen, fpgaVars, cpuVars
<1>28. CASE HostType
  BY <1>28 DEF HostType, fpgaVars, cpuVars
<1>29. CASE HostPickFile
  BY <1>29 DEF HostPickFile, fpgaVars, cpuVars
<1>30. CASE HostSend
  BY <1>30 DEF HostSend, fpgaVars, cpuVars
<1>31. CASE Suspend
  BY <1>31 DEF Suspend, fpgaVars, cpuVars
<1>32. CASE BusReset
  BY <1>32 DEF BusReset, fpgaVars, cpuVars
<1>33. CASE UNCHANGED vars
  BY <1>33 DEF vars
<1> QED
  BY <1>1, <1>2, <1>3, <1>4, <1>5, <1>6, <1>7, <1>8, <1>9, <1>10, <1>11,
     <1>12, <1>13, <1>14, <1>15, <1>16, <1>17, <1>18, <1>19, <1>20, <1>21,
     <1>22, <1>23, <1>24, <1>25, <1>26, <1>27, <1>28, <1>29, <1>30, <1>31,
     <1>32, <1>33 DEF Next, Cpu, Cli, Environment

(* The key stays and the FPGA stays empty from the request for the         *)
(* command line to its first byte.                                         *)
LEMMA ManualStep == IInv /\ ManualOK /\ [Next]_vars => ManualOK'
<1> SUFFICES ASSUME IInv, ManualOK, [Next]_vars PROVE ManualOK'
  OBVIOUS
<1> USE DEF IInv, PlaceOK, ManualOK, FromUsb, At
<1>1. CASE WaitForConnect
  BY <1>1 DEF WaitForConnect, fpgaVars
<1>2. CASE FlashInfo
  BY <1>2 DEF FlashInfo, At
<1>3. CASE Listen
  BY <1>3 DEF Listen, At
<1>4. CASE TakeCommand
  BY <1>4 DEF TakeCommand, At
<1>5. CASE EraseDone
  BY <1>5 DEF EraseDone
<1>6. CASE TriggerConfig
  BY <1>6 DEF TriggerConfig, At
<1>7. CASE Poll
  BY <1>7 DEF Poll
<1>8. CASE Take
  BY <1>8 DEF Take
<1>9. CASE ConfigIntroUsb
  BY <1>9 DEF ConfigIntroUsb, At
<1>10. CASE ConfigIntroSpi
  BY <1>10 DEF ConfigIntroSpi, At
<1>11. CASE ConfigBodyUsb
  BY <1>11 DEF ConfigBodyUsb, At
<1>12. CASE ConfigBodySpi
  BY <1>12 DEF ConfigBodySpi, At
<1>13. CASE FinishSuccess
  BY <1>13 DEF FinishSuccess, At
<1>14. CASE FinishFail
  BY <1>14 DEF FinishFail, At
<1>15. CASE StoreIntro
  BY <1>15 DEF StoreIntro, At
<1>16. CASE StoreBody
  BY <1>16 DEF StoreBody, At
<1>17. CASE WriteFlash
  BY <1>17 DEF WriteFlash
<1>18. CASE MainLoop
  BY <1>18 DEF MainLoop, fpgaVars
<1>19. CASE AppReceive
  <2>1. mode = "app" /\ ~manual
    BY <1>19 DEF AppReceive
  <2>2. CASE mode' = mode /\ manual' = manual
    BY <2>1, <2>2
  <2>3. CASE mode' = "unwind" /\ done' = FALSE
    BY <2>3
  <2> QED
    BY <1>19, <2>2, <2>3 DEF AppReceive, XilinxReset
<1>20. CASE AppReturn
  BY <1>20 DEF AppReturn, fpgaVars
<1>21. CASE Watchdog
  BY <1>21 DEF Watchdog
<1>22. CASE LoaderExit
  BY <1>22 DEF LoaderExit, fpgaVars
<1>23. CASE BaudBootloader
  BY <1>23 DEF BaudBootloader
<1>24. CASE BaudManual
  BY <1>24 DEF BaudManual, XilinxReset, ManualKeys
<1>25. CASE ResetButton
  BY <1>25 DEF ResetButton
<1>26. CASE PowerCycle
  BY <1>26 DEF PowerCycle
<1>27. CASE HostOpen
  BY <1>27 DEF HostOpen, fpgaVars, cpuVars
<1>28. CASE HostType
  BY <1>28 DEF HostType, fpgaVars, cpuVars
<1>29. CASE HostPickFile
  BY <1>29 DEF HostPickFile, fpgaVars, cpuVars
<1>30. CASE HostSend
  BY <1>30 DEF HostSend, fpgaVars, cpuVars
<1>31. CASE Suspend
  BY <1>31 DEF Suspend, fpgaVars, cpuVars
<1>32. CASE BusReset
  BY <1>32 DEF BusReset, fpgaVars, cpuVars
<1>33. CASE UNCHANGED vars
  BY <1>33 DEF vars
<1> QED
  BY <1>1, <1>2, <1>3, <1>4, <1>5, <1>6, <1>7, <1>8, <1>9, <1>10, <1>11,
     <1>12, <1>13, <1>14, <1>15, <1>16, <1>17, <1>18, <1>19, <1>20, <1>21,
     <1>22, <1>23, <1>24, <1>25, <1>26, <1>27, <1>28, <1>29, <1>30, <1>31,
     <1>32, <1>33 DEF Next, Cpu, Cli, Environment

(* Until then no step gives bytes to the FPGA.                             *)
LEMMA ManualSafe == IInv /\ ManualOK /\ manual /\ [Next]_vars => Len(rx') <= Len(rx)
<1> SUFFICES ASSUME IInv, ManualOK, manual, [Next]_vars PROVE Len(rx') <= Len(rx)
  OBVIOUS
<1> USE DEF IInv, PlaceOK, ManualOK, FromUsb, At
<1>1. CASE WaitForConnect
  BY <1>1 DEF WaitForConnect, fpgaVars
<1>2. CASE FlashInfo
  BY <1>2 DEF FlashInfo, fpgaVars
<1>3. CASE Listen
  BY <1>3 DEF Listen, fpgaVars
<1>4. CASE TakeCommand
  BY <1>4 DEF TakeCommand, fpgaVars
<1>5. CASE EraseDone
  BY <1>5 DEF EraseDone
<1>6. CASE TriggerConfig
  BY <1>6 DEF TriggerConfig, fpgaVars
<1>7. CASE Poll
  BY <1>7 DEF Poll
<1>8. CASE Take
  BY <1>8 DEF Take
<1>9. CASE ConfigIntroUsb
  BY <1>9 DEF ConfigIntroUsb, At
<1>10. CASE ConfigIntroSpi
  BY <1>10 DEF ConfigIntroSpi, At
<1>11. CASE ConfigBodyUsb
  BY <1>11 DEF ConfigBodyUsb, At
<1>12. CASE ConfigBodySpi
  BY <1>12 DEF ConfigBodySpi, At
<1>13. CASE FinishSuccess
  BY <1>13 DEF FinishSuccess
<1>14. CASE FinishFail
  BY <1>14 DEF FinishFail, fpgaVars
<1>15. CASE StoreIntro
  BY <1>15 DEF StoreIntro, fpgaVars
<1>16. CASE StoreBody
  BY <1>16 DEF StoreBody, fpgaVars
<1>17. CASE WriteFlash
  BY <1>17 DEF WriteFlash
<1>18. CASE MainLoop
  BY <1>18 DEF MainLoop, fpgaVars
<1>19. CASE AppReceive
  BY <1>19 DEF AppReceive
<1>20. CASE AppReturn
  BY <1>20 DEF AppReturn, fpgaVars
<1>21. CASE Watchdog
  BY <1>21 DEF Watchdog
<1>22. CASE LoaderExit
  BY <1>22 DEF LoaderExit, fpgaVars
<1>23. CASE BaudBootloader
  BY <1>23 DEF BaudBootloader, fpgaVars
<1>24. CASE BaudManual
  BY <1>24 DEF BaudManual, XilinxReset
<1>25. CASE ResetButton
  BY <1>25 DEF ResetButton
<1>26. CASE PowerCycle
  BY <1>26 DEF PowerCycle, XilinxReset
<1>27. CASE HostOpen
  BY <1>27 DEF HostOpen, fpgaVars
<1>28. CASE HostType
  BY <1>28 DEF HostType, fpgaVars
<1>29. CASE HostPickFile
  BY <1>29 DEF HostPickFile, fpgaVars
<1>30. CASE HostSend
  BY <1>30 DEF HostSend, fpgaVars
<1>31. CASE Suspend
  BY <1>31 DEF Suspend, fpgaVars
<1>32. CASE BusReset
  BY <1>32 DEF BusReset, fpgaVars
<1>33. CASE UNCHANGED vars
  BY <1>33 DEF vars
<1> QED
  BY <1>1, <1>2, <1>3, <1>4, <1>5, <1>6, <1>7, <1>8, <1>9, <1>10, <1>11,
     <1>12, <1>13, <1>14, <1>15, <1>16, <1>17, <1>18, <1>19, <1>20, <1>21,
     <1>22, <1>23, <1>24, <1>25, <1>26, <1>27, <1>28, <1>29, <1>30, <1>31,
     <1>32, <1>33 DEF Next, Cpu, Cli, Environment

(* --- Theorems --- *)

(* The power-on state satisfies the invariant. *)
THEOREM InitInv == Init => IInv /\ ManualOK
<1> SUFFICES ASSUME Init PROVE IInv /\ ManualOK
  OBVIOUS
<1>1. CpuTypeOK
  BY Sizes DEF Init, CpuTypeOK, CliState
<1>2. BytesTypeOK
  <2>1. \A f \in File : StoredFile(f) \in [0 .. FlashLen - 1 -> Byte]
    <3> SUFFICES ASSUME NEW f \in File, NEW a \in 0 .. FlashLen - 1
                 PROVE  (IF a < FileLen(f) THEN <<f, a>> ELSE Blank) \in Byte
      BY DEF StoredFile
    <3>1. a \in Nat
      OBVIOUS
    <3> QED
      BY <3>1, SomeBytes
  <2>2. flash \in [0 .. FlashLen - 1 -> Byte]
    BY <2>1, SomeBytes DEF Init, ErasedFlash, GoodFile
  <2> QED
    BY <2>2, Sizes DEF Init, BytesTypeOK
<1>3. BoardTypeOK
  BY BudgetAssumption DEF Init, BoardTypeOK
<1> QED
  BY <1>1, <1>2, <1>3 DEF Init, IInv, TypeOK, PlaceOK, FillOK, SourceOK,
     FpgaOK, ManualOK

(* The invariant IInv holds in every state the board can reach. *)
THEOREM Invariance == Spec => [](IInv /\ ManualOK)
<1>1. IInv /\ ManualOK /\ [Next]_vars => (IInv /\ ManualOK)'
  BY CpuStep, BoardStep, BytesStep, PlaceStep, SourceStep, FillStep, FpgaStep,
     AppStep, ManualStep DEF IInv, TypeOK
<1> QED
  BY <1>1, InitInv, PTL DEF Spec

(* Type correctness, for every buffer, endpoint and flash size, file and   *)
(* number of commands, resets and bus events.                              *)
THEOREM TypeCorrect == Spec => []TypeOK
<1>1. IInv => TypeOK
  BY DEF IInv
<1> QED
  BY <1>1, Invariance, PTL

(* aBuffer is never overrun by the packet loops.                           *)
THEOREM BufferSafe == Spec => []BufferBound
<1>1. IInv => BufferBound
  <2> SUFFICES ASSUME IInv, mode = "cli", pc = "take"
               PROVE  IF FromUsb THEN TakeIndex + n <= BufLen ELSE cli = "PROMPT"
    BY DEF BufferBound
  <2>1. CASE FromUsb
    BY <2>1, Sizes DEF IInv, TypeOK, CpuTypeOK, FillOK, TakeIndex
  <2>2. CASE ~FromUsb
    BY <2>2 DEF IInv, PlaceOK
  <2> QED
    BY <2>1, <2>2
<1> QED
  BY <1>1, Invariance, PTL

(* The application loop runs only over a complete design.                  *)
THEOREM AppSafe == Spec => []AppOnlyConfigured
<1>1. IInv => AppOnlyConfigured
  BY DEF IInv, FpgaOK, AppOnlyConfigured
<1> QED
  BY <1>1, Invariance, PTL

(* After 2400 baud or #R the FPGA gets nothing before the user speaks.     *)
THEOREM ManualSafety == Spec => ManualModeHolds
<1>1. IInv /\ ManualOK /\ [Next]_vars => [manual => Len(rx') <= Len(rx)]_vars
  BY ManualSafe
<1> QED
  BY <1>1, Invariance, PTL DEF Spec, ManualModeHolds
=============================================================================
