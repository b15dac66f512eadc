-------------------------- MODULE MojoData_proof --------------------------
(***************************************************************************)
(* Proofs about the data path of MojoOs: on a bus without events, and      *)
(* without resets and magic baud rates, the FPGA gets the data of one file *)
(* in order, the flash holds the beginning of the file that is stored, and *)
(* a store that ends has stored what the FPGA needs; for every size of the *)
(* buffer, the endpoint, the flash and the files, every way to cut a file  *)
(* into packets, and any number of files and commands.                     *)
(***************************************************************************)
EXTENDS MojoOs_proof

(* Nothing of what the run Faults is about happens. *)
Quiet == Budget.baud = 0 /\ Budget.reset = 0 /\ Budget.drop = 0

(* A file is longer than what aBuffer and the endpoint hold: the host is   *)
(* not done with it before its header was looked at.  And the flash can    *)
(* hold it.                                                                *)
FilesFit ==
  \A f \in GoodFile : BufLen + EpSize < FileLen(f) /\ FileLen(f) <= FlashLen

(***************************************************************************)
(* The invariant                                                           *)
(***************************************************************************)

(* No disturbance, and the packet loops take a packet as it came. *)
Calm ==
  /\ mode \in {"main", "cli", "app", "unwind"} /\ ~deaf
  /\ left.baud = 0 /\ left.reset = 0 /\ left.drop = 0
  /\ ep # <<>> => usb = "on"
  /\ mode = "cli" /\ pc = "take" /\ FromUsb => n = Len(ep)

(* The firmware took k bytes of f; the next ones are in the endpoint, and  *)
(* the ones behind them with the host.                                     *)
OnWay(f, k) ==
  /\ hfile = f /\ hpos = k + Len(ep) /\ hpos <= FileLen(f)
  /\ \A j \in 1 .. Len(ep) : ep[j] = <<f, k + j - 1>>

(* The firmware took all of f; what is in the endpoint was typed later. *)
AllTaken(f, k) ==
  /\ hfile = f /\ hpos = FileLen(f) /\ k = FileLen(f)
  /\ \A j \in 1 .. Len(ep) : ep[j][1] \notin File

(* The first byte of a file in the endpoint is followed by the others. *)
FirstByteOK ==
  \A f \in GoodFile, i \in 1 .. Len(ep) : ep[i] = <<f, 0>> => i = 1 /\ OnWay(f, 0)

HoldsBytes(f, from, len) == \A i \in 0 .. len - 1 : aBuffer[i] = <<f, from + i>>

(* An intro state that began with a file has got it from its first byte on. *)
IntroOK ==
  mode = "cli" /\ FromUsb /\ InIntro /\ pc # "erase" /\ flashAddr > 0 =>
    \A f \in GoodFile :
      aBuffer[0] = <<f, 0>> => OnWay(f, flashAddr) /\ HoldsBytes(f, 0, flashAddr)

(* What a body state has in aBuffer, to be fed or written. *)
InHand == IF pc = "poll" THEN 0 ELSE IF pc = "take" THEN cnt - n ELSE cnt

Coming(f, from) ==
  /\ HoldsBytes(f, from, InHand)
  /\ \/ OnWay(f, from + InHand)
     \/ pc \in {"act", "write"} /\ AllTaken(f, from + InHand)

FedData(f) ==
  /\ \A i \in 1 .. Len(rx) : rx[i] = <<f, DataStart + i - 1>>
  /\ Len(rx) + fileSize = DataLen[f]

(* A configuration from USB: fed, in hand, in the endpoint and still to be *)
(* sent are the data of one file.                                          *)
VolatileOK ==
  mode = "cli" /\ src = "usb" =>
    /\ cli = "CFG_BODY" =>
         \E f \in GoodFile :
           FedData(f) /\ fileSize > 0 /\ Coming(f, DataStart + Len(rx))
    /\ cli = "FINISH" =>
         \E f \in GoodFile :
           /\ FedData(f) /\ fileSize = 0
           /\ \/ OnWay(f, FileLen(f))
              \/ AllTaken(f, FileLen(f))

(* A configuration from flash: the next block is the one after the fed.    *)
FromFlashOK ==
  mode = "cli" /\ cli \in {"CFG_BODY", "FINISH"} /\ src # "usb" =>
    /\ \A i \in 1 .. Len(rx) : rx[i] = flash[(DataStart + i - 1) % FlashLen]
    /\ Len(rx) + fileSize = ExtractSize(FlashBlock(0))
    /\ cli = "CFG_BODY" => flashAddr = DataStart + Len(rx)

(* The flash with the first m bytes of f and erased behind them. *)
Holding(f, m) == [a \in 0 .. FlashLen - 1 |-> IF a < m THEN <<f, a>> ELSE Blank]

Storing ==
  mode = "cli" /\ \/ cli = "ST_BODY"
                  \/ cli = "ST_INTRO" /\ pc # "erase"

(* What a store left is nothing or the beginning of a file, with its size. *)
AtRestOK ==
  ~Storing =>
    \/ flash = ErasedFlash
    \/ \E f \in GoodFile : \E m \in DataStart .. FileLen(f) : flash = Holding(f, m)

StoreIntroOK ==
  mode = "cli" /\ cli = "ST_INTRO" =>
    /\ pc \in {"poll", "take", "act"} => flash = ErasedFlash
    /\ pc = "write" =>
         \E f \in GoodFile :
           /\ aBuffer[0] = <<f, 0>> /\ flash = Holding(f, wr)
           /\ flashAddr > Threshold /\ fileSize = Wrap(DataLen[f] + HeaderLen)

(* A store: written, in hand, in the endpoint and still to be sent are the *)
(* bytes of one file.                                                      *)
StoreBodyOK ==
  mode = "cli" /\ cli = "ST_BODY" =>
    \E f \in GoodFile :
      /\ flash = Holding(f, flashAddr + wr)
      /\ pc # "write" => wr = 0
      /\ flashAddr > Threshold /\ flashAddr < FileLen(f)
      /\ fileSize = Wrap(DataLen[f] + HeaderLen)
      /\ Coming(f, flashAddr)

DataOK ==
  /\ Calm /\ FirstByteOK /\ IntroOK /\ VolatileOK /\ FromFlashOK
  /\ AtRestOK /\ StoreIntroOK /\ StoreBodyOK

(***************************************************************************)
(* Lemmas about the operators                                              *)
(***************************************************************************)

(* Where the numbers of a file lie. *)
LEMMA FileSizes ==
  ASSUME FilesFit, NEW f \in GoodFile
  PROVE  /\ f \in File /\ DataLen[f] \in 0 .. MaxSize
         /\ FileLen(f) \in Nat /\ FileLen(f) = DataStart + DataLen[f]
         /\ BufLen + EpSize < FileLen(f) /\ FileLen(f) <= FlashLen
         /\ HeaderLen \in Nat /\ HeaderLen > 0 /\ HeaderLen < DataStart
         /\ DataStart = HeaderLen + SizeLen /\ SizeLen \in Nat
BY FileAssumption, SizeAssumption DEF FilesFit, GoodFile, FileLen, DataStart

LEMMA ModSmall ==
  ASSUME NEW x \in Nat, NEW m \in Nat, x < m
  PROVE  x % m = x /\ (x + m) % m = x
OBVIOUS

LEMMA WrapLeast == ASSUME NEW x \in Nat PROVE Wrap(x) \in Nat /\ Wrap(x) <= x
BY FileAssumption DEF Wrap

LEMMA MinusExact ==
  ASSUME NEW x \in 0 .. MaxSize, NEW y \in 0 .. x
  PROVE  Minus(x, y) = x - y
<1>1. /\ x - y \in Nat /\ MaxSize + 1 \in Nat /\ x - y < MaxSize + 1
      /\ x + (MaxSize + 1) - y = (x - y) + (MaxSize + 1)
  BY FileAssumption
<1> QED
  BY <1>1, ModSmall DEF Minus, Wrap

(* A header names one file, and the size behind it is that file's.         *)
LEMMA HeaderNames ==
  ASSUME FilesFit, NEW buffer, DataFieldFound(buffer)
  PROVE  \E f \in GoodFile : buffer[0] = <<f, 0>>
<1>1. PICK f \in GoodFile : HeaderOf(f, buffer)
  BY DEF DataFieldFound
<1>2. 0 \in 0 .. HeaderLen - 1
  BY <1>1, FileSizes
<1> QED
  BY <1>1, <1>2 DEF HeaderOf

LEMMA SizeRead ==
  ASSUME FilesFit, NEW f \in GoodFile, NEW buffer,
         \A i \in HeaderLen .. DataStart - 1 : buffer[i] = <<f, i>>
  PROVE  ExtractSize(buffer) = DataLen[f]
<1>1. SizeOf(f, buffer)
  BY DEF SizeOf
<1>2. ASSUME NEW g \in GoodFile, SizeOf(g, buffer) PROVE g = f
  <2>1. HeaderLen \in HeaderLen .. DataStart - 1
    BY FileSizes
  <2>2. <<f, HeaderLen>> = <<g, HeaderLen>>
    BY <1>1, <1>2, <2>1 DEF SizeOf
  <2> QED
    BY <2>2
<1>3. (CHOOSE g \in GoodFile : SizeOf(g, buffer)) = f
  BY <1>1, <1>2
<1> QED
  BY <1>1, <1>3 DEF ExtractSize

(* A slice, element by element. *)
LEMMA SliceIs ==
  ASSUME NEW buffer \in [0 .. BufLen - 1 -> Byte],
         NEW from \in Nat, NEW len \in Nat, from + len <= BufLen
  PROVE  /\ Slice(buffer, from, len) \in Seq(Byte)
         /\ Len(Slice(buffer, from, len)) = len
         /\ \A i \in 1 .. len : Slice(buffer, from, len)[i] = buffer[from + i - 1]
<1>1. Slice(buffer, from, len) \in Seq(Byte)
  BY SliceType
<1> QED
  BY <1>1 DEF Slice

(* What a step does to the bytes on their way. *)
LEMMA TakenOnWay ==
  ASSUME ep \in Seq(Byte), ep # <<>>, usb = "on", ep' = AfterReceive,
         UNCHANGED <<hfile, hpos>>, NEW f, NEW k \in Nat, OnWay(f, k)
  PROVE  OnWay(f, k + 1)' /\ ReceivedByte = <<f, k>>
<1>1. /\ Len(ep) \in Nat /\ Len(ep) > 0 /\ ep' = Tail(ep) /\ Len(ep') = Len(ep) - 1
      /\ \A j \in 1 .. Len(ep) - 1 : ep'[j] = ep[j + 1]
  BY DEF AfterReceive
<1>2. ReceivedByte = ep[1]
  BY DEF ReceivedByte
<1>3. ep[1] = <<f, k>>
  <2>1. 1 \in 1 .. Len(ep) /\ k + 1 - 1 = k
    BY <1>1
  <2> QED
    BY <2>1 DEF OnWay
<1>4. ASSUME NEW j \in 1 .. Len(ep') PROVE ep'[j] = <<f, (k + 1) + j - 1>>
  <2>1. j \in 1 .. Len(ep) - 1 /\ j + 1 \in 1 .. Len(ep)
        /\ k + (j + 1) - 1 = (k + 1) + j - 1
    BY <1>1
  <2> QED
    BY <1>1, <2>1 DEF OnWay
<1>5. hfile' = f /\ hpos' = (k + 1) + Len(ep') /\ hpos' <= FileLen(f)
  BY <1>1 DEF OnWay
<1> QED
  BY <1>2, <1>3, <1>4, <1>5 DEF OnWay

LEMMA FirstByteKept ==
  ASSUME FirstByteOK, ep \in Seq(Byte), UNCHANGED <<hfile, hpos>>,
         ep' = ep \/ ep' = <<>> \/ ep' = AfterReceive
  PROVE  FirstByteOK'
<1>1. CASE ep' = ep
  BY <1>1 DEF FirstByteOK, OnWay
<1>2. CASE ep' = <<>>
  BY <1>2 DEF FirstByteOK
<1>3. CASE ep # <<>> /\ ep' = Tail(ep)
  <2>1. /\ Len(ep) \in Nat /\ Len(ep') = Len(ep) - 1
        /\ \A j \in 1 .. Len(ep) - 1 : ep'[j] = ep[j + 1]
    BY <1>3
  <2>2. ASSUME NEW i \in 1 .. Len(ep') PROVE i + 1 \in 1 .. Len(ep) /\ i + 1 # 1 /\ ep'[i] = ep[i + 1]
    BY <2>1
  <2> QED
    BY <2>2 DEF FirstByteOK
<1> QED
  BY <1>1, <1>2, <1>3 DEF AfterReceive

LEMMA SentOnWay ==
  ASSUME FilesFit, IInv, HostSend, NEW f \in GoodFile, NEW k \in Nat
  PROVE  /\ OnWay(f, k) => OnWay(f, k)'
         /\ ~AllTaken(f, k)
<1>1. PICK m \in 1 .. EpSize :
        /\ hpos + m <= FileLen(hfile)
        /\ ep' = [i \in 1 .. m |-> <<hfile, hpos + i - 1>>]
        /\ hpos' = hpos + m
  BY DEF HostSend
<1>2. ep = <<>> /\ Len(ep) = 0 /\ Sending /\ hfile' = hfile
  BY DEF HostSend
<1>3. Len(ep') = m /\ m \in Nat
  BY <1>1, SizeAssumption
<1>4. ASSUME OnWay(f, k) PROVE OnWay(f, k)'
  <2>1. hfile = f /\ hpos = k
    BY <1>2, <1>4 DEF OnWay
  <2> QED
    BY <1>1, <1>2, <1>3, <2>1 DEF OnWay
<1>5. ~AllTaken(f, k)
  BY <1>2, FileSizes DEF AllTaken, Sending
<1> QED
  BY <1>4, <1>5

LEMMA TypedOnWay ==
  ASSUME FilesFit, IInv, HostType, NEW f \in GoodFile, NEW k \in Nat
  PROVE  /\ OnWay(f, k) => k = FileLen(f) /\ AllTaken(f, k)'
         /\ AllTaken(f, k) => AllTaken(f, k)'
<1>1. PICK c \in Command : ep' = <<Typed(c)>>
  BY DEF HostType
<1>2. ep = <<>> /\ Len(ep) = 0 /\ ~Sending /\ UNCHANGED <<hfile, hpos>>
  BY DEF HostType, hostVars
<1>3. \A j \in 1 .. Len(ep') : ep'[j][1] \notin File
  BY <1>1, NameAssumption DEF Typed
<1>4. f \in File /\ f # NoFile /\ FileLen(f) \in Nat
  BY FileSizes, NameAssumption
<1>5. ASSUME OnWay(f, k) PROVE k = FileLen(f)
  BY <1>2, <1>4, <1>5 DEF OnWay, Sending
<1> QED
  BY <1>2, <1>3, <1>5 DEF OnWay, AllTaken

(* What the parts of the invariant say outside of a transfer. *)
Transfer == {"CFG_INTRO", "CFG_BODY", "FINISH", "ST_INTRO", "ST_BODY"}

Outside ==
  mode = "cli" =>
    \/ cli \notin Transfer
    \/ cli = "ST_INTRO" /\ pc = "erase"
    \/ cli = "ST_INTRO" /\ pc = "poll" /\ flashAddr = 0 /\ flash = ErasedFlash
    \/ cli = "CFG_INTRO" /\ pc = "poll" /\ flashAddr = 0

NoTransfer ==
  Outside =>
    /\ IntroOK /\ VolatileOK /\ FromFlashOK /\ StoreIntroOK /\ StoreBodyOK
    /\ ~(mode = "cli" /\ pc = "take" /\ FromUsb)

LEMMA OutsideIsQuiet == NoTransfer
BY DEF NoTransfer, Outside, Transfer, IntroOK, VolatileOK, FromFlashOK,
   StoreIntroOK, StoreBodyOK, FromUsb, InIntro

(* A step outside of the transfers, or into one. *)
LEMMA OutsideKeeps ==
  ASSUME IInv, DataOK, ~Storing, Outside',
         mode' \in {"main", "cli", "app", "unwind"},
         left' = left \/ left' = [left EXCEPT !.fault = @ - 1],
         ep' = ep \/ ep' = <<>> \/ ep' = AfterReceive,
         flash' = flash \/ flash' = ErasedFlash,
         UNCHANGED <<deaf, usb, hfile, hpos>>
  PROVE  DataOK'
<1>1. /\ ep \in Seq(Byte)
      /\ left \in [cmd : Nat, file : Nat, baud : Nat, reset : Nat, drop : Nat, fault : Nat]
  BY DEF IInv, TypeOK, BytesTypeOK, BoardTypeOK
<1>2. FirstByteOK'
  BY <1>1, FirstByteKept DEF DataOK
<1>3. /\ (IntroOK /\ VolatileOK /\ FromFlashOK /\ StoreIntroOK /\ StoreBodyOK)'
      /\ ~(mode = "cli" /\ pc = "take" /\ FromUsb)'
  <2>1. NoTransfer'
    BY OutsideIsQuiet, PTL
  <2> QED
    BY <2>1 DEF NoTransfer
<1>4. AtRestOK'
  BY DEF DataOK, AtRestOK, ErasedFlash, Holding
<1>5. Calm'
  <2>1. ep' # <<>> => usb' = "on"
    BY DEF DataOK, Calm, AfterReceive
  <2>2. left'.baud = 0 /\ left'.reset = 0 /\ left'.drop = 0
    BY <1>1 DEF DataOK, Calm
  <2> QED
    BY <1>3, <2>1, <2>2 DEF DataOK, Calm
<1> QED
  BY <1>2, <1>3, <1>4, <1>5 DEF DataOK

(***************************************************************************)
(* Every step keeps the invariant.                                         *)
(***************************************************************************)

Aside == \/ WaitForConnect \/ FlashInfo \/ Listen \/ TakeCommand \/ EraseDone
         \/ TriggerConfig \/ FinishSuccess \/ FinishFail
         \/ MainLoop \/ AppReceive \/ AppReturn

LEMMA AsideKeeps == ASSUME IInv, DataOK, Aside PROVE DataOK'
<1> USE DEF hostVars, fpgaVars
<1>1. CASE WaitForConnect
  BY <1>1, OutsideKeeps DEF WaitForConnect, At, Outside, Transfer, Storing
<1>2. CASE FlashInfo
  BY <1>2, OutsideKeeps DEF FlashInfo, At, Outside, Transfer, Storing
<1>3. CASE Listen
  BY <1>3, OutsideKeeps DEF Listen, At, Outside, Transfer, Storing
<1>4. CASE TakeCommand
  <2>1. /\ cli' \in {"HELP", "INFO", "TRIGGER", "ST_INTRO", "PROMPT"}
        /\ cli' = "ST_INTRO" => pc' = "erase"
    BY <1>4 DEF TakeCommand
  <2> QED
    BY <1>4, <2>1, OutsideKeeps DEF TakeCommand, At, Outside, Transfer, Storing
<1>5. CASE EraseDone
  BY <1>5, OutsideKeeps DEF EraseDone, Outside, Transfer, Storing, IInv, PlaceOK, ErasedFlash
<1>6. CASE TriggerConfig
  BY <1>6, OutsideKeeps DEF TriggerConfig, At, Outside, Transfer, Storing
<1>7. CASE FinishSuccess
  BY <1>7, OutsideKeeps DEF FinishSuccess, At, Outside, Transfer, Storing
<1>8. CASE FinishFail
  BY <1>8, OutsideKeeps DEF FinishFail, At, Outside, Transfer, Storing
<1>9. CASE MainLoop
  BY <1>9, OutsideKeeps DEF MainLoop, Outside, Transfer, Storing
<1>10. CASE AppReceive
  BY <1>10, OutsideKeeps DEF AppReceive, Outside, Transfer, Storing, DataOK, Calm
<1>11. CASE AppReturn
  BY <1>11, OutsideKeeps DEF AppReturn, Outside, Transfer, Storing
<1> QED
  BY <1>1, <1>2, <1>3, <1>4, <1>5, <1>6, <1>7, <1>8, <1>9, <1>10, <1>11 DEF Aside

(* --- The host --- *)

LEMMA HostOpenKeeps == ASSUME DataOK, HostOpen PROVE DataOK'
<1> USE DEF HostOpen, cpuVars, fpgaVars, hostVars, DataOK
<1>1. Calm' /\ FirstByteOK' /\ IntroOK'
  BY DEF Calm, FirstByteOK, IntroOK, OnWay, HoldsBytes, FromUsb, InIntro
<1>2. VolatileOK' /\ StoreBodyOK'
  BY DEF VolatileOK, StoreBodyOK, FedData, Coming, OnWay, AllTaken, HoldsBytes, InHand, Holding
<1>3. FromFlashOK'
  BY DEF FromFlashOK, FlashBlock
<1>4. AtRestOK' /\ StoreIntroOK'
  BY DEF AtRestOK, StoreIntroOK, Storing, Holding, ErasedFlash
<1> QED
  BY <1>1, <1>2, <1>3, <1>4

(* How far an intro state may have come: not to the end of a file. *)
LEMMA IntroNotDone ==
  ASSUME FilesFit, IInv, DataOK, mode = "cli", FromUsb, InIntro, pc # "erase",
         flashAddr > 0, NEW f \in GoodFile, aBuffer[0] = <<f, 0>>
  PROVE  /\ OnWay(f, flashAddr) /\ HoldsBytes(f, 0, flashAddr) /\ Sending
         /\ flashAddr \in Nat /\ flashAddr <= BufLen /\ flashAddr < FileLen(f)
<1>1. OnWay(f, flashAddr) /\ HoldsBytes(f, 0, flashAddr)
  BY DEF DataOK, IntroOK
<1>2. flashAddr \in Nat /\ flashAddr <= BufLen
  BY Sizes DEF IInv, TypeOK, CpuTypeOK, FillOK
<1>3. Len(ep) \in Nat /\ Len(ep) <= EpSize
  BY DEF IInv, TypeOK, BytesTypeOK
<1>4. f # NoFile
  BY FileSizes, NameAssumption
<1> QED
  BY <1>1, <1>2, <1>3, <1>4, FileSizes, Sizes DEF OnWay, Sending

(* What a body state has in hand is in the buffer. *)
InBody == mode = "cli" /\ FromUsb /\ cli \in {"CFG_BODY", "ST_BODY"}

LEMMA BodyInHand == ASSUME IInv, InBody PROVE InHand \in Nat /\ InHand <= BufLen
<1>1. n \in Nat /\ cnt \in Nat
  BY DEF IInv, TypeOK, CpuTypeOK
<1>2. pc \in {"poll", "take", "act", "write"}
  BY DEF IInv, TypeOK, CpuTypeOK, PlaceOK, InBody
<1>3. /\ pc = "take" => n > 0 /\ n <= cnt
      /\ pc \in {"take", "act", "write"} => cnt <= EpSize
  BY DEF IInv, FillOK, InBody, InIntro
<1> QED
  BY <1>1, <1>2, <1>3, Sizes DEF InHand

LEMMA HostSendKeeps == ASSUME FilesFit, IInv, DataOK, HostSend PROVE DataOK'
<1>0. /\ ep = <<>> /\ Len(ep) = 0 /\ usb = "on"
      /\ UNCHANGED <<mode, cli, src, pc, n, cnt, wr, flashAddr, fileSize, aBuffer, rx, done,
                     cfgKey, bootKey, flash, deaf, usb, manual, left, hfile>>
  BY DEF HostSend, cpuVars, fpgaVars
<1>1. ~(mode = "cli" /\ pc = "take" /\ FromUsb)
  <2>1. mode = "cli" /\ pc = "take" /\ FromUsb => n > 0
    BY DEF IInv, FillOK, InIntro
  <2> QED
    BY <1>0, <2>1 DEF DataOK, Calm
<1>2. Calm'
  BY <1>0, <1>1 DEF DataOK, Calm, FromUsb
<1>3. FirstByteOK'
  <2>1. PICK m \in 1 .. EpSize :
          /\ hpos + m <= FileLen(hfile)
          /\ ep' = [i \in 1 .. m |-> <<hfile, hpos + i - 1>>]
          /\ hpos' = hpos + m
    BY DEF HostSend
  <2>2. Len(ep') = m /\ m \in Nat /\ hpos \in Nat
    BY <2>1, SizeAssumption DEF IInv, TypeOK, BoardTypeOK
  <2>3. SUFFICES ASSUME NEW f \in GoodFile, NEW i \in 1 .. Len(ep'), ep'[i] = <<f, 0>>
        PROVE  i = 1 /\ OnWay(f, 0)'
    BY DEF FirstByteOK
  <2>4. hfile = f /\ hpos = 0 /\ i = 1
    BY <2>1, <2>2, <2>3
  <2> QED
    BY <1>0, <2>1, <2>2, <2>4 DEF OnWay
<1>4. IntroOK'
  <2>1. flashAddr \in Nat
    BY DEF IInv, TypeOK, CpuTypeOK
  <2> QED
    BY <1>0, <2>1, SentOnWay DEF DataOK, IntroOK, HoldsBytes, FromUsb, InIntro
<1>5. ASSUME NEW f \in GoodFile, NEW from \in Nat, InBody, Coming(f, from)
      PROVE  Coming(f, from)'
  <2>1. InHand' = InHand /\ from + InHand \in Nat
    BY <1>0, <1>5, BodyInHand DEF InHand
  <2> QED
    BY <1>0, <1>5, <2>1, SentOnWay DEF Coming, HoldsBytes
<1>6. VolatileOK'
  <2>1. CASE mode = "cli" /\ src = "usb" /\ cli = "CFG_BODY"
    <3>1. PICK f \in GoodFile :
            FedData(f) /\ fileSize > 0 /\ Coming(f, DataStart + Len(rx))
      BY <2>1 DEF DataOK, VolatileOK
    <3>2. PICK from \in Nat : from = DataStart + Len(rx)
      BY Sizes DEF IInv, TypeOK, BytesTypeOK
    <3>3. Coming(f, from)'
      BY <1>5, <2>1, <3>1, <3>2 DEF InBody, FromUsb
    <3> QED
      BY <1>0, <2>1, <3>1, <3>2, <3>3 DEF VolatileOK, FedData, Coming, InHand, HoldsBytes
  <2>2. CASE mode = "cli" /\ src = "usb" /\ cli = "FINISH"
    <3>1. PICK f \in GoodFile :
            /\ FedData(f) /\ fileSize = 0
            /\ OnWay(f, FileLen(f)) \/ AllTaken(f, FileLen(f))
      BY <2>2 DEF DataOK, VolatileOK
    <3>2. OnWay(f, FileLen(f))'
      BY <3>1, FileSizes, SentOnWay
    <3> QED
      BY <1>0, <2>2, <3>1, <3>2 DEF VolatileOK, FedData
  <2> QED
    BY <1>0, <2>1, <2>2 DEF VolatileOK
<1>7. FromFlashOK'
  BY <1>0 DEF DataOK, FromFlashOK, FlashBlock
<1>8. AtRestOK' /\ StoreIntroOK'
  BY <1>0 DEF DataOK, AtRestOK, StoreIntroOK, Storing, Holding, ErasedFlash
<1>9. StoreBodyOK'
  <2>1. CASE mode = "cli" /\ cli = "ST_BODY"
    <3>1. PICK f \in GoodFile :
            /\ flash = Holding(f, flashAddr + wr)
            /\ pc # "write" => wr = 0
            /\ flashAddr > Threshold /\ flashAddr < FileLen(f)
            /\ fileSize = Wrap(DataLen[f] + HeaderLen)
            /\ Coming(f, flashAddr)
      BY <2>1 DEF DataOK, StoreBodyOK
    <3>2. PICK from \in Nat : from = flashAddr
      BY DEF IInv, TypeOK, CpuTypeOK
    <3>3. Coming(f, from)'
      BY <1>5, <2>1, <3>1, <3>2 DEF InBody, FromUsb
    <3> QED
      BY <1>0, <2>1, <3>1, <3>2, <3>3 DEF StoreBodyOK, Coming, InHand, HoldsBytes, Holding
  <2> QED
    BY <1>0, <2>1 DEF StoreBodyOK
<1> QED
  BY <1>2, <1>3, <1>4, <1>6, <1>7, <1>8, <1>9 DEF DataOK

(* A typed character: nothing of a file is under way any more. *)
LEMMA HostTypeKeeps == ASSUME FilesFit, IInv, DataOK, HostType PROVE DataOK'
<1>0. /\ ep = <<>> /\ Len(ep) = 0 /\ usb = "on" /\ ~Sending
      /\ left' = [left EXCEPT !.cmd = @ - 1]
      /\ UNCHANGED <<mode, cli, src, pc, n, cnt, wr, flashAddr, fileSize, aBuffer, rx, done,
                     cfgKey, bootKey, flash, deaf, usb, manual, hfile, hpos>>
  BY DEF HostType, cpuVars, fpgaVars, hostVars
<1>1. ~(mode = "cli" /\ pc = "take" /\ FromUsb)
  <2>1. mode = "cli" /\ pc = "take" /\ FromUsb => n > 0
    BY DEF IInv, FillOK, InIntro
  <2> QED
    BY <1>0, <2>1 DEF DataOK, Calm
<1>2. Calm'
  <2>1. left'.baud = 0 /\ left'.reset = 0 /\ left'.drop = 0
    BY <1>0 DEF DataOK, Calm, IInv, TypeOK, BoardTypeOK
  <2> QED
    BY <1>0, <1>1, <2>1 DEF DataOK, Calm, FromUsb
<1>3. FirstByteOK'
  <2>1. PICK c \in Command : ep' = <<Typed(c)>>
    BY DEF HostType
  <2>2. \A f \in GoodFile, i \in 1 .. Len(ep') : ep'[i] # <<f, 0>>
    BY <2>1, NameAssumption DEF Typed, GoodFile
  <2> QED
    BY <2>2 DEF FirstByteOK
<1>4. IntroOK'
  <2>1. ASSUME mode = "cli", FromUsb, InIntro, pc # "erase", flashAddr > 0,
               NEW f \in GoodFile, aBuffer[0] = <<f, 0>>
        PROVE  FALSE
    BY <1>0, <2>1, IntroNotDone
  <2> QED
    BY <1>0, <2>1 DEF IntroOK, FromUsb, InIntro
<1>5. ASSUME NEW f \in GoodFile, NEW from \in Nat, InBody, Coming(f, from),
             pc = "poll" => from < FileLen(f)
      PROVE  Coming(f, from)'
  <2>1. InHand' = InHand /\ from + InHand \in Nat
    BY <1>0, <1>5, BodyInHand DEF InHand
  <2>2. OnWay(f, from + InHand) \/ AllTaken(f, from + InHand)
    BY <1>5 DEF Coming
  <2>3. AllTaken(f, from + InHand)'
    <3>1. PICK k \in Nat : k = from + InHand
      BY <2>1
    <3>2. AllTaken(f, k)'
      BY <2>2, <3>1, TypedOnWay
    <3> QED
      BY <2>1, <3>1, <3>2
  <2>4. pc \in {"act", "write"}
    <3>1. pc \in {"poll", "take", "act", "write"}
      BY <1>5 DEF IInv, TypeOK, CpuTypeOK, PlaceOK, InBody
    <3>2. pc # "take"
      BY <1>1, <1>5 DEF InBody
    <3>3. CASE pc = "poll"
      <4>1. OnWay(f, from) /\ from < FileLen(f)
        BY <1>5, <3>3, <2>1 DEF Coming, InHand
      <4>2. from = FileLen(f)
        BY <4>1, TypedOnWay
      <4> QED
        BY <4>1, <4>2, FileSizes
    <3> QED
      BY <3>1, <3>2, <3>3
  <2> QED
    BY <1>0, <1>5, <2>1, <2>3, <2>4 DEF Coming, HoldsBytes
<1>6. VolatileOK'
  <2>1. CASE mode = "cli" /\ src = "usb" /\ cli = "CFG_BODY"
    <3>1. PICK f \in GoodFile :
            FedData(f) /\ fileSize > 0 /\ Coming(f, DataStart + Len(rx))
      BY <2>1 DEF DataOK, VolatileOK
    <3>2. PICK from \in Nat : from = DataStart + Len(rx)
      BY Sizes DEF IInv, TypeOK, BytesTypeOK
    <3>3. from < FileLen(f)
      BY <3>1, <3>2, FileSizes DEF FedData, IInv, TypeOK, BytesTypeOK, CpuTypeOK
    <3>4. Coming(f, from)'
      BY <1>5, <2>1, <3>1, <3>2, <3>3 DEF InBody, FromUsb
    <3> QED
      BY <1>0, <2>1, <3>1, <3>2, <3>4 DEF VolatileOK, FedData, Coming, InHand, HoldsBytes
  <2>2. CASE mode = "cli" /\ src = "usb" /\ cli = "FINISH"
    <3>1. PICK f \in GoodFile :
            /\ FedData(f) /\ fileSize = 0
            /\ OnWay(f, FileLen(f)) \/ AllTaken(f, FileLen(f))
      BY <2>2 DEF DataOK, VolatileOK
    <3>2. AllTaken(f, FileLen(f))'
      BY <3>1, FileSizes, TypedOnWay
    <3> QED
      BY <1>0, <2>2, <3>1, <3>2 DEF VolatileOK, FedData
  <2> QED
    BY <1>0, <2>1, <2>2 DEF VolatileOK
<1>7. FromFlashOK'
  BY <1>0 DEF DataOK, FromFlashOK, FlashBlock
<1>8. AtRestOK' /\ StoreIntroOK'
  BY <1>0 DEF DataOK, AtRestOK, StoreIntroOK, Storing, Holding, ErasedFlash
<1>9. StoreBodyOK'
  <2>1. CASE mode = "cli" /\ cli = "ST_BODY"
    <3>1. PICK f \in GoodFile :
            /\ flash = Holding(f, flashAddr + wr)
            /\ pc # "write" => wr = 0
            /\ flashAddr > Threshold /\ flashAddr < FileLen(f)
            /\ fileSize = Wrap(DataLen[f] + HeaderLen)
            /\ Coming(f, flashAddr)
      BY <2>1 DEF DataOK, StoreBodyOK
    <3>2. PICK from \in Nat : from = flashAddr
      BY DEF IInv, TypeOK, CpuTypeOK
    <3>3. Coming(f, from)'
      BY <1>5, <2>1, <3>1, <3>2 DEF InBody, FromUsb
    <3> QED
      BY <1>0, <2>1, <3>1, <3>2, <3>3 DEF StoreBodyOK, Coming, InHand, HoldsBytes, Holding
  <2> QED
    BY <1>0, <2>1 DEF StoreBodyOK
<1> QED
  BY <1>2, <1>3, <1>4, <1>6, <1>7, <1>8, <1>9 DEF DataOK

(* The user picks a file only where none is under way. *)
LEMMA HostPickFileKeeps == ASSUME FilesFit, IInv, DataOK, HostPickFile PROVE DataOK'
<1>0. /\ ~Sending /\ left' = [left EXCEPT !.file = @ - 1]
      /\ mode = "cli" /\ pc # "erase" /\ cli \in {"ST_INTRO", "TRIGGER", "CFG_INTRO"}
      /\ UNCHANGED <<mode, cli, src, pc, n, cnt, wr, flashAddr, fileSize, aBuffer, rx, done,
                     cfgKey, bootKey, flash, deaf, usb, ep, manual>>
  BY DEF HostPickFile, AwaitingData, cpuVars, fpgaVars
<1>1. Calm'
  <2>1. left'.baud = 0 /\ left'.reset = 0 /\ left'.drop = 0
    BY <1>0 DEF DataOK, Calm, IInv, TypeOK, BoardTypeOK
  <2> QED
    BY <1>0, <2>1 DEF DataOK, Calm, FromUsb
<1>2. FirstByteOK'
  <2>1. ASSUME NEW f \in GoodFile, NEW i \in 1 .. Len(ep), ep[i] = <<f, 0>>
        PROVE  FALSE
    <3>1. OnWay(f, 0)
      BY <2>1 DEF DataOK, FirstByteOK
    <3>2. Len(ep) \in Nat /\ Len(ep) <= EpSize
      BY DEF IInv, TypeOK, BytesTypeOK
    <3>3. f # NoFile
      BY FileSizes, NameAssumption
    <3> QED
      BY <1>0, <3>1, <3>2, <3>3, FileSizes, Sizes DEF OnWay, Sending
  <2> QED
    BY <1>0, <2>1 DEF FirstByteOK
<1>3. IntroOK'
  <2>1. ASSUME FromUsb, InIntro, flashAddr > 0, NEW f \in GoodFile, aBuffer[0] = <<f, 0>>
        PROVE  FALSE
    BY <1>0, <2>1, IntroNotDone
  <2> QED
    BY <1>0, <2>1 DEF IntroOK, FromUsb, InIntro
<1>4. VolatileOK' /\ FromFlashOK' /\ StoreBodyOK'
  BY <1>0 DEF VolatileOK, FromFlashOK, StoreBodyOK
<1>5. AtRestOK' /\ StoreIntroOK'
  BY <1>0 DEF DataOK, AtRestOK, StoreIntroOK, Storing, Holding, ErasedFlash
<1> QED
  BY <1>1, <1>2, <1>3, <1>4, <1>5 DEF DataOK

(* --- The packet loops --- *)

LEMMA PollKeeps == ASSUME IInv, DataOK, Poll PROVE DataOK'
<1>0. /\ mode = "cli" /\ FromUsb /\ pc = "poll" /\ FromUsb'
      /\ cnt' = BytesReceived /\ n' = BytesReceived
      /\ pc' = IF BytesReceived = 0 THEN "act" ELSE "take"
      /\ UNCHANGED <<mode, cli, src, wr, flashAddr, fileSize, aBuffer, rx, done, cfgKey,
                     bootKey, flash, deaf, usb, ep, manual, left, hfile, hpos>>
  BY DEF Poll, FromUsb, fpgaVars, hostVars
<1>1. BytesReceived = Len(ep)
  BY DEF BytesReceived, DataOK, Calm
<1>2. Calm'
  BY <1>0, <1>1 DEF DataOK, Calm
<1>3. FirstByteOK' /\ IntroOK'
  BY <1>0 DEF DataOK, FirstByteOK, IntroOK, OnWay, HoldsBytes, InIntro
<1>4. InHand' = 0 /\ InHand = 0
  BY <1>0, <1>1 DEF InHand, IInv, TypeOK, BytesTypeOK
<1>5. VolatileOK'
  BY <1>0, <1>4 DEF DataOK, VolatileOK, FedData, Coming, OnWay, AllTaken, HoldsBytes
<1>6. FromFlashOK'
  BY <1>0 DEF DataOK, FromFlashOK, FlashBlock
<1>7. AtRestOK' /\ StoreIntroOK'
  BY <1>0 DEF DataOK, AtRestOK, StoreIntroOK, Storing, Holding, ErasedFlash
<1>8. StoreBodyOK'
  BY <1>0, <1>4 DEF DataOK, StoreBodyOK, Coming, OnWay, AllTaken, HoldsBytes, Holding
<1> QED
  BY <1>2, <1>3, <1>5, <1>6, <1>7, <1>8 DEF DataOK

LEMMA TakeKeeps == ASSUME FilesFit, IInv, DataOK, Take PROVE DataOK'
<1>0. /\ mode = "cli" /\ FromUsb /\ pc = "take" /\ FromUsb'
      /\ aBuffer' = [aBuffer EXCEPT ![TakeIndex] = ReceivedByte]
      /\ flashAddr' = IF InIntro THEN flashAddr + 1 ELSE flashAddr
      /\ n' = n - 1 /\ pc' = IF n = 1 THEN "act" ELSE "take"
      /\ ep' = AfterReceive
      /\ UNCHANGED <<mode, cli, src, cnt, wr, fileSize, rx, done, bootKey, flash, deaf,
                     usb, manual, left, hfile, hpos>>
  BY DEF Take, FromUsb, fpgaVars, hostVars
<1>1. /\ ep \in Seq(Byte) /\ n \in Nat /\ cnt \in Nat /\ flashAddr \in Nat /\ n > 0 /\ n = Len(ep)
      /\ aBuffer \in [0 .. BufLen - 1 -> Byte] /\ rx \in Seq(Byte)
  BY <1>0 DEF IInv, TypeOK, BytesTypeOK, CpuTypeOK, DataOK, Calm, FillOK, InIntro
<1>2. ep # <<>> /\ usb = "on" /\ Len(ep') = n - 1
  <2>1. ep # <<>>
    BY <1>1
  <2>2. usb = "on"
    BY <2>1 DEF DataOK, Calm
  <2>3. ep' = Tail(ep)
    BY <1>0, <2>1, <2>2 DEF AfterReceive
  <2> QED
    BY <1>1, <2>1, <2>2, <2>3
<1>3. TakeIndex \in 0 .. BufLen - 1
  BY <1>0, <1>1, Sizes DEF TakeIndex, IInv, FillOK
<1>4. aBuffer'[TakeIndex] = ReceivedByte
      /\ \A i \in 0 .. BufLen - 1 : i # TakeIndex => aBuffer'[i] = aBuffer[i]
  BY <1>0, <1>1, <1>3
<1>5. Calm'
  BY <1>0, <1>1, <1>2 DEF DataOK, Calm
<1>6. FirstByteOK'
  BY <1>0, <1>1, FirstByteKept DEF DataOK
<1>7. IntroOK'
  <2>1. SUFFICES ASSUME InIntro, NEW f \in GoodFile, aBuffer'[0] = <<f, 0>>
        PROVE  OnWay(f, flashAddr)' /\ HoldsBytes(f, 0, flashAddr)'
    BY <1>0 DEF IntroOK, InIntro
  <2>2. PICK k \in Nat : k = flashAddr
    BY <1>1
  <2>3. TakeIndex = k /\ flashAddr' = k + 1 /\ k < BufLen
    BY <1>0, <1>3, <2>1, <2>2, Sizes DEF TakeIndex
  <2>4. OnWay(f, k) /\ \A i \in 0 .. k - 1 : aBuffer[i] = <<f, i>>
    <3>1. CASE k = 0
      <4>1. ReceivedByte = <<f, 0>>
        BY <1>4, <2>1, <2>3, <3>1
      <4>2. ep[1] = <<f, 0>> /\ 1 \in 1 .. Len(ep)
        BY <1>1, <1>2, <4>1 DEF ReceivedByte
      <4> QED
        BY <3>1, <4>2 DEF DataOK, FirstByteOK
    <3>2. CASE k > 0
      <4>1. aBuffer[0] = <<f, 0>>
        <5>1. 0 \in 0 .. BufLen - 1 /\ 0 # TakeIndex
          BY <2>3, <3>2, Sizes
        <5> QED
          BY <1>4, <2>1, <5>1
      <4>2. OnWay(f, flashAddr) /\ HoldsBytes(f, 0, flashAddr)
        BY <1>0, <2>1, <2>2, <3>2, <4>1 DEF DataOK, IntroOK
      <4> QED
        BY <2>2, <4>2 DEF HoldsBytes
    <3> QED
      BY <2>2, <3>1, <3>2
  <2>5. OnWay(f, k + 1)' /\ ReceivedByte = <<f, k>>
    BY <1>0, <1>1, <1>2, <2>4, TakenOnWay
  <2>6. ASSUME NEW i \in 0 .. k PROVE aBuffer'[i] = <<f, i>>
    BY <1>4, <2>3, <2>4, <2>5, Sizes
  <2>7. OnWay(f, flashAddr)'
    BY <2>3, <2>5
  <2>8. \A i \in 0 .. flashAddr' - 1 : aBuffer'[i] = <<f, 0 + i>>
    BY <2>3, <2>6
  <2> QED
    BY <2>7, <2>8 DEF HoldsBytes
<1>8. ASSUME NEW f \in GoodFile, NEW from \in Nat, InBody, Coming(f, from)
      PROVE  Coming(f, from)'
  <2>1. PICK k \in Nat : k = InHand
    BY <1>8, BodyInHand
  <2>2. TakeIndex = k /\ InHand' = k + 1 /\ k < BufLen
    <3>1. ~InIntro /\ TakeIndex = cnt - n /\ k = cnt - n
      BY <1>0, <1>8, <2>1 DEF InHand, TakeIndex, InBody, InIntro
    <3>2. InHand' = IF n = 1 THEN cnt ELSE cnt - (n - 1)
      BY <1>0 DEF InHand
    <3>3. InHand' = (cnt - n) + 1
      BY <1>1, <3>2
    <3>4. TakeIndex < BufLen
      BY <1>3, Sizes
    <3> QED
      BY <3>1, <3>3, <3>4
  <2>3. OnWay(f, from + k) /\ \A i \in 0 .. k - 1 : aBuffer[i] = <<f, from + i>>
    BY <1>0, <1>8, <2>1 DEF Coming, HoldsBytes
  <2>4. OnWay(f, (from + k) + 1)' /\ ReceivedByte = <<f, from + k>>
    BY <1>0, <1>1, <1>2, <2>3, TakenOnWay
  <2>5. ASSUME NEW i \in 0 .. k PROVE aBuffer'[i] = <<f, from + i>>
    BY <1>4, <2>2, <2>3, <2>4, Sizes
  <2>6. OnWay(f, from + InHand)'
    <3>1. (from + k) + 1 = from + InHand'
      BY <2>2
    <3> QED
      BY <2>4, <3>1 DEF OnWay
  <2>7. \A i \in 0 .. InHand' - 1 : aBuffer'[i] = <<f, from + i>>
    BY <2>2, <2>5
  <2> QED
    BY <2>6, <2>7 DEF Coming, HoldsBytes
<1>9. VolatileOK'
  <2>1. CASE src = "usb" /\ cli = "CFG_BODY"
    <3>1. PICK f \in GoodFile :
            FedData(f) /\ fileSize > 0 /\ Coming(f, DataStart + Len(rx))
      BY <1>0, <2>1 DEF DataOK, VolatileOK
    <3>2. PICK from \in Nat : from = DataStart + Len(rx)
      BY <1>1, Sizes
    <3>3. Coming(f, from)'
      BY <1>0, <1>8, <2>1, <3>1, <3>2 DEF InBody
    <3> QED
      BY <1>0, <2>1, <3>1, <3>2, <3>3 DEF VolatileOK, FedData
  <2>2. cli # "FINISH"
    BY <1>0 DEF FromUsb
  <2> QED
    BY <1>0, <2>1, <2>2 DEF VolatileOK
<1>10. FromFlashOK'
  BY <1>0 DEF FromFlashOK, FromUsb
<1>11. AtRestOK' /\ StoreIntroOK'
  BY <1>0 DEF DataOK, AtRestOK, StoreIntroOK, Storing, Holding, ErasedFlash
<1>12. StoreBodyOK'
  <2>1. CASE cli = "ST_BODY"
    <3>1. PICK f \in GoodFile :
            /\ flash = Holding(f, flashAddr + wr)
            /\ pc # "write" => wr = 0
            /\ flashAddr > Threshold /\ flashAddr < FileLen(f)
            /\ fileSize = Wrap(DataLen[f] + HeaderLen)
            /\ Coming(f, flashAddr)
      BY <1>0, <2>1 DEF DataOK, StoreBodyOK
    <3>2. PICK from \in Nat : from = flashAddr
      BY <1>1
    <3>3. Coming(f, from)' /\ flashAddr' = from
      BY <1>0, <1>8, <2>1, <3>1, <3>2 DEF InBody, InIntro
    <3> QED
      BY <1>0, <2>1, <3>1, <3>2, <3>3 DEF StoreBodyOK, Holding
  <2> QED
    BY <1>0, <2>1 DEF StoreBodyOK
<1> QED
  BY <1>5, <1>6, <1>7, <1>9, <1>10, <1>11, <1>12 DEF DataOK

(* --- The FPGA --- *)

(* What a header in the intro states means: aBuffer holds the beginning of *)
(* a file with its size.                                                   *)
LEMMA HeaderTaken ==
  ASSUME FilesFit, IInv, DataOK, mode = "cli", FromUsb, InIntro, pc # "erase",
         flashAddr > Threshold, DataFieldFound(aBuffer)
  PROVE  \E f \in GoodFile :
           /\ aBuffer[0] = <<f, 0>> /\ ExtractSize(aBuffer) = DataLen[f]
           /\ HoldsBytes(f, 0, flashAddr) /\ OnWay(f, flashAddr)
           /\ flashAddr \in Nat /\ flashAddr <= BufLen
<1>1. PICK f \in GoodFile : aBuffer[0] = <<f, 0>>
  BY HeaderNames
<1>2. flashAddr \in Nat /\ flashAddr > 0 /\ DataStart < flashAddr
  BY Sizes DEF IInv, TypeOK, CpuTypeOK
<1>3. /\ OnWay(f, flashAddr) /\ HoldsBytes(f, 0, flashAddr)
      /\ flashAddr <= BufLen
  BY <1>1, <1>2, IntroNotDone
<1>4. ExtractSize(aBuffer) = DataLen[f]
  <2>1. ASSUME NEW i \in HeaderLen .. DataStart - 1 PROVE aBuffer[i] = <<f, i>>
    <3>1. i \in 0 .. flashAddr - 1 /\ 0 + i = i
      BY <1>2, FileSizes
    <3> QED
      BY <1>3, <3>1 DEF HoldsBytes
  <2> QED
    BY <2>1, SizeRead
<1> QED
  BY <1>1, <1>2, <1>3, <1>4

(* A step that leaves the flash and the host alone and no store behind. *)
LEMMA LoadingKeeps ==
  ASSUME IInv, DataOK, mode = "cli", cli \in {"CFG_INTRO", "CFG_BODY"},
         pc' = "poll", cli' \in {"CFG_INTRO", "CFG_BODY", "FINISH", "PROMPT"},
         UNCHANGED <<mode, flash, deaf, usb, ep, left, hfile, hpos>>
  PROVE  /\ Calm' /\ FirstByteOK' /\ AtRestOK' /\ StoreIntroOK' /\ StoreBodyOK'
         /\ cli' # "CFG_INTRO" => IntroOK'
<1>1. Calm' /\ FirstByteOK'
  BY DEF DataOK, Calm, FirstByteOK, OnWay
<1>2. AtRestOK' /\ StoreIntroOK' /\ StoreBodyOK'
  BY DEF DataOK, AtRestOK, StoreIntroOK, StoreBodyOK, Storing, Holding, ErasedFlash
<1>3. cli' # "CFG_INTRO" => IntroOK'
  BY DEF IntroOK, InIntro
<1> QED
  BY <1>1, <1>2, <1>3

LEMMA ConfigIntroUsbKeeps ==
  ASSUME FilesFit, IInv, DataOK, ConfigIntroUsb PROVE DataOK'
<1>0. /\ mode = "cli" /\ cli = "CFG_INTRO" /\ pc = "act" /\ src = "usb" /\ pc' = "poll"
      /\ FromUsb /\ InIntro
      /\ UNCHANGED <<mode, src, n, cnt, wr, flashAddr, aBuffer, cfgKey, bootKey, flash, deaf,
                     usb, ep, manual, left, hfile, hpos>>
  BY DEF ConfigIntroUsb, At, hostVars, IInv, PlaceOK, FromUsb, InIntro
<1>1. cli' \in {"CFG_INTRO", "CFG_BODY", "PROMPT"}
  BY <1>0 DEF ConfigIntroUsb, StartConfig
<1>2. Calm' /\ FirstByteOK' /\ AtRestOK' /\ StoreIntroOK' /\ StoreBodyOK' /\ FromFlashOK'
  BY <1>0, <1>1, LoadingKeeps DEF FromFlashOK
<1>3. IntroOK'
  <2>1. CASE cli' = "CFG_INTRO"
    BY <1>0, <2>1 DEF DataOK, IntroOK, OnWay, HoldsBytes, FromUsb, InIntro
  <2> QED
    BY <1>0, <1>1, <2>1, LoadingKeeps
<1>4. VolatileOK'
  <2>1. CASE flashAddr > Threshold /\ DataFieldFound(aBuffer)
    <3>1. PICK f \in GoodFile :
            /\ ExtractSize(aBuffer) = DataLen[f]
            /\ HoldsBytes(f, 0, flashAddr) /\ OnWay(f, flashAddr)
            /\ flashAddr \in Nat /\ flashAddr <= BufLen
      BY <1>0, <2>1, HeaderTaken
    <3>2. PICK k \in Nat : k = flashAddr - DataStart /\ DataStart + k = flashAddr
      BY <2>1, <3>1, Sizes
    <3>3. /\ Slice(aBuffer, DataStart, k) \in Seq(Byte) /\ Len(Slice(aBuffer, DataStart, k)) = k
          /\ \A i \in 1 .. k : Slice(aBuffer, DataStart, k)[i] = aBuffer[DataStart + i - 1]
      <4>1. /\ aBuffer \in [0 .. BufLen - 1 -> Byte] /\ DataStart \in Nat
            /\ DataStart + k <= BufLen
        BY <3>1, <3>2, Sizes DEF IInv, TypeOK, BytesTypeOK
      <4> QED
        BY <4>1, SliceIs
    <3>4. /\ rx' = Slice(aBuffer, DataStart, k) /\ cli' = "CFG_BODY"
          /\ fileSize' = Minus(DataLen[f], k)
      BY <1>0, <2>1, <3>1, <3>2 DEF ConfigIntroUsb, StartConfig, Fed
    <3>5. k < DataLen[f] /\ DataLen[f] \in 0 .. MaxSize
      BY <3>1, <3>2, FileSizes, Sizes
    <3>6. fileSize' = DataLen[f] - k
      BY <3>4, <3>5, MinusExact
    <3>7. FedData(f)'
      <4>1. ASSUME NEW i \in 1 .. k PROVE aBuffer[DataStart + i - 1] = <<f, DataStart + i - 1>>
        <5>1. /\ DataStart + i - 1 \in 0 .. flashAddr - 1
              /\ 0 + (DataStart + i - 1) = DataStart + i - 1
          BY <3>2, Sizes
        <5> QED
          BY <3>1, <5>1 DEF HoldsBytes
      <4> QED
        BY <3>3, <3>4, <3>5, <3>6, <4>1 DEF FedData
    <3>8. Coming(f, DataStart + Len(rx))'
      <4>1. InHand' = 0 /\ DataStart + Len(rx') + 0 = flashAddr
        BY <1>0, <3>2, <3>3, <3>4, Sizes DEF InHand
      <4>2. OnWay(f, DataStart + Len(rx) + InHand)'
        BY <1>0, <3>1, <4>1 DEF OnWay
      <4> QED
        BY <4>1, <4>2 DEF Coming, HoldsBytes
    <3>9. fileSize' > 0
      BY <3>5, <3>6
    <3> QED
      BY <3>4, <3>7, <3>8, <3>9 DEF VolatileOK
  <2>2. CASE ~(flashAddr > Threshold /\ DataFieldFound(aBuffer))
    <3>1. cli' \in {"CFG_INTRO", "PROMPT"}
      BY <1>0, <2>2 DEF ConfigIntroUsb, StartConfig
    <3> QED
      BY <3>1 DEF VolatileOK
  <2> QED
    BY <2>1, <2>2
<1> QED
  BY <1>2, <1>3, <1>4 DEF DataOK

(* What is fed next follows what was fed. *)
LEMMA FeedIs ==
  ASSUME IInv, NEW buffer \in [0 .. BufLen - 1 -> Byte], NEW count \in Nat, count <= BufLen,
         FeedBlock(buffer, count)
  PROVE  \E len \in Nat :
           /\ len = IF fileSize < count THEN fileSize ELSE count
           /\ fileSize' = fileSize - len
           /\ Len(rx') = Len(rx) + len
           /\ \A i \in 1 .. Len(rx) : rx'[i] = rx[i]
           /\ \A i \in 0 .. len - 1 : rx'[Len(rx) + i + 1] = buffer[i]
           /\ cli' = IF fileSize = len THEN "FINISH" ELSE "CFG_BODY"
<1>1. fileSize \in Nat /\ rx \in Seq(Byte)
  BY FileAssumption DEF IInv, TypeOK, CpuTypeOK, BytesTypeOK
<1>2. PICK len \in Nat : len = IF fileSize < count THEN fileSize ELSE count
  BY <1>1
<1>3. 0 + len <= BufLen
  BY <1>1, <1>2, Sizes
<1> DEFINE s == Slice(buffer, 0, len)
<1>4. s \in Seq(Byte) /\ Len(s) = len /\ \A i \in 1 .. len : s[i] = buffer[0 + i - 1]
  BY <1>3, SliceIs
<1>5. /\ fileSize' = fileSize - len /\ rx' = rx \o s
      /\ cli' = IF fileSize = len THEN "FINISH" ELSE "CFG_BODY"
  BY <1>2 DEF FeedBlock, Fed
<1> HIDE DEF s
<1>6. /\ Len(rx') = Len(rx) + len
      /\ \A i \in 1 .. Len(rx) : rx'[i] = rx[i]
  <2>1. \A r, t \in Seq(Byte) :
          Len(r \o t) = Len(r) + Len(t) /\ \A i \in 1 .. Len(r) : (r \o t)[i] = r[i]
    OBVIOUS
  <2> QED
    BY <1>1, <1>4, <1>5, <2>1
<1>7. ASSUME NEW i \in 0 .. len - 1 PROVE rx'[Len(rx) + i + 1] = buffer[i]
  <2>1. i + 1 \in 1 .. len /\ 0 + (i + 1) - 1 = i
    OBVIOUS
  <2>2. rx'[Len(rx) + (i + 1)] = s[i + 1]
    BY <1>1, <1>4, <1>5, <2>1
  <2> QED
    BY <1>1, <1>4, <2>1, <2>2
<1> QED
  BY <1>2, <1>5, <1>6, <1>7

LEMMA ConfigBodyUsbKeeps ==
  ASSUME FilesFit, IInv, DataOK, ConfigBodyUsb PROVE DataOK'
<1>0. /\ mode = "cli" /\ cli = "CFG_BODY" /\ pc = "act" /\ src = "usb" /\ pc' = "poll"
      /\ FeedBlock(aBuffer, cnt) /\ FromUsb
      /\ UNCHANGED <<mode, src, n, cnt, wr, flashAddr, aBuffer, cfgKey, bootKey, flash, deaf,
                     usb, ep, manual, left, hfile, hpos>>
  BY DEF ConfigBodyUsb, At, hostVars, IInv, PlaceOK, FromUsb
<1>1. /\ cnt \in Nat /\ cnt <= BufLen /\ aBuffer \in [0 .. BufLen - 1 -> Byte]
      /\ rx \in Seq(Byte) /\ Len(rx) \in Nat /\ fileSize \in Nat
  BY <1>0, Sizes DEF IInv, TypeOK, CpuTypeOK, BytesTypeOK, FillOK, InIntro
<1>2. PICK len \in Nat :
        /\ len = IF fileSize < cnt THEN fileSize ELSE cnt
        /\ fileSize' = fileSize - len
        /\ Len(rx') = Len(rx) + len
        /\ \A i \in 1 .. Len(rx) : rx'[i] = rx[i]
        /\ \A i \in 0 .. len - 1 : rx'[Len(rx) + i + 1] = aBuffer[i]
        /\ cli' = IF fileSize = len THEN "FINISH" ELSE "CFG_BODY"
  BY <1>0, <1>1, FeedIs
<1>3. Calm' /\ FirstByteOK' /\ AtRestOK' /\ StoreIntroOK' /\ StoreBodyOK' /\ IntroOK'
  BY <1>0, <1>2, LoadingKeeps
<1>4. FromFlashOK'
  BY <1>0 DEF FromFlashOK
<1>5. VolatileOK'
  <2>1. PICK f \in GoodFile : FedData(f) /\ fileSize > 0 /\ Coming(f, DataStart + Len(rx))
    BY <1>0 DEF DataOK, VolatileOK
  <2>2. PICK k \in Nat : k = DataStart + Len(rx)
    BY <1>1, Sizes
  <2>3. PICK c \in Nat : c = cnt
    BY <1>1
  <2>4. /\ HoldsBytes(f, k, c)
        /\ OnWay(f, k + c) \/ AllTaken(f, k + c)
    BY <1>0, <2>1, <2>2, <2>3 DEF Coming, InHand
  <2>5. k + fileSize = FileLen(f) /\ FileLen(f) \in Nat
    <3>1. Len(rx) + fileSize = DataLen[f]
      BY <2>1 DEF FedData
    <3>2. FileLen(f) = DataStart + DataLen[f] /\ FileLen(f) \in Nat /\ DataStart \in Nat
      BY FileSizes, Sizes
    <3> QED
      BY <1>1, <2>2, <3>1, <3>2
  <2>6. k + c <= FileLen(f)
    <3>1. Len(ep) \in Nat
      BY DEF IInv, TypeOK, BytesTypeOK
    <3>2. CASE OnWay(f, k + c)
      BY <2>5, <3>1, <3>2 DEF OnWay
    <3>3. CASE AllTaken(f, k + c)
      BY <2>5, <3>3 DEF AllTaken
    <3> QED
      BY <2>4, <3>2, <3>3
  <2>7. len = c
    BY <1>1, <1>2, <2>3, <2>5, <2>6
  <2>8. FedData(f)'
    <3>1. ASSUME NEW i \in 1 .. Len(rx) + c PROVE rx'[i] = <<f, DataStart + i - 1>>
      <4>1. CASE i \in 1 .. Len(rx)
        BY <1>2, <2>1, <4>1 DEF FedData
      <4>2. CASE i \notin 1 .. Len(rx)
        <5>1. PICK j \in 0 .. c - 1 : i = Len(rx) + j + 1 /\ k + j = DataStart + i - 1
          <6>1. /\ i - Len(rx) - 1 \in 0 .. c - 1
                /\ i = Len(rx) + (i - Len(rx) - 1) + 1
                /\ k + (i - Len(rx) - 1) = DataStart + i - 1
            BY <1>1, <2>2, <4>2, Sizes
          <6> QED
            BY <6>1
        <5>2. rx'[i] = aBuffer[j] /\ aBuffer[j] = <<f, k + j>>
          BY <1>2, <2>4, <2>7, <5>1 DEF HoldsBytes
        <5> QED
          BY <5>1, <5>2
      <4> QED
        BY <4>1, <4>2
    <3>2. Len(rx') + fileSize' = DataLen[f]
      BY <1>1, <1>2, <2>1 DEF FedData
    <3> QED
      BY <1>2, <2>7, <3>1, <3>2 DEF FedData
  <2>9. DataStart + Len(rx') = k + c
    <3>1. Len(rx') = Len(rx) + c /\ DataStart \in Nat
      BY <1>2, <2>7, Sizes
    <3> QED
      BY <1>1, <2>2, <3>1
  <2>10. CASE fileSize = len
    <3>1. cli' = "FINISH" /\ fileSize' = 0 /\ k + c = FileLen(f)
      BY <1>1, <1>2, <2>5, <2>7, <2>10
    <3>2. (OnWay(f, FileLen(f)) \/ AllTaken(f, FileLen(f)))'
      BY <1>0, <2>4, <3>1 DEF OnWay, AllTaken
    <3> QED
      BY <2>8, <3>1, <3>2 DEF VolatileOK
  <2>11. CASE fileSize # len
    <3>1. cli' = "CFG_BODY" /\ fileSize' > 0 /\ k + c < FileLen(f)
      BY <1>1, <1>2, <2>3, <2>5, <2>7, <2>11
    <3>2. OnWay(f, k + c)
      BY <2>4, <3>1, <2>5 DEF AllTaken
    <3>3. Coming(f, DataStart + Len(rx))'
      <4>1. InHand' = 0 /\ DataStart + Len(rx') + 0 = k + c
        BY <1>0, <2>9 DEF InHand
      <4>2. OnWay(f, DataStart + Len(rx) + InHand)'
        BY <1>0, <3>2, <4>1 DEF OnWay
      <4> QED
        BY <4>1, <4>2 DEF Coming, HoldsBytes
    <3> QED
      BY <2>8, <3>1, <3>3 DEF VolatileOK
  <2> QED
    BY <2>10, <2>11
<1> QED
  BY <1>3, <1>4, <1>5 DEF DataOK

(* A header in the flash is the one of the file that is stored there, with *)
(* its size behind it.                                                     *)
LEMMA HeaderStored ==
  ASSUME FilesFit, IInv, DataOK, ~Storing, DataFieldFound(FlashBlock(0))
  PROVE  \E f \in GoodFile : ExtractSize(FlashBlock(0)) = DataLen[f]
<1>1. PICK g \in GoodFile : FlashBlock(0)[0] = <<g, 0>>
  BY HeaderNames
<1>2. ASSUME NEW i \in 0 .. BufLen - 1 PROVE FlashBlock(0)[i] = flash[i]
  <2>1. (0 + i) % FlashLen = i
    <3>1. i \in Nat /\ 0 + i = i /\ FlashLen \in Nat /\ i < FlashLen
      BY FileSizes, Sizes, SizeAssumption
    <3> QED
      BY <3>1, ModSmall
  <2> QED
    BY <2>1 DEF FlashBlock, DataOK, Calm
<1>3. 0 \in 0 .. BufLen - 1 /\ 0 \in 0 .. FlashLen - 1
  BY Sizes, SizeAssumption
<1>4. flash # ErasedFlash
  <2>1. flash[0] = <<g, 0>> /\ g # "blank"
    BY <1>1, <1>2, <1>3, FileSizes, NameAssumption
  <2>2. ErasedFlash[0] = <<"blank", 0>>
    BY <1>3 DEF ErasedFlash, Blank
  <2>3. <<g, 0>> # <<"blank", 0>>
    BY <2>1
  <2> QED
    BY <2>1, <2>2, <2>3
<1>5. PICK f \in GoodFile : \E m \in DataStart .. FileLen(f) : flash = Holding(f, m)
  BY <1>4 DEF DataOK, AtRestOK
<1>6. ASSUME NEW i \in HeaderLen .. DataStart - 1 PROVE FlashBlock(0)[i] = <<f, i>>
  <2>1. PICK m \in DataStart .. FileLen(f) : flash = Holding(f, m)
    BY <1>5
  <2>2. i \in 0 .. BufLen - 1 /\ i \in 0 .. FlashLen - 1 /\ i < m
    BY FileSizes, Sizes, SizeAssumption
  <2> QED
    BY <1>2, <2>1, <2>2 DEF Holding
<1> QED
  BY <1>6, SizeRead

LEMMA ConfigIntroSpiKeeps ==
  ASSUME FilesFit, IInv, DataOK, ConfigIntroSpi PROVE DataOK'
<1>0. /\ mode = "cli" /\ cli = "CFG_INTRO" /\ pc = "poll" /\ src = "spi" /\ pc' = pc
      /\ flashAddr = 0 /\ flashAddr' = flashAddr + BufLen
      /\ StartConfig(FlashBlock(flashAddr), flashAddr + BufLen)
      /\ UNCHANGED <<mode, src, n, cnt, wr, bootKey, flash, deaf, usb, ep, manual, left,
                     hfile, hpos>>
  BY DEF ConfigIntroSpi, At, hostVars, IInv, SourceOK
<1>1. cli' \in {"CFG_BODY", "PROMPT"}
  BY <1>0 DEF StartConfig
<1>2. Calm' /\ FirstByteOK' /\ AtRestOK' /\ StoreIntroOK' /\ StoreBodyOK' /\ IntroOK'
  BY <1>0, <1>1, LoadingKeeps
<1>3. VolatileOK'
  BY <1>0 DEF VolatileOK
<1>4. FromFlashOK'
  <2>1. CASE DataFieldFound(FlashBlock(0))
    <3>1. PICK f \in GoodFile : ExtractSize(FlashBlock(0)) = DataLen[f]
      BY <1>0, <2>1, HeaderStored DEF Storing
    <3>2. PICK k \in Nat : k = BufLen - DataStart /\ DataStart + k = BufLen
      BY Sizes
    <3>3. FlashBlock(0) \in [0 .. BufLen - 1 -> Byte]
      BY FlashBlockType DEF IInv, TypeOK, BytesTypeOK
    <3>4. /\ Len(Slice(FlashBlock(0), DataStart, k)) = k
          /\ \A i \in 1 .. k :
               Slice(FlashBlock(0), DataStart, k)[i] = FlashBlock(0)[DataStart + i - 1]
      <4>1. DataStart \in Nat /\ DataStart + k <= BufLen
        BY <3>2, Sizes
      <4> QED
        BY <3>3, <4>1, SliceIs
    <3>5. 0 + BufLen = BufLen
      BY Sizes
    <3>6. /\ rx' = Slice(FlashBlock(0), DataStart, k)
          /\ fileSize' = Minus(DataLen[f], k) /\ flashAddr' = BufLen
      BY <1>0, <2>1, <3>1, <3>2, <3>5 DEF StartConfig, Fed
    <3>7. fileSize' = DataLen[f] - k /\ DataLen[f] \in Nat
      <4>1. k \in 0 .. DataLen[f] /\ DataLen[f] \in 0 .. MaxSize
        BY <3>2, FileSizes, Sizes
      <4> QED
        BY <3>6, <4>1, MinusExact
    <3>8. ASSUME NEW i \in 1 .. k PROVE rx'[i] = flash[(DataStart + i - 1) % FlashLen]
      <4>1. DataStart + i - 1 \in 0 .. BufLen - 1 /\ 0 + (DataStart + i - 1) = DataStart + i - 1
        BY <3>2, Sizes
      <4>2. FlashBlock(0)[DataStart + i - 1] = flash[(DataStart + i - 1) % FlashLen]
        BY <4>1 DEF FlashBlock, DataOK, Calm
      <4> QED
        BY <3>4, <3>6, <4>2
    <3>9. Len(rx') + fileSize' = ExtractSize(FlashBlock(0)) /\ Len(rx') = k
      BY <3>1, <3>4, <3>6, <3>7
    <3>10. FlashBlock(0)' = FlashBlock(0)
      BY <1>0 DEF FlashBlock
    <3> QED
      BY <1>0, <3>2, <3>6, <3>8, <3>9, <3>10 DEF FromFlashOK
  <2>2. CASE ~DataFieldFound(FlashBlock(0))
    BY <1>0, <2>2 DEF StartConfig, FromFlashOK
  <2> QED
    BY <2>1, <2>2
<1> QED
  BY <1>2, <1>3, <1>4 DEF DataOK

LEMMA ConfigBodySpiKeeps == ASSUME IInv, DataOK, ConfigBodySpi PROVE DataOK'
<1>0. /\ mode = "cli" /\ cli = "CFG_BODY" /\ pc = "poll" /\ src = "spi" /\ pc' = pc
      /\ flashAddr' = flashAddr + BufLen
      /\ FeedBlock(FlashBlock(flashAddr), BufLen)
      /\ UNCHANGED <<mode, src, n, cnt, wr, bootKey, flash, deaf, usb, ep, manual, left,
                     hfile, hpos>>
  BY DEF ConfigBodySpi, At, hostVars
<1>1. /\ flashAddr \in Nat /\ rx \in Seq(Byte) /\ Len(rx) \in Nat /\ fileSize \in Nat
      /\ FlashBlock(flashAddr) \in [0 .. BufLen - 1 -> Byte] /\ BufLen \in Nat
  BY FlashBlockType, Sizes DEF IInv, TypeOK, CpuTypeOK, BytesTypeOK
<1>2. PICK len \in Nat :
        /\ len = IF fileSize < BufLen THEN fileSize ELSE BufLen
        /\ fileSize' = fileSize - len
        /\ Len(rx') = Len(rx) + len
        /\ \A i \in 1 .. Len(rx) : rx'[i] = rx[i]
        /\ \A i \in 0 .. len - 1 : rx'[Len(rx) + i + 1] = FlashBlock(flashAddr)[i]
        /\ cli' = IF fileSize = len THEN "FINISH" ELSE "CFG_BODY"
  BY <1>0, <1>1, FeedIs
<1>3. Calm' /\ FirstByteOK' /\ AtRestOK' /\ StoreIntroOK' /\ StoreBodyOK' /\ IntroOK'
  BY <1>0, <1>2, LoadingKeeps
<1>4. VolatileOK'
  BY <1>0 DEF VolatileOK
<1>5. FromFlashOK'
  <2>1. /\ \A i \in 1 .. Len(rx) : rx[i] = flash[(DataStart + i - 1) % FlashLen]
        /\ Len(rx) + fileSize = ExtractSize(FlashBlock(0))
        /\ flashAddr = DataStart + Len(rx)
    BY <1>0 DEF DataOK, FromFlashOK
  <2>2. ASSUME NEW i \in 1 .. Len(rx')
        PROVE  rx'[i] = flash[(DataStart + i - 1) % FlashLen]
    <3>1. CASE i \in 1 .. Len(rx)
      BY <1>2, <2>1, <3>1
    <3>2. CASE i \notin 1 .. Len(rx)
      <4>1. PICK j \in 0 .. len - 1 :
              i = Len(rx) + j + 1 /\ flashAddr + j = DataStart + i - 1 /\ j \in 0 .. BufLen - 1
        <5>1. /\ i - Len(rx) - 1 \in 0 .. len - 1 /\ i - Len(rx) - 1 \in 0 .. BufLen - 1
              /\ i = Len(rx) + (i - Len(rx) - 1) + 1
          BY <1>1, <1>2, <3>2
        <5>2. flashAddr + (i - Len(rx) - 1) = DataStart + i - 1
          BY <1>1, <2>1, Sizes
        <5> QED
          BY <5>1, <5>2
      <4>2. rx'[i] = FlashBlock(flashAddr)[j]
        BY <1>2, <4>1
      <4>3. FlashBlock(flashAddr)[j] = flash[(flashAddr + j) % FlashLen]
        BY <4>1 DEF FlashBlock, DataOK, Calm
      <4> QED
        BY <4>1, <4>2, <4>3
    <3> QED
      BY <3>1, <3>2
  <2>3. Len(rx') + fileSize' = ExtractSize(FlashBlock(0))
    BY <1>1, <1>2, <2>1
  <2>4. FlashBlock(0)' = FlashBlock(0)
    BY <1>0 DEF FlashBlock
  <2>5. ASSUME cli' = "CFG_BODY" PROVE flashAddr' = DataStart + Len(rx')
    <3>1. len = BufLen
      BY <1>1, <1>2, <2>5
    <3> QED
      BY <1>0, <1>1, <1>2, <2>1, <3>1, Sizes
  <2> QED
    BY <1>0, <2>2, <2>3, <2>4, <2>5 DEF FromFlashOK
<1> QED
  BY <1>3, <1>4, <1>5 DEF DataOK

(* --- The flash --- *)

LEMMA StoreIntroKeeps == ASSUME FilesFit, IInv, DataOK, StoreIntro PROVE DataOK'
<1>0. /\ mode = "cli" /\ cli = "ST_INTRO" /\ pc = "act" /\ FromUsb /\ InIntro
      /\ pc' \in {"poll", "write"} /\ cli' \in {"ST_INTRO", "PROMPT"}
      /\ cli' = "PROMPT" => pc' = "poll"
      /\ UNCHANGED <<mode, src, n, cnt, flashAddr, aBuffer, rx, done, cfgKey, bootKey, flash,
                     deaf, usb, ep, manual, left, hfile, hpos>>
  BY DEF StoreIntro, At, fpgaVars, hostVars, FromUsb, InIntro
<1>1. Calm' /\ FirstByteOK'
  BY <1>0 DEF DataOK, Calm, FirstByteOK, OnWay
<1>2. IntroOK'
  BY <1>0 DEF DataOK, IntroOK, OnWay, HoldsBytes, FromUsb, InIntro
<1>3. VolatileOK' /\ FromFlashOK' /\ StoreBodyOK'
  BY <1>0 DEF VolatileOK, FromFlashOK, StoreBodyOK
<1>4. flash = ErasedFlash
  BY <1>0 DEF DataOK, StoreIntroOK
<1>5. AtRestOK'
  BY <1>0, <1>4 DEF AtRestOK, ErasedFlash
<1>6. StoreIntroOK'
  <2>1. CASE pc' = "write"
    <3>1. /\ flashAddr > Threshold /\ DataFieldFound(aBuffer)
          /\ fileSize' = StoredSize(aBuffer) /\ wr' = 0
      BY <1>0, <2>1 DEF StoreIntro
    <3>2. PICK f \in GoodFile : aBuffer[0] = <<f, 0>> /\ ExtractSize(aBuffer) = DataLen[f]
      BY <1>0, <3>1, HeaderTaken
    <3>3. Holding(f, 0) = ErasedFlash
      BY DEF Holding, ErasedFlash
    <3>4. fileSize' = Wrap(DataLen[f] + HeaderLen)
      BY <3>1, <3>2 DEF StoredSize
    <3>5. (flash = Holding(f, wr))'
      BY <1>0, <1>4, <3>1, <3>3 DEF Holding
    <3> QED
      BY <1>0, <2>1, <3>1, <3>2, <3>4, <3>5 DEF StoreIntroOK
  <2>2. CASE pc' # "write"
    BY <1>0, <1>4, <2>2 DEF StoreIntroOK, ErasedFlash
  <2> QED
    BY <2>1, <2>2
<1> QED
  BY <1>1, <1>2, <1>3, <1>5, <1>6 DEF DataOK

(* A store that is over leaves the beginning of the file. *)
StoreState(f) ==
  /\ flash = Holding(f, flashAddr + wr)
  /\ pc # "write" => wr = 0
  /\ flashAddr > Threshold /\ flashAddr < FileLen(f)
  /\ fileSize = Wrap(DataLen[f] + HeaderLen)
  /\ Coming(f, flashAddr)

LEMMA StoreBodyKeeps == ASSUME FilesFit, IInv, DataOK, StoreBody PROVE DataOK'
<1>0. /\ mode = "cli" /\ cli = "ST_BODY" /\ pc = "act" /\ FromUsb /\ wr' = 0
      /\ cli' \in {"ST_BODY", "TRIGGER"} /\ pc' \in {"poll", "write"}
      /\ cli' = "TRIGGER" => pc' = "poll"
      /\ pc' = "poll" => cnt = 0
      /\ UNCHANGED <<mode, n, cnt, flashAddr, fileSize, aBuffer, rx, done, cfgKey, bootKey,
                     flash, deaf, usb, ep, manual, left, hfile, hpos>>
  <2>1. cnt \in Nat
    BY DEF IInv, TypeOK, CpuTypeOK
  <2> QED
    BY <2>1 DEF StoreBody, StoreCheck, At, fpgaVars, hostVars, FromUsb
<1>1. PICK f \in GoodFile : StoreState(f)
  BY <1>0 DEF DataOK, StoreBodyOK, StoreState
<1>2. flashAddr \in Nat /\ wr \in Nat /\ wr = 0
  BY <1>0, <1>1 DEF IInv, TypeOK, CpuTypeOK, StoreState
<1>3. Calm' /\ FirstByteOK'
  BY <1>0 DEF DataOK, Calm, FirstByteOK, OnWay
<1>4. IntroOK' /\ VolatileOK' /\ FromFlashOK' /\ StoreIntroOK'
  BY <1>0 DEF IntroOK, VolatileOK, FromFlashOK, StoreIntroOK, InIntro
<1>5. AtRestOK'
  <2>1. flashAddr + wr \in DataStart .. FileLen(f)
    BY <1>1, <1>2, FileSizes, Sizes DEF StoreState
  <2> QED
    BY <1>0, <1>1, <2>1 DEF AtRestOK, StoreState, Holding
<1>6. StoreBodyOK'
  <2>1. CASE cli' = "ST_BODY"
    <3>1. InHand' = InHand /\ InHand = cnt
      BY <1>0 DEF InHand
    <3>2. Coming(f, flashAddr)'
      <4>1. PICK k \in Nat : k = flashAddr + InHand
        <5>1. cnt \in Nat
          BY DEF IInv, TypeOK, CpuTypeOK
        <5> QED
          BY <1>2, <3>1, <5>1
      <4>2. HoldsBytes(f, flashAddr, InHand) /\ (OnWay(f, k) \/ AllTaken(f, k))
        BY <1>1, <4>1 DEF StoreState, Coming
      <4>3. pc' = "poll" => OnWay(f, k)
        BY <1>0, <1>1, <1>2, <3>1, <4>1, <4>2, FileSizes DEF StoreState, AllTaken
      <4> QED
        BY <1>0, <3>1, <4>1, <4>2, <4>3 DEF Coming, HoldsBytes, OnWay, AllTaken
    <3> QED
      BY <1>0, <1>1, <1>2, <2>1, <3>2 DEF StoreBodyOK, StoreState, Holding
  <2> QED
    BY <2>1 DEF StoreBodyOK
<1> QED
  BY <1>3, <1>4, <1>5, <1>6 DEF DataOK

(* One program command puts the next one or two bytes behind the others. *)
LEMMA ChunkHolds ==
  ASSUME NEW f, NEW base \in Nat, NEW size \in Nat, wr \in Nat,
         base = BlockBase, size = BlockSize, wr < size, base + size <= FlashLen,
         flash = Holding(f, base + wr), HoldsBytes(f, base, size)
  PROVE  /\ Chunk \in {1, 2} /\ wr + Chunk <= size
         /\ ChunkWritten = Holding(f, base + (wr + Chunk))
<1>1. Chunk \in {1, 2}
  BY DEF Chunk
<1>2. wr + Chunk <= size
  BY <1>1 DEF Chunk
<1>3. FlashLen \in Nat
  BY SizeAssumption
<1>4. ASSUME NEW k \in 0 .. Chunk - 1
      PROVE  /\ WriteCell(k) = base + wr + k /\ base + wr + k \in 0 .. FlashLen - 1
             /\ flash[base + wr + k] = Blank
             /\ aBuffer[wr + k] = <<f, base + wr + k>>
  <2>1. base + wr + k \in Nat /\ base + wr + k < FlashLen
    BY <1>1, <1>2, <1>3
  <2>2. WriteCell(k) = base + wr + k
    BY <1>3, <2>1, ModSmall DEF WriteCell
  <2>3. flash[base + wr + k] = Blank
    <3>1. base + wr + k \in 0 .. FlashLen - 1 /\ ~(base + wr + k < base + wr)
      BY <1>3, <2>1
    <3> QED
      BY <3>1 DEF Holding
  <2>4. aBuffer[wr + k] = <<f, base + wr + k>>
    <3>1. wr + k \in 0 .. size - 1 /\ base + (wr + k) = base + wr + k
      BY <1>1, <1>2
    <3> QED
      BY <3>1 DEF HoldsBytes
  <2> QED
    BY <1>3, <2>1, <2>2, <2>3, <2>4
<1>5. ASSUME NEW a \in 0 .. FlashLen - 1
      PROVE  ChunkWritten[a] = IF a < base + (wr + Chunk) THEN <<f, a>> ELSE Blank
  <2>1. CASE \E k \in 0 .. Chunk - 1 : a = WriteCell(k)
    <3>1. PICK k \in 0 .. Chunk - 1 : a = WriteCell(k)
      BY <2>1
    <3>2. ASSUME NEW j \in 0 .. Chunk - 1, a = WriteCell(j) PROVE j = k
      <4>1. base + wr + j = base + wr + k
        BY <1>4, <3>1, <3>2
      <4>2. j \in Nat /\ k \in Nat /\ base + wr \in Nat
        BY <1>1
      <4> QED
        BY <4>1, <4>2
    <3>3. (CHOOSE j \in 0 .. Chunk - 1 : a = WriteCell(j)) = k
      BY <3>1, <3>2
    <3>4. ChunkWritten[a] = Programmed(flash[a], aBuffer[wr + k])
      <4>1. ChunkWritten[a] =
              Programmed(flash[a], aBuffer[wr + CHOOSE j \in 0 .. Chunk - 1 : a = WriteCell(j)])
        BY <2>1, Zenon DEF ChunkWritten
      <4> QED
        BY <3>3, <4>1, Zenon
    <3>5. ChunkWritten[a] = <<f, a>>
      BY <1>4, <3>1, <3>4 DEF Programmed
    <3>6. a < base + (wr + Chunk)
      BY <1>1, <1>4, <3>1
    <3> QED
      BY <3>5, <3>6
  <2>2. CASE ~ \E k \in 0 .. Chunk - 1 : a = WriteCell(k)
    <3>1. ChunkWritten[a] = flash[a]
      BY <1>1, <2>2 DEF ChunkWritten
    <3>2. a < base + wr \/ ~(a < base + (wr + Chunk))
      <4>1. ASSUME ~(a < base + wr), a < base + (wr + Chunk) PROVE FALSE
        <5>1. a - (base + wr) \in 0 .. Chunk - 1 /\ base + wr + (a - (base + wr)) = a
          BY <1>1, <1>3, <4>1
        <5> QED
          BY <1>4, <2>2, <5>1
      <4> QED
        BY <4>1
    <3>3. flash[a] = IF a < base + wr THEN <<f, a>> ELSE Blank
      BY DEF Holding
    <3>4. a < base + wr => a < base + (wr + Chunk)
      BY <1>1, <1>3
    <3> QED
      BY <3>1, <3>2, <3>3, <3>4
  <2> QED
    BY <2>1, <2>2
<1>6. ChunkWritten = [a \in 0 .. FlashLen - 1 |-> ChunkWritten[a]]
  BY DEF ChunkWritten
<1>7. ChunkWritten = Holding(f, base + (wr + Chunk))
  BY <1>5, <1>6 DEF Holding
<1> QED
  BY <1>1, <1>2, <1>7

(* Whose bytes writeFlash has in hand, and where they go. *)
LEMMA WhatIsWritten ==
  ASSUME FilesFit, IInv, DataOK, WriteFlash
  PROVE  \E f \in GoodFile :
           /\ cli = "ST_BODY" => StoreState(f)
           /\ flash = Holding(f, BlockBase + wr)
           /\ HoldsBytes(f, BlockBase, BlockSize)
           /\ BlockBase + BlockSize <= FileLen(f)
           /\ flashAddr > Threshold /\ flashAddr < FileLen(f)
           /\ cli = "ST_INTRO" => aBuffer[0] = <<f, 0>>
           /\ fileSize = Wrap(DataLen[f] + HeaderLen)
           /\ OnWay(f, BlockBase + BlockSize) \/ AllTaken(f, BlockBase + BlockSize)
<1>0. /\ mode = "cli" /\ pc = "write" /\ cli \in {"ST_INTRO", "ST_BODY"} /\ FromUsb
      /\ flashAddr \in Nat /\ wr \in Nat /\ cnt \in Nat /\ Len(ep) \in Nat
  BY DEF WriteFlash, IInv, PlaceOK, FromUsb, TypeOK, CpuTypeOK, BytesTypeOK
<1>1. CASE cli = "ST_INTRO"
  <2>1. PICK f \in GoodFile :
          /\ aBuffer[0] = <<f, 0>> /\ flash = Holding(f, wr)
          /\ flashAddr > Threshold /\ fileSize = Wrap(DataLen[f] + HeaderLen)
    BY <1>0, <1>1 DEF DataOK, StoreIntroOK
  <2>2. OnWay(f, flashAddr) /\ HoldsBytes(f, 0, flashAddr) /\ flashAddr < FileLen(f)
    BY <1>0, <1>1, <2>1, IntroNotDone, Sizes DEF InIntro
  <2>3. BlockBase = 0 /\ BlockSize = flashAddr
    BY <1>1 DEF BlockBase, BlockSize
  <2>4. 0 + wr = wr /\ 0 + flashAddr = flashAddr /\ flashAddr <= FileLen(f)
    BY <1>0, <2>2, FileSizes
  <2>5. /\ OnWay(f, 0 + flashAddr) /\ HoldsBytes(f, 0, flashAddr)
        /\ flash = Holding(f, 0 + wr) /\ 0 + flashAddr <= FileLen(f)
    BY <2>1, <2>2, <2>4, Zenon
  <2>6. /\ OnWay(f, BlockBase + BlockSize) /\ HoldsBytes(f, BlockBase, BlockSize)
        /\ flash = Holding(f, BlockBase + wr) /\ BlockBase + BlockSize <= FileLen(f)
    BY <2>3, <2>5, Zenon
  <2>7. cli # "ST_BODY"
    BY <1>1
  <2> WITNESS f \in GoodFile
  <2> QED
    BY <2>1, <2>2, <2>6, <2>7, Zenon
<1>2. CASE cli = "ST_BODY"
  <2>1. PICK f \in GoodFile : StoreState(f)
    BY <1>0, <1>2 DEF DataOK, StoreBodyOK, StoreState
  <2>2. BlockBase = flashAddr /\ BlockSize = cnt /\ InHand = cnt
    BY <1>0, <1>2 DEF BlockBase, BlockSize, InHand
  <2>3. /\ HoldsBytes(f, flashAddr, cnt)
        /\ OnWay(f, flashAddr + cnt) \/ AllTaken(f, flashAddr + cnt)
    BY <2>1, <2>2 DEF StoreState, Coming
  <2>4. flashAddr + cnt <= FileLen(f)
    <3>1. CASE OnWay(f, flashAddr + cnt)
      BY <1>0, <3>1, FileSizes DEF OnWay
    <3>2. CASE AllTaken(f, flashAddr + cnt)
      BY <3>2, FileSizes DEF AllTaken
    <3> QED
      BY <2>3, <3>1, <3>2
  <2> QED
    BY <1>2, <2>1, <2>2, <2>3, <2>4 DEF StoreState
<1> QED
  BY <1>0, <1>1, <1>2

(* Each step of writeFlash makes the stored beginning of the file longer.  *)
LEMMA WriteExtends ==
  ASSUME FilesFit, IInv, DataOK, WriteFlash
  PROVE  /\ Chunk \in {1, 2} /\ wr + Chunk <= BlockSize
         /\ BlockBase \in Nat /\ BlockSize \in Nat
         /\ \E f \in GoodFile :
              /\ cli = "ST_BODY" => StoreState(f)
              /\ flash = Holding(f, BlockBase + wr)
              /\ flash' = Holding(f, BlockBase + (wr + Chunk))
              /\ BlockBase + BlockSize <= FileLen(f)
              /\ flashAddr > Threshold /\ flashAddr < FileLen(f)
              /\ cli = "ST_INTRO" => aBuffer[0] = <<f, 0>>
              /\ fileSize = Wrap(DataLen[f] + HeaderLen)
              /\ OnWay(f, BlockBase + BlockSize) \/ AllTaken(f, BlockBase + BlockSize)
<1>1. /\ flashAddr \in Nat /\ wr \in Nat /\ cnt \in Nat /\ wr < BlockSize
      /\ BlockBase \in Nat /\ BlockSize \in Nat /\ flash' = ChunkWritten
  BY DEF WriteFlash, IInv, PlaceOK, FromUsb, TypeOK, CpuTypeOK, FillOK, BlockBase, BlockSize
<1>2. PICK f \in GoodFile :
        /\ cli = "ST_BODY" => StoreState(f)
        /\ flash = Holding(f, BlockBase + wr)
        /\ HoldsBytes(f, BlockBase, BlockSize)
        /\ BlockBase + BlockSize <= FileLen(f)
        /\ flashAddr > Threshold /\ flashAddr < FileLen(f)
        /\ cli = "ST_INTRO" => aBuffer[0] = <<f, 0>>
        /\ fileSize = Wrap(DataLen[f] + HeaderLen)
        /\ OnWay(f, BlockBase + BlockSize) \/ AllTaken(f, BlockBase + BlockSize)
  BY WhatIsWritten
<1>3. PICK base \in Nat : base = BlockBase
  BY <1>1
<1>4. PICK size \in Nat : size = BlockSize
  BY <1>1
<1>5. base + size <= FlashLen
  BY <1>2, <1>3, <1>4, FileSizes, SizeAssumption
<1>6. flash = Holding(f, base + wr) /\ HoldsBytes(f, base, size) /\ wr < size
  BY <1>1, <1>2, <1>3, <1>4, Zenon
<1>7. /\ Chunk \in {1, 2} /\ wr + Chunk <= size
      /\ ChunkWritten = Holding(f, base + (wr + Chunk))
  BY <1>1, <1>3, <1>4, <1>5, <1>6, ChunkHolds
<1>8. flash' = Holding(f, BlockBase + (wr + Chunk)) /\ wr + Chunk <= BlockSize
  BY <1>1, <1>3, <1>4, <1>7, Zenon
<1> QED
  BY <1>1, <1>2, <1>7, <1>8, Zenon

LEMMA WriteFlashKeeps == ASSUME FilesFit, IInv, DataOK, WriteFlash PROVE DataOK'
<1>0. /\ mode = "cli" /\ pc = "write" /\ cli \in {"ST_INTRO", "ST_BODY"} /\ FromUsb
      /\ flash' = ChunkWritten
      /\ pc' \in {"write", "poll"} /\ cli' \in {"ST_INTRO", "ST_BODY", "TRIGGER"}
      /\ cli' = "ST_INTRO" => pc' = "write" /\ cli = "ST_INTRO" /\ flashAddr' = flashAddr
      /\ UNCHANGED <<mode, n, cnt, fileSize, aBuffer, rx, done, cfgKey, bootKey, deaf,
                     usb, ep, manual, left, hfile, hpos>>
  BY DEF WriteFlash, StoreCheck, IInv, PlaceOK, FromUsb, fpgaVars, hostVars
<1>1. /\ flashAddr \in Nat /\ wr \in Nat /\ cnt \in Nat /\ wr < BlockSize
      /\ BlockBase \in Nat /\ BlockSize \in Nat
  BY <1>0 DEF IInv, TypeOK, CpuTypeOK, FillOK, BlockBase, BlockSize
<1>2. Chunk \in {1, 2} /\ wr + Chunk <= BlockSize
  BY WriteExtends
<1>3. PICK f \in GoodFile :
        /\ cli = "ST_BODY" => StoreState(f)
        /\ flash' = Holding(f, BlockBase + (wr + Chunk))
        /\ BlockBase + BlockSize <= FileLen(f)
        /\ flashAddr > Threshold /\ flashAddr < FileLen(f)
        /\ cli = "ST_INTRO" => aBuffer[0] = <<f, 0>>
        /\ fileSize = Wrap(DataLen[f] + HeaderLen)
        /\ OnWay(f, BlockBase + BlockSize) \/ AllTaken(f, BlockBase + BlockSize)
  BY WriteExtends
<1>4. Calm' /\ FirstByteOK' /\ VolatileOK' /\ FromFlashOK'
  BY <1>0 DEF DataOK, Calm, FirstByteOK, OnWay, VolatileOK, FromFlashOK
<1>5. IntroOK'
  BY <1>0 DEF DataOK, IntroOK, OnWay, HoldsBytes, FromUsb, InIntro
<1>6. CASE wr + Chunk < BlockSize
  <2>1. wr' = wr + Chunk /\ UNCHANGED <<cli, src, pc, flashAddr>>
    BY <1>6 DEF WriteFlash
  <2>2. BlockBase' = BlockBase /\ InHand' = InHand
    BY <1>0, <2>1 DEF BlockBase, InHand
  <2>3. flash' = Holding(f, BlockBase + wr')
    BY <1>3, <2>1, Zenon
  <2>4. Holding(f, BlockBase + wr)' = Holding(f, BlockBase + wr')
    BY <2>2 DEF Holding
  <2>5. AtRestOK'
    BY <1>0, <2>1 DEF AtRestOK, Storing
  <2>6. StoreIntroOK'
    <3>1. CASE cli = "ST_INTRO"
      <4>1. BlockBase + wr' = wr'
        BY <1>1, <1>2, <2>1, <3>1 DEF BlockBase
      <4>2. (flash = Holding(f, wr))'
        BY <2>3, <4>1 DEF Holding
      <4> QED
        BY <1>0, <1>3, <2>1, <3>1, <4>2 DEF StoreIntroOK, Threshold
    <3> QED
      BY <2>1, <3>1 DEF StoreIntroOK
  <2>7. StoreBodyOK'
    <3>1. CASE cli = "ST_BODY"
      <4>1. (flash = Holding(f, flashAddr + wr))'
        BY <2>1, <2>3, <3>1 DEF BlockBase, Holding
      <4>2. Coming(f, flashAddr)'
        BY <1>0, <1>3, <2>1, <2>2, <3>1 DEF StoreState, Coming, HoldsBytes, OnWay, AllTaken
      <4> QED
        BY <1>0, <1>3, <2>1, <4>1, <4>2 DEF StoreBodyOK
    <3> QED
      BY <2>1, <3>1 DEF StoreBodyOK
  <2> QED
    BY <1>4, <1>5, <2>5, <2>6, <2>7 DEF DataOK
<1>7. CASE ~(wr + Chunk < BlockSize)
  <2>1. /\ wr' = 0 /\ pc' = "poll" /\ cli' \in {"ST_BODY", "TRIGGER"}
        /\ cli = "ST_INTRO" => cli' = "ST_BODY" /\ flashAddr' = flashAddr
        /\ cli = "ST_BODY" => /\ flashAddr' = flashAddr + cnt
                              /\ cli' = "ST_BODY" => flashAddr + cnt < fileSize
    <3>1. fileSize \in Nat
      BY FileAssumption DEF IInv, TypeOK, CpuTypeOK
    <3> QED
      BY <1>0, <1>1, <1>7, <3>1 DEF WriteFlash, StoreCheck
  <2>2. flashAddr' = BlockBase + BlockSize /\ flashAddr' \in Nat
    <3>1. CASE cli = "ST_INTRO"
      BY <1>1, <2>1, <3>1 DEF BlockBase, BlockSize
    <3>2. CASE cli = "ST_BODY"
      BY <1>1, <2>1, <3>2 DEF BlockBase, BlockSize
    <3> QED
      BY <1>0, <3>1, <3>2
  <2>3. flash' = Holding(f, flashAddr')
    <3>1. wr + Chunk = BlockSize
      BY <1>1, <1>2, <1>7
    <3> QED
      BY <1>3, <2>2, <3>1, Zenon
  <2>4. /\ OnWay(f, flashAddr') \/ AllTaken(f, flashAddr')
        /\ flashAddr' <= FileLen(f) /\ flashAddr' > Threshold
    <3>1. OnWay(f, flashAddr') \/ AllTaken(f, flashAddr')
      BY <1>3, <2>2, Zenon
    <3>2. flashAddr' <= FileLen(f)
      BY <1>3, <2>2, Zenon
    <3>3. flashAddr' > Threshold
      BY <1>0, <1>1, <1>3, <2>1, Sizes
    <3> QED
      BY <3>1, <3>2, <3>3
  <2>5. StoreIntroOK'
    BY <2>1 DEF StoreIntroOK
  <2>6. AtRestOK'
    <3>1. CASE cli' = "TRIGGER"
      <4>1. flashAddr' \in DataStart .. FileLen(f)
        BY <2>2, <2>4, FileSizes, Sizes
      <4>2. (flash = Holding(f, flashAddr))'
        BY <2>3 DEF Holding
      <4> QED
        BY <4>1, <4>2 DEF AtRestOK, Holding
    <3> QED
      BY <1>0, <2>1, <3>1 DEF AtRestOK, Storing
  <2>7. StoreBodyOK'
    <3>1. CASE cli' = "ST_BODY"
      <4>1. flashAddr' < FileLen(f)
        <5>1. CASE cli = "ST_INTRO"
          BY <1>3, <2>1, <5>1
        <5>2. CASE cli = "ST_BODY"
          <6>1. flashAddr' < fileSize
            BY <2>1, <3>1, <5>2
          <6>2. fileSize \in Nat /\ fileSize <= DataLen[f] + HeaderLen
            BY <1>3, WrapLeast, FileSizes, FileAssumption
          <6> QED
            BY <2>2, <6>1, <6>2, FileSizes, FileAssumption
        <5> QED
          BY <1>0, <5>1, <5>2
      <4>2. OnWay(f, flashAddr')
        BY <2>4, <4>1, FileSizes DEF AllTaken
      <4>3. InHand' = 0 /\ flashAddr' + 0 = flashAddr'
        BY <2>1, <2>2 DEF InHand
      <4>4. Coming(f, flashAddr)'
        BY <1>0, <4>2, <4>3 DEF Coming, HoldsBytes, OnWay
      <4>5. (flash = Holding(f, flashAddr + wr))'
        BY <2>1, <2>2, <2>3 DEF Holding
      <4> QED
        BY <1>0, <1>3, <2>1, <2>4, <4>1, <4>4, <4>5 DEF StoreBodyOK, Threshold
    <3> QED
      BY <3>1 DEF StoreBodyOK
  <2> QED
    BY <1>4, <1>5, <2>5, <2>6, <2>7 DEF DataOK
<1> QED
  BY <1>6, <1>7

(* --- The whole --- *)

(* What the run Faults is about cannot happen. *)
LEMMA NoDisturbance ==
  ASSUME Calm
  PROVE  /\ ~BaudBootloader /\ ~BaudManual /\ ~ResetButton /\ ~PowerCycle
         /\ ~Suspend /\ ~BusReset /\ ~Watchdog /\ ~LoaderExit
BY DEF Calm, BaudBootloader, BaudManual, ResetButton, PowerCycle, Suspend, BusReset,
   Watchdog, LoaderExit

LEMMA StutterKeeps == ASSUME DataOK, UNCHANGED vars PROVE DataOK'
<1>1. UNCHANGED <<mode, cli, src, pc, n, cnt, wr, flashAddr, fileSize, aBuffer, cfgKey,
                  bootKey, flash, deaf, rx, done, usb, ep, hfile, hpos, manual, left>>
  BY DEF vars
<1>2. Calm' /\ FirstByteOK' /\ IntroOK'
  BY <1>1 DEF DataOK, Calm, FirstByteOK, IntroOK, OnWay, HoldsBytes, FromUsb, InIntro
<1>3. VolatileOK' /\ StoreBodyOK'
  BY <1>1 DEF DataOK, VolatileOK, StoreBodyOK, FedData, Coming, OnWay, AllTaken, HoldsBytes,
     InHand, Holding
<1>4. FromFlashOK'
  BY <1>1 DEF DataOK, FromFlashOK, FlashBlock
<1>5. AtRestOK' /\ StoreIntroOK'
  BY <1>1 DEF DataOK, AtRestOK, StoreIntroOK, Storing, Holding, ErasedFlash
<1> QED
  BY <1>2, <1>3, <1>4, <1>5 DEF DataOK

DataInit == Quiet /\ FilesFit /\ Init => DataOK

LEMMA DataInitially == DataInit
<1> SUFFICES ASSUME Quiet, FilesFit, Init PROVE DataOK
  BY DEF DataInit
<1>1. mode = "main" /\ deaf = FALSE /\ ep = <<>> /\ left = Budget /\ Len(ep) = 0
  BY DEF Init
<1>2. Calm /\ FirstByteOK
  BY <1>1 DEF Calm, FirstByteOK, Quiet
<1>3. IntroOK /\ VolatileOK /\ FromFlashOK /\ StoreIntroOK /\ StoreBodyOK
  BY <1>1 DEF IntroOK, VolatileOK, FromFlashOK, StoreIntroOK, StoreBodyOK
<1>4. AtRestOK
  <2>1. CASE flash = ErasedFlash
    BY <2>1 DEF AtRestOK
  <2>2. CASE \E f \in GoodFile : flash = StoredFile(f)
    <3>1. PICK f \in GoodFile : flash = StoredFile(f)
      BY <2>2
    <3>2. FileLen(f) \in DataStart .. FileLen(f)
      BY FileSizes, Sizes
    <3>3. StoredFile(f) = Holding(f, FileLen(f))
      BY DEF StoredFile, Holding
    <3> QED
      BY <3>1, <3>2, <3>3 DEF AtRestOK
  <2>3. flash = ErasedFlash \/ \E f \in GoodFile : flash = StoredFile(f)
    BY DEF Init
  <2> QED
    BY <2>1, <2>2, <2>3
<1> QED
  BY <1>2, <1>3, <1>4 DEF DataOK

DataStep == FilesFit /\ IInv /\ DataOK /\ [Next]_vars => DataOK'

LEMMA DataKeeps == DataStep
<1> SUFFICES ASSUME FilesFit, IInv, DataOK, [Next]_vars PROVE DataOK'
  BY DEF DataStep
<1>1. CASE UNCHANGED vars
  BY <1>1, StutterKeeps
<1>2. CASE Aside
  BY <1>2, AsideKeeps
<1>3. CASE HostOpen \/ HostType \/ HostPickFile \/ HostSend
  BY <1>3, HostOpenKeeps, HostTypeKeeps, HostPickFileKeeps, HostSendKeeps
<1>4. CASE Poll \/ Take
  BY <1>4, PollKeeps, TakeKeeps
<1>5. CASE ConfigIntroUsb \/ ConfigBodyUsb
  BY <1>5, ConfigIntroUsbKeeps, ConfigBodyUsbKeeps
<1>6. CASE ConfigIntroSpi \/ ConfigBodySpi
  BY <1>6, ConfigIntroSpiKeeps, ConfigBodySpiKeeps
<1>7. CASE StoreIntro \/ StoreBody \/ WriteFlash
  BY <1>7, StoreIntroKeeps, StoreBodyKeeps, WriteFlashKeeps
<1>8. ~(\/ BaudBootloader \/ BaudManual \/ ResetButton \/ PowerCycle \/ Suspend
        \/ BusReset \/ Watchdog \/ LoaderExit)
  BY NoDisturbance DEF DataOK
<1> QED
  BY <1>1, <1>2, <1>3, <1>4, <1>5, <1>6, <1>7, <1>8 DEF Next, Cpu, Cli, Environment, Aside

(***************************************************************************)
(* The theorems                                                            *)
(***************************************************************************)

(* The inductive invariant of the data path holds in every reachable       *)
(* state: what was fed or written, what the CPU has in hand, what the      *)
(* endpoint holds and what the host has still to send are, one behind the  *)
(* other, one file (commandLineInterface's intro and body states).         *)
THEOREM DataInvariance == Quiet /\ FilesFit => (Spec => []DataOK)
<1> SUFFICES ASSUME Quiet, FilesFit PROVE Spec => []DataOK
  OBVIOUS
<1>1. Init => DataOK
  BY DataInitially DEF DataInit
<1>2. IInv /\ DataOK /\ [Next]_vars => DataOK'
  BY DataKeeps DEF DataStep
<1>3. Spec => []IInv
  BY Invariance, PTL
<1> QED
  BY <1>1, <1>2, <1>3, PTL DEF Spec
(* While the FPGA is configured it has got the data of one file (or of     *)
(* what the flash holds) from the first byte on, none lost or doubled      *)
(* between the buffer fills, and fileSize counts what is missing           *)
(* (CLI_XILINX_CONFIGURE_INTRO and _BODY).                                 *)
THEOREM FeedsInOrder == Quiet /\ FilesFit => (Spec => []FedInOrder)
<1> SUFFICES ASSUME Quiet, FilesFit PROVE Spec => []FedInOrder
  OBVIOUS
<1>1. TypeOK /\ DataOK => FedInOrder
  <2>1. ASSUME TypeOK, DataOK, mode = "cli", cli \in {"CFG_BODY", "FINISH"}, src = "usb"
        PROVE  FedInOrder
    <3>1. PICK f \in GoodFile : FedData(f)
      BY <2>1 DEF DataOK, VolatileOK
    <3> QED
      BY <2>1, <3>1 DEF FedInOrder, FedFrom, FedData
  <2>2. ASSUME TypeOK, DataOK, mode = "cli", cli \in {"CFG_BODY", "FINISH"}, src # "usb"
        PROVE  FedInOrder
    BY <2>2 DEF DataOK, FromFlashOK, FedInOrder, FedFrom
  <2>3. ASSUME ~(mode = "cli" /\ cli \in {"CFG_BODY", "FINISH"}) PROVE FedInOrder
    BY <2>3 DEF FedInOrder
  <2> QED
    BY <2>1, <2>2, <2>3
<1>2. Spec => [](IInv /\ DataOK)
  BY Invariance, DataInvariance, PTL
<1> QED
  BY <1>1, <1>2, PTL DEF IInv

(* A volatile configuration that comes to its end has taken the whole      *)
(* file from the host: no byte of it is left that the command line or the  *)
(* application could take for a command.                                   *)
THEOREM EatsFile == Quiet /\ FilesFit => (Spec => []VolatileEatsFile)
<1> SUFFICES ASSUME Quiet, FilesFit PROVE Spec => []VolatileEatsFile
  OBVIOUS
<1>1. TypeOK /\ DataOK => VolatileEatsFile
  <2> SUFFICES ASSUME TypeOK, DataOK, At("FINISH", "poll"), src = "usb"
      PROVE  ~Sending /\ \A i \in 1 .. Len(ep) : ep[i][1] \notin File
    BY DEF VolatileEatsFile
  <2>1. PICK f \in GoodFile : OnWay(f, FileLen(f)) \/ AllTaken(f, FileLen(f))
    BY DEF DataOK, VolatileOK, At
  <2>2. FileLen(f) \in Nat /\ Len(ep) \in Nat
    BY FileSizes DEF TypeOK, BytesTypeOK
  <2>3. CASE OnWay(f, FileLen(f))
    BY <2>2, <2>3 DEF OnWay, Sending
  <2>4. CASE AllTaken(f, FileLen(f))
    BY <2>2, <2>4 DEF AllTaken, Sending
  <2> QED
    BY <2>1, <2>3, <2>4
<1>2. Spec => [](IInv /\ DataOK)
  BY Invariance, DataInvariance, PTL
<1> QED
  BY <1>1, <1>2, PTL DEF IInv

(* While a file is stored the flash holds its beginning, as far as it was  *)
(* programmed, and is erased behind that (the store states and writeFlash, *)
(* between any two of its program commands).                               *)
THEOREM HoldsPrefix == Quiet /\ FilesFit => (Spec => []FlashHoldsPrefix)
<1> SUFFICES ASSUME Quiet, FilesFit PROVE Spec => []FlashHoldsPrefix
  OBVIOUS
<1>1. TypeOK /\ DataOK => FlashHoldsPrefix
  <2> SUFFICES ASSUME TypeOK, DataOK, Storing
      PROVE  \E f \in File : \A a \in 0 .. FlashLen - 1 :
               flash[a] = IF a < StoredLen THEN <<f, a>> ELSE Blank
    BY DEF FlashHoldsPrefix, Storing
  <2>1. CASE cli = "ST_BODY"
    <3>1. PICK f \in GoodFile : flash = Holding(f, flashAddr + wr)
      BY <2>1 DEF DataOK, StoreBodyOK, Storing
    <3>2. f \in File /\ StoredLen = flashAddr + wr
      BY <2>1 DEF StoredLen, GoodFile
    <3> QED
      BY <3>1, <3>2 DEF Holding
  <2>2. CASE cli = "ST_INTRO" /\ pc = "write"
    <3>1. PICK f \in GoodFile : flash = Holding(f, wr)
      BY <2>2 DEF DataOK, StoreIntroOK, Storing
    <3>2. f \in File /\ StoredLen = wr
      BY <2>2 DEF StoredLen, GoodFile
    <3> QED
      BY <3>1, <3>2 DEF Holding
  <2>3. CASE cli = "ST_INTRO" /\ pc # "write"
    <3>1. flash = ErasedFlash
      BY <2>3 DEF DataOK, StoreIntroOK, Storing, TypeOK, CpuTypeOK
    <3>2. StoredLen = 0 /\ \A a \in 0 .. FlashLen - 1 : ~(a < StoredLen)
      BY <2>3 DEF StoredLen
    <3> QED
      BY <3>1, <3>2, NameAssumption DEF ErasedFlash
  <2> QED
    BY <2>1, <2>2, <2>3 DEF Storing
<1>2. Spec => [](IInv /\ DataOK)
  BY Invariance, DataInvariance, PTL
<1> QED
  BY <1>1, <1>2, PTL DEF IInv

(* writeFlash changes only cells that are erased. *)
THEOREM ErasedOnly == Quiet /\ FilesFit => (Spec => ProgramsErasedOnly)
<1> SUFFICES ASSUME Quiet, FilesFit PROVE Spec => ProgramsErasedOnly
  OBVIOUS
<1>1. ASSUME IInv, DataOK, WriteFlash, NEW a \in 0 .. FlashLen - 1, flash'[a] # flash[a]
      PROVE  flash[a] = Blank
  <2>1. PICK f \in GoodFile : /\ flash = Holding(f, BlockBase + wr)
                              /\ flash' = Holding(f, BlockBase + (wr + Chunk))
    BY <1>1, WriteExtends
  <2>2. Chunk \in {1, 2} /\ BlockBase \in Nat /\ wr \in Nat
    BY <1>1, WriteExtends DEF IInv, TypeOK, CpuTypeOK
  <2>3. a < BlockBase + wr => a < BlockBase + (wr + Chunk)
    BY <2>2
  <2>4. /\ flash[a] = IF a < BlockBase + wr THEN <<f, a>> ELSE Blank
        /\ flash'[a] = IF a < BlockBase + (wr + Chunk) THEN <<f, a>> ELSE Blank
    BY <2>1 DEF Holding
  <2> QED
    BY <1>1, <2>3, <2>4
<1>2. IInv /\ DataOK =>
        (WriteFlash => \A a \in 0 .. FlashLen - 1 : flash'[a] # flash[a] => flash[a] = Blank)
  BY <1>1
<1>3. Spec => [](IInv /\ DataOK)
  BY Invariance, DataInvariance, PTL
<1> QED
  BY <1>2, <1>3, PTL DEF ProgramsErasedOnly

(* The padding of the data makes up for what the size counted too short.   *)
PaddingEnough ==
  \A f \in GoodFile : SizeLen <= PadLen /\ PadLen < DataLen[f] /\ FileLen(f) <= MaxSize

LEMMA EssentialBytes ==
  ASSUME PaddingEnough, FilesFit, NEW f \in GoodFile, NEW m \in Nat,
         fileSize = Wrap(DataLen[f] + HeaderLen), m >= fileSize, m <= FlashLen,
         NEW a \in 0 .. DataStart + Essential(f) - 1
  PROVE  Holding(f, m)[a] = <<f, a>>
<1>1. /\ SizeLen <= PadLen /\ PadLen < DataLen[f] /\ FileLen(f) <= MaxSize /\ PadLen \in Nat
      /\ MaxSize \in Nat /\ FlashLen \in Nat /\ DataLen[f] \in Nat
  BY FileSizes, FileAssumption, SizeAssumption DEF PaddingEnough
<1>2. Essential(f) = DataLen[f] - PadLen
  BY <1>1 DEF Essential
<1>3. Wrap(DataLen[f] + HeaderLen) = DataLen[f] + HeaderLen
  <2>1. DataLen[f] + HeaderLen \in Nat /\ DataLen[f] + HeaderLen < MaxSize + 1
    BY <1>1, FileSizes
  <2> QED
    BY <1>1, <2>1, ModSmall DEF Wrap
<1>4. a \in 0 .. FlashLen - 1 /\ a < m
  BY <1>1, <1>2, <1>3, FileSizes
<1> QED
  BY <1>4 DEF Holding

(* A store that goes on to load the FPGA has put all that the FPGA needs   *)
(* into the flash (CLI_STORE_BITSTREAM_BODY, which stops SIZE_OF_SIZE      *)
(* bytes short of the file).                                               *)
THEOREM EndsUseful == Quiet /\ FilesFit /\ PaddingEnough => (Spec => StoreEndsUseful)
<1> SUFFICES ASSUME Quiet, FilesFit, PaddingEnough PROVE Spec => StoreEndsUseful
  OBVIOUS
<1>1. ASSUME IInv, DataOK, Next, At("ST_BODY", pc), cli' = "TRIGGER"
      PROVE  \E f \in GoodFile : \A a \in 0 .. DataStart + Essential(f) - 1 :
               flash'[a] = <<f, a>>
  <2>1. flashAddr \in Nat /\ cnt \in Nat /\ wr \in Nat /\ fileSize \in Nat
    BY <1>1, FileAssumption DEF IInv, TypeOK, CpuTypeOK
  <2>2. CASE StoreBody
    <3>1. flashAddr >= fileSize /\ flash' = flash /\ pc = "act"
      BY <1>1, <2>1, <2>2 DEF StoreBody, StoreCheck, At
    <3>2. PICK f \in GoodFile : StoreState(f)
      BY <1>1 DEF DataOK, StoreBodyOK, StoreState, At
    <3>3. flash' = Holding(f, flashAddr)
      BY <2>1, <3>1, <3>2 DEF StoreState
    <3>4. flashAddr <= FlashLen
      BY <2>1, <3>2, FileSizes, SizeAssumption DEF StoreState
    <3> QED
      BY <2>1, <3>1, <3>2, <3>3, <3>4, EssentialBytes DEF StoreState
  <2>3. CASE WriteFlash
    <3>1. PICK f \in GoodFile : /\ flash' = Holding(f, BlockBase + (wr + Chunk))
                                /\ BlockBase + BlockSize <= FileLen(f)
                                /\ fileSize = Wrap(DataLen[f] + HeaderLen)
      BY <1>1, <2>3, WriteExtends
    <3>2. BlockBase = flashAddr /\ BlockSize = cnt
      BY <1>1 DEF BlockBase, BlockSize, At
    <3>3. wr + Chunk <= cnt /\ Chunk \in {1, 2}
      BY <1>1, <2>3, <3>2, WriteExtends
    <3>4. wr + Chunk = cnt /\ flashAddr + cnt >= fileSize
      BY <1>1, <2>1, <2>3, <3>2, <3>3 DEF WriteFlash, StoreCheck, At
    <3>5. PICK m \in Nat : m = flashAddr + cnt
      BY <2>1
    <3>6. flash' = Holding(f, m)
      BY <3>1, <3>2, <3>4, <3>5, Zenon
    <3>7. m <= FlashLen /\ m >= fileSize
      BY <3>1, <3>2, <3>4, <3>5, FileSizes, SizeAssumption
    <3> QED
      BY <3>1, <3>6, <3>7, EssentialBytes
  <2>4. StoreBody \/ WriteFlash
    <3>1. Calm
      BY <1>1 DEF DataOK
    <3>2. /\ mode = "cli" /\ cli = "ST_BODY" /\ cli' = "TRIGGER"
      BY <1>1 DEF At
    <3>3. ~(Environment \/ Watchdog \/ LoaderExit)
      BY <3>1, <3>2, NoDisturbance
         DEF Environment, HostOpen, HostType, HostPickFile, HostSend, cpuVars
    <3>4. ~(MainLoop \/ AppReceive \/ AppReturn)
      BY <3>2 DEF MainLoop, AppReceive, AppReturn
    <3>5. ~(\/ WaitForConnect \/ FlashInfo \/ Listen \/ TakeCommand \/ TriggerConfig
            \/ ConfigIntroUsb \/ ConfigIntroSpi \/ ConfigBodyUsb \/ ConfigBodySpi
            \/ FinishSuccess \/ FinishFail \/ StoreIntro)
      BY <3>2 DEF WaitForConnect, FlashInfo, Listen, TakeCommand, TriggerConfig,
         ConfigIntroUsb, ConfigIntroSpi, ConfigBodyUsb, ConfigBodySpi,
         FinishSuccess, FinishFail, StoreIntro, At
    <3>6. ~(EraseDone \/ Poll \/ Take)
      BY <3>2 DEF EraseDone, Poll, Take
    <3> QED
      BY <1>1, <3>3, <3>4, <3>5, <3>6 DEF Next, Cpu, Cli
  <2> QED
    BY <2>2, <2>3, <2>4
<1>2. ASSUME IInv, DataOK, UNCHANGED vars, At("ST_BODY", pc), cli' = "TRIGGER" PROVE FALSE
  BY <1>2 DEF vars, At
<1>3. IInv /\ DataOK /\ [Next]_vars =>
        (At("ST_BODY", pc) /\ cli' = "TRIGGER" =>
           \E f \in GoodFile : \A a \in 0 .. DataStart + Essential(f) - 1 :
             flash'[a] = <<f, a>>)
  BY <1>1, <1>2
<1>4. Spec => [](IInv /\ DataOK)
  BY Invariance, DataInvariance, PTL
<1> QED
  BY <1>3, <1>4, PTL DEF Spec, StoreEndsUseful
=============================================================================
