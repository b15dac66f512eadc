------------------------------ MODULE SpiFlash ------------------------------
(***************************************************************************)
(* flash.c against the SST25VF040B it drives, one SPI command (chip select *)
(* low to high) a step, and one turn of a wait loop a step.                *)
(*                                                                         *)
(* pc is the place in eraseFlash, writeFlash, readFlash or getFlashChipID. *)
(* The chip is modelled from how the driver uses it: it obeys a write only *)
(* after a write enable and with its block protection off, nothing but a   *)
(* status read while it is busy, and in AAI mode (auto address increment)  *)
(* nothing but the next word, a write disable and, unless the data line    *)
(* shows ready/busy (EBSY), a status read.  It comes up protected.  A      *)
(* reset of the microcontroller does not reset it.                         *)
(***************************************************************************)
EXTENDS FlashCells

CONSTANTS
  Data,      (* bytes the callers write *)
  MaxLen,    (* longest block they read or write *)
  Faults     (* bounds resets: [mcu : Nat, power : Nat] *)

ASSUME DriverAssumption ==
  /\ MaxLen \in Nat /\ Data \subseteq Byte
  /\ Faults \in [mcu : Nat, power : Nat]

VARIABLES
  pc,
  address, size,        (* where the call is, and readFlash's size *)
  buffer,               (* writeFlash's bytes still to be clocked out; its *)
                        (* size is their number *)
  out,                  (* what readFlash or getFlashChipID returned *)
  next,                 (* where the command line's next block goes; NoFile *)
                        (* until an eraseFlash has returned *)
  cell, wel, protect, aai, ebsy, ptr,   (* the chip: write enable latch,    *)
                        (* block protection, AAI mode, its address counter, *)
                        (* ready/busy on the data line,                     *)
  pend,                 (* and what it is busy with *)
  ignored,              (* it did not obey the last command *)
  left

mcu  == <<pc, address, size, buffer, out, next>>
chip == <<cell, wel, protect, aai, ebsy, ptr, pend, ignored>>
vars == <<pc, address, size, buffer, out, next,
          cell, wel, protect, aai, ebsy, ptr, pend, ignored, left>>

NoFile == -1
Idle == [op |-> "none", at |-> 0, bytes |-> <<>>]
Busy == pend.op # "none"

EraseAt == {"unlock", "unprotect", "arm", "erase", "erasing"}
OddAt   == {"oddArm", "oddByte", "oddWait"}
WordsAt == {"enableBusy", "wordsArm", "firstWord", "word", "wordWait"}
EndAt   == {"disableWrite", "disableBusy"}
LastAt  == {"lastArm", "lastByte", "lastWait"}
WriteAt == OddAt \cup WordsAt \cup EndAt \cup LastAt
WaitAt  == {"erasing", "oddWait", "wordWait", "lastWait"}

-----------------------------------------------------------------------------
(* The chip                                                                *)

(* Does the chip obey a command?  (Status reads are part of the waits.) *)
Obeys(op) ==
  /\ ~Busy
  /\ aai => op \in {"MORE", "WRDI"}
  /\ op \in {"BYTE", "WORD", "ERASE"} => wel /\ ~protect
  /\ op = "WRSR" => wel
  /\ op = "MORE" => aai

(* What it does with it.  b are the data bytes that follow; the words of   *)
(* AAI lie at even addresses. *)
Even(a) == a - (a % 2)
Start(op, a, b) == pend' = [op |-> op, at |-> a, bytes |-> b]

Obey(op, b) ==
  /\ wel' = CASE op = "WREN" -> TRUE [] op \in {"WRDI", "WRSR"} -> FALSE
              [] OTHER -> wel
  /\ protect' = (protect /\ op # "WRSR")
  /\ ebsy' = CASE op = "EBSY" -> TRUE [] op = "DBSY" -> FALSE [] OTHER -> ebsy
  /\ aai' = CASE op = "WORD" -> TRUE [] op = "WRDI" -> FALSE [] OTHER -> aai
  /\ CASE op = "BYTE"            -> Start("program", address, b)
       [] op = "WORD"             -> Start("program", Even(address), b)
       [] op = "MORE"             -> Start("program", ptr, b)
       [] op = "ERASE"            -> Start("erase", 0, <<>>)
       [] OTHER                   -> UNCHANGED pend
  /\ ptr' = CASE op = "WORD" -> Even(address) + 2 [] op = "MORE" -> ptr + 2
              [] OTHER -> ptr

Command(op, b) ==
  /\ IF Obeys(op) THEN Obey(op, b)
                  ELSE UNCHANGED <<wel, protect, aai, ebsy, ptr, pend>>
  /\ ignored' = ~Obeys(op) /\ UNCHANGED cell

Finished == CASE pend.op = "program" -> Programmed(cell, pend.at, pend.bytes)
              [] pend.op = "erase"   -> AllBlank
              [] OTHER               -> cell

(* The internal operation ends; it clears the write enable, except in AAI. *)
Settle ==
  /\ cell' = Finished /\ pend' = Idle
  /\ wel' = (wel /\ (~Busy \/ aai))
  /\ UNCHANGED <<protect, aai, ebsy, ptr>>

ChipFinishes == Busy /\ Settle /\ UNCHANGED mcu /\ UNCHANGED <<ignored, left>>

(* The data line with chip select low: the status register's BUSY bit, or  *)
(* ready/busy, which is the other way round, if EBSY turned it on for AAI. *)
ShowsReady == aai /\ ebsy
StatusBit0 == IF ShowsReady THEN ~Busy ELSE Busy
MisoLow == ShowsReady /\ Busy

-----------------------------------------------------------------------------
(* The driver                                                              *)

PairOfOne(n) == n > 0                                 (* mutant of Pair *)
FirstStepAnywhere(a, n) == IF n > 1 THEN "enableBusy" ELSE "lastArm"
                                                      (* mutant of FirstStep *)

(* At least one pair of bytes is left. *)
Pair(n) == n > 1

(* Where writeFlash goes on with n bytes left: single byte to an even      *)
(* address, words, last byte.                                              *)
NoWords(n) == IF n # 0 THEN "lastArm" ELSE "idle"
Aligned(n) == IF Pair(n) THEN "enableBusy" ELSE NoWords(n)
FirstStep(a, n) == IF (a % 2) # 0 THEN "oddArm" ELSE Aligned(n)

(* One command: chip select low, the command with its address and the     *)
(* next k bytes of the buffer, chip select high; then on to place to.      *)
Send(from, op, k, to) ==
  /\ pc = from /\ pc' = to
  /\ Command(op, Take(buffer, k))
  /\ buffer' = Drop(buffer, k) /\ address' = address + k
  /\ next' = IF to = "idle" THEN address ELSE next
  /\ UNCHANGED <<size, out, left>>

EraseFlashUnarmed ==                                  (* mutant of EraseFlash *)
  \/ Send("unlock", "WREN", 0, "unprotect")
  \/ Send("unprotect", "WRSR", 0, "erase")
  \/ Send("erase", "ERASE", 0, "erasing")

EraseFlash ==
  \/ Send("unlock", "WREN", 0, "unprotect")
  \/ Send("unprotect", "WRSR", 0, "arm")
  \/ Send("arm", "WREN", 0, "erase")
  \/ Send("erase", "ERASE", 0, "erasing")

WriteFlash ==
  \/ Send("oddArm", "WREN", 0, "oddByte")
  \/ Send("oddByte", "BYTE", 1, "oddWait")
  \/ Send("enableBusy", "EBSY", 0, "wordsArm")
  \/ Send("wordsArm", "WREN", 0, "firstWord")
  \/ Send("firstWord", "WORD", 2, "wordWait")
  \/ Send("word", "MORE", 2, "wordWait")
  \/ Send("disableWrite", "WRDI", 0, "disableBusy")
  \/ Send("disableBusy", "DBSY", 0, NoWords(Len(buffer)))
  \/ Send("lastArm", "WREN", 0, "lastByte")
  \/ Send("lastByte", "BYTE", 1, "lastWait")

(* The end of a wait loop.  A block that ends leaves its last address + 1. *)
Leave(to) ==
  /\ pc' = to
  /\ next' = IF to = "idle" THEN (IF pc = "erasing" THEN 0 ELSE address) ELSE next
  /\ UNCHANGED chip /\ UNCHANGED <<address, size, buffer, out, left>>

WaitWhileBusy ==
  /\ ~StatusBit0
  /\ \/ pc \in {"erasing", "lastWait"} /\ Leave("idle")
     \/ pc = "oddWait" /\ Leave(Aligned(Len(buffer)))

WaitWhileHwBusy ==
  /\ ~MisoLow
  /\ pc = "wordWait"
  /\ Leave(IF Pair(Len(buffer)) THEN "word" ELSE "disableWrite")

(* readFlash and getFlashChipID: one command, the chip clocks out bytes.   *)
(* Nobody pulls the line low if it does not obey.                          *)
Clocked(op, n) ==
  [i \in 1 .. n |-> IF ~Obeys(op) THEN Blank
                    ELSE IF op = "ID" THEN ChipId
                    ELSE cell[(address + i - 1) % FlashLen]]

Inquire(from, op, n) ==
  /\ pc = from /\ pc' = "idle"
  /\ out' = Clocked(op, n) /\ Command(op, <<>>)
  /\ UNCHANGED <<address, size, buffer, next, left>>

ReadFlash == Inquire("read", "READ", size)
GetFlashChipID == Inquire("identify", "ID", 1)

-----------------------------------------------------------------------------
(* The callers: the command line reads and asks for the chip at any time,  *)
(* and stores a file in blocks that follow each other, after an erase.     *)

Call(to, a, n, b) ==
  /\ pc = "idle" /\ pc' = to
  /\ address' = a /\ size' = n /\ buffer' = b /\ out' = <<>>
  /\ UNCHANGED left /\ UNCHANGED chip

CallIdentify == Call("identify", address, size, <<>>) /\ UNCHANGED next
CallRead ==
  /\ \E a \in Address, n \in 1 .. MaxLen : Call("read", a, n, <<>>)
  /\ UNCHANGED next
CallErase == Call("unlock", address, size, <<>>) /\ next' = NoFile
CallWrite ==
  /\ next # NoFile
  /\ \E n \in 1 .. MaxLen : \E b \in [1 .. n -> Data] :
       /\ next + n <= FlashLen
       /\ Call(FirstStep(next, n), next, size, b)
  /\ UNCHANGED next

(* A reset by button or watchdog.  Bootloader and watchdog take longer     *)
(* than anything the chip may be busy with.                                *)
Restarted ==
  /\ pc' = "idle" /\ address' = 0 /\ size' = 0 /\ buffer' = <<>>
  /\ next' = NoFile /\ ignored' = FALSE /\ out' = <<>>

McuReset ==
  /\ left.mcu > 0 /\ left' = [left EXCEPT !.mcu = @ - 1]
  /\ Restarted /\ Settle

(* Without power the chip forgets its mode, and what it was busy with is   *)
(* half done.                                                              *)
PowerLoss ==
  /\ left.power > 0 /\ left' = [left EXCEPT !.power = @ - 1]
  /\ Restarted
  /\ cell' \in Torn(cell, Finished)
  /\ wel' = FALSE /\ protect' = TRUE /\ aai' = FALSE /\ ebsy' = FALSE
  /\ ptr' = 0 /\ pend' = Idle

-----------------------------------------------------------------------------
Init ==
  /\ pc = "idle" /\ address = 0 /\ size = 0 /\ buffer = <<>> /\ out = <<>>
  /\ next = NoFile
  /\ cell \in {AllBlank, [a \in Address |-> Garbage]}
  /\ wel = FALSE /\ protect = TRUE /\ aai = FALSE /\ ebsy = FALSE
  /\ ptr = 0 /\ pend = Idle /\ ignored = FALSE
  /\ left = Faults

Driver == EraseFlash \/ WriteFlash \/ WaitWhileBusy \/ WaitWhileHwBusy
          \/ ReadFlash \/ GetFlashChipID
Caller == CallIdentify \/ CallRead \/ CallErase \/ CallWrite

Next == Driver \/ Caller \/ ChipFinishes \/ McuReset \/ PowerLoss

Spec == Init /\ [][Next]_vars

(* The driver runs on and the chip ends what it is busy with. *)
FairSpec == Spec /\ WF_vars(Driver) /\ WF_vars(ChipFinishes)

-----------------------------------------------------------------------------
(* Properties                                                              *)

TypeOK ==
  /\ pc \in {"idle", "read", "identify"} \cup EraseAt \cup WriteAt
  /\ address \in Nat /\ size \in Nat
  /\ buffer \in Seq(Byte) /\ out \in Seq(Byte)
  /\ next \in 0 .. FlashLen \cup {NoFile}
  /\ cell \in [Address -> Byte]
  /\ wel \in BOOLEAN /\ protect \in BOOLEAN
  /\ aai \in BOOLEAN /\ ebsy \in BOOLEAN /\ ptr \in Nat
  /\ pend \in [op : {"none", "program", "erase"}, at : Nat, bytes : Seq(Byte)]
  /\ ignored \in BOOLEAN /\ left \in [mcu : Nat, power : Nat]

(* Left in AAI mode by a reset: it answers no read and no erase ends. *)
Deaf == aai /\ pc \notin WriteAt

(* flash.c keeps the promise of FlashStore, whatever reset or power loss   *)
(* comes at whatever step. *)
StoreCall ==
  CASE pc \in WriteAt -> "write"
    [] pc = "erasing" -> IF Busy \/ Deaf THEN "erase" ELSE "erased"
    [] pc \in EraseAt \ {"erasing"} -> "erase"
    [] pc = "idle" -> "none"
    [] OTHER -> pc

Programming == pc \in WriteAt /\ pend.op = "program"

StoreAt == IF Programming THEN pend.at ELSE address
StoreRest == IF Programming THEN pend.bytes \o buffer ELSE buffer

Store == INSTANCE FlashStore WITH
  deaf <- Deaf, call <- StoreCall, at <- StoreAt, len <- size, rest <- StoreRest

ImplementsStore == Store!FairSpec

(* The chip obeys every command the driver sends, for the driver would not *)
(* notice if it did not: no write without its write enable, none into a    *)
(* busy or protected chip, nothing but words in AAI mode.  The exception   *)
(* is a chip that a reset left in AAI mode.                                *)
CommandsObeyed == ignored => Deaf

(* Why the chip obeys.  What it is busy with is what the wait loop at pc   *)
(* waits for.                                                              *)
BusyOK ==
  /\ pend.op = "erase" => pc = "erasing"
  /\ pend.op = "program" => /\ pc \in {"oddWait", "wordWait", "lastWait"}
                            /\ Len(pend.bytes) \in {1, 2}
                            /\ pend.at + Len(pend.bytes) = address
  /\ pend.op = "none" => pend = Idle
  /\ Busy => ~Deaf

(* Each write has its write enable, on a chip without block protection.    *)
ArmedOK ==
  /\ ~Deaf /\ pc \in {"unprotect", "erase", "oddByte", "firstWord", "lastByte"} => wel
  /\ ~Deaf /\ pc \in {"arm", "erase", "erasing"} => ~protect
  /\ next # NoFile => ~protect /\ ~Deaf
  /\ pc \in WriteAt => next # NoFile
  /\ pc \in EraseAt => next = NoFile

(* AAI mode is on between the first word and the write disable only, and   *)
(* its address counter is the driver's.                                    *)
AaiOK ==
  /\ pc \in WriteAt => (aai <=> pc \in {"word", "wordWait", "disableWrite"})
  /\ pc \in {"wordsArm", "firstWord"} => ebsy
  /\ aai => ebsy
  /\ pc \in {"word", "wordWait"} => ptr = address

(* A single byte leads to the even address where words start, and the   *)
(* block stays in the chip.                                                *)
BlockOK ==
  /\ pc \in {"oddWait", "enableBusy", "wordsArm", "firstWord"} => address % 2 = 0
  /\ pc \in {"oddArm", "oddByte"} => address % 2 = 1
  /\ pc \in {"oddArm", "oddByte", "lastArm", "lastByte"} => Len(buffer) >= 1
  /\ pc \in {"enableBusy", "wordsArm", "firstWord", "word"} => Len(buffer) >= 2
  /\ pc \in {"disableWrite", "disableBusy", "lastArm", "lastByte"} => Len(buffer) <= 1
  /\ pc \in {"lastWait"} \/ pc \notin WriteAt => buffer = <<>>
  /\ pc \in WriteAt => address + Len(buffer) <= FlashLen

IInv == TypeOK /\ BusyOK /\ ArmedOK /\ AaiOK /\ BlockOK /\ CommandsObeyed

(* flash.h: eraseFlash "erases the entire FLASH memory".  The command line *)
(* comes back from it, if no reset comes in between.                       *)
Erasing == pc \in EraseAt
EraseReturns == Erasing ~> ~Erasing

=============================================================================
