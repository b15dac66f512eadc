--------------------------- MODULE SpiFlash_proof ---------------------------
(***************************************************************************)
(* Proofs about SpiFlash, for every size of the chip and of the blocks:    *)
(* the chip obeys every command unless a reset left it in AAI mode, and    *)
(* the driver implements FlashStore.                                       *)
(***************************************************************************)
EXTENDS SpiFlash, SequenceTheorems, TLAPS

(* What the first elements of a sequence and the rest of it are. *)
LEMMA TakeDrop ==
  ASSUME NEW S, NEW s \in Seq(S), NEW k \in Nat
  PROVE  /\ Take(s, k) \in Seq(S)
         /\ Len(Take(s, k)) = IF k <= Len(s) THEN k ELSE Len(s)
         /\ Drop(s, k) \in Seq(S)
         /\ Len(Drop(s, k)) = IF k <= Len(s) THEN Len(s) - k ELSE 0
         /\ k = 0 => Drop(s, k) = s
<1> DEFINE m == IF k <= Len(s) THEN k ELSE Len(s)
<1>0. Len(s) \in Nat /\ m \in Nat /\ m <= Len(s)
  BY LenProperties
<1>1. /\ \A i \in 1 .. m : s[i] \in S
      /\ \A i \in k + 1 .. Len(s) : s[i] \in S
  BY <1>0, ElementOfSeq
<1>2. /\ SubSeq(s, 1, m) \in Seq(S)
      /\ Len(SubSeq(s, 1, m)) = IF 1 <= m THEN m - 1 + 1 ELSE 0
  BY <1>0, <1>1, SubSeqProperties
<1>3. /\ SubSeq(s, k + 1, Len(s)) \in Seq(S)
      /\ Len(SubSeq(s, k + 1, Len(s))) = IF k + 1 <= Len(s) THEN Len(s) - (k + 1) + 1 ELSE 0
  BY <1>0, <1>1, SubSeqProperties
<1>4. k = 0 => SubSeq(s, k + 1, Len(s)) = s
  BY SubSeqFull
<1> QED
  BY <1>0, <1>2, <1>3, <1>4 DEF Take, Drop

LEMMA CommandType ==
  ASSUME TypeOK, NEW op, NEW b \in Seq(Byte), Command(op, b)
  PROVE  /\ wel' \in BOOLEAN /\ protect' \in BOOLEAN
         /\ aai' \in BOOLEAN /\ ebsy' \in BOOLEAN /\ ptr' \in Nat
         /\ pend' \in [op : {"none", "program", "erase"}, at : Nat, bytes : Seq(Byte)]
         /\ ignored' \in BOOLEAN /\ cell' = cell
<1>1. Even(address) \in Nat
  <2>1. address \in Nat /\ address % 2 \in {0, 1} /\ (address = 0 => address % 2 = 0)
    BY DEF TypeOK
  <2> QED
    BY <2>1 DEF Even
<1>2. <<>> \in Seq(Byte)
  OBVIOUS
<1>3. ignored' \in BOOLEAN /\ cell' = cell
  BY DEF Command
<1>4. CASE ~Obeys(op)
  BY <1>3, <1>4 DEF Command, TypeOK
<1>5. CASE Obeys(op)
  <2>1. Obey(op, b)
    BY <1>5 DEF Command
  <2>2. /\ wel' \in BOOLEAN /\ protect' \in BOOLEAN
        /\ aai' \in BOOLEAN /\ ebsy' \in BOOLEAN
    BY <2>1, Zenon DEF Obey, TypeOK
  <2>3. ptr' \in Nat
    BY <1>1, <2>1 DEF Obey, TypeOK
  <2>4. pend' \in [op : {"none", "program", "erase"}, at : Nat, bytes : Seq(Byte)]
    <3>1. CASE op \in {"BYTE", "WORD", "MORE"}
      <4>1. \E a \in {address, Even(address), ptr} : pend' = [op |-> "program", at |-> a, bytes |-> b]
        BY <2>1, <3>1 DEF Obey, Start
      <4> QED
        BY <1>1, <4>1 DEF TypeOK
    <3>2. CASE op = "ERASE"
      <4>1. pend' = [op |-> "erase", at |-> 0, bytes |-> <<>>]
        BY <2>1, <3>2 DEF Obey, Start
      <4> QED
        BY <1>2, <4>1
    <3>3. CASE op \notin {"BYTE", "WORD", "MORE", "ERASE"}
      BY <2>1, <3>3 DEF Obey, TypeOK
    <3> QED
      BY <3>1, <3>2, <3>3
  <2> QED
    BY <1>3, <2>2, <2>3, <2>4
<1> QED
  BY <1>4, <1>5

LEMMA SendType ==
  ASSUME TypeOK, NEW from, NEW op, NEW k \in Nat, NEW to, Send(from, op, k, to),
         to \in {"idle", "read", "identify"} \cup EraseAt \cup WriteAt,
         to = "idle" => address <= FlashLen
  PROVE  /\ TypeOK'
         /\ Len(buffer') = IF k <= Len(buffer) THEN Len(buffer) - k ELSE 0
         /\ Len(Take(buffer, k)) = IF k <= Len(buffer) THEN k ELSE Len(buffer)
         /\ Take(buffer, k) \in Seq(Byte)
         /\ k = 0 => buffer' = buffer
<1>1. /\ Take(buffer, k) \in Seq(Byte) /\ Drop(buffer, k) \in Seq(Byte)
      /\ Len(Take(buffer, k)) = IF k <= Len(buffer) THEN k ELSE Len(buffer)
      /\ Len(Drop(buffer, k)) = IF k <= Len(buffer) THEN Len(buffer) - k ELSE 0
      /\ k = 0 => Drop(buffer, k) = buffer
  BY TakeDrop DEF TypeOK
<1>2. Command(op, Take(buffer, k)) /\ buffer' = Drop(buffer, k)
  BY DEF Send
<1>3. /\ wel' \in BOOLEAN /\ protect' \in BOOLEAN
      /\ aai' \in BOOLEAN /\ ebsy' \in BOOLEAN /\ ptr' \in Nat
      /\ pend' \in [op : {"none", "program", "erase"}, at : Nat, bytes : Seq(Byte)]
      /\ ignored' \in BOOLEAN /\ cell' = cell
  BY <1>1, <1>2, CommandType
<1>4. pc' = to /\ address' \in Nat /\ size' \in Nat /\ out' \in Seq(Byte)
      /\ left' \in [mcu : Nat, power : Nat]
  BY DEF Send, TypeOK
<1>5. next' \in 0 .. FlashLen \cup {NoFile}
  BY CellAssumption DEF Send, TypeOK
<1>6. cell' \in [Address -> Byte] /\ buffer' \in Seq(Byte)
  BY <1>1, <1>2, <1>3 DEF TypeOK
<1>7. TypeOK'
  BY <1>3, <1>4, <1>5, <1>6 DEF TypeOK
<1> QED
  BY <1>1, <1>2, <1>7

LEMMA EraseFlashKeeps ==
  ASSUME IInv, EraseFlash
  PROVE  IInv'
<1> USE DEF Deaf, Busy, NoFile, EraseAt, WriteAt, OddAt, WordsAt, EndAt, LastAt
<1>1. CASE Send("unlock", "WREN", 0, "unprotect")
  <2>1. /\ TypeOK /\ pc = "unlock" /\ pc' = "unprotect"
        /\ next' = (IF pc' = "idle" THEN address ELSE next) /\ address' = address + 0
        /\ Command("WREN", Take(buffer, 0))
    BY <1>1 DEF IInv, Send
  <2>0. address \in Nat /\ Len(buffer) \in Nat /\ FlashLen \in Nat
    BY <2>1, CellAssumption, LenProperties DEF TypeOK
  <2>2. /\ TypeOK' /\ Len(buffer') = (IF 0 <= Len(buffer) THEN Len(buffer) - 0 ELSE 0)
        /\ Len(Take(buffer, 0)) = (IF 0 <= Len(buffer) THEN 0 ELSE Len(buffer))
        /\ buffer' = buffer
    BY <1>1, <2>1, SendType
  <2>3. ~Busy
    BY <2>1 DEF IInv, BusyOK, TypeOK
  <2>4. Obeys("WREN") \/ Deaf
    BY <2>1, <2>3 DEF Obeys, IInv, ArmedOK, AaiOK
  <2>5. ~Obeys("WREN") => UNCHANGED <<wel, protect, aai, ebsy, ptr, pend>>
    BY <2>1 DEF Command
  <2>6. Obeys("WREN") => Obey("WREN", Take(buffer, 0))
    BY <2>1 DEF Command
  <2>7. ignored' = ~Obeys("WREN")
    BY <2>1 DEF Command
  <2>8. UNCHANGED pend
    BY <2>1, <2>5, <2>6 DEF Obey, Start
  <2>9. BusyOK'
    BY <2>1, <2>3, <2>8 DEF BusyOK, IInv, TypeOK
  <2>10. ArmedOK'
    BY <2>0, <2>1, <2>2, <2>3, <2>4, <2>5, <2>6, <2>7 DEF IInv, BusyOK, ArmedOK, AaiOK, BlockOK, CommandsObeyed, Obey, Start, Even, TypeOK, Idle
  <2>11. AaiOK'
    BY <2>0, <2>1, <2>2, <2>3, <2>4, <2>5, <2>6, <2>7 DEF IInv, BusyOK, ArmedOK, AaiOK, BlockOK, CommandsObeyed, Obey, Start, Even, TypeOK, Idle
  <2>12. BlockOK'
    BY <2>0, <2>1, <2>2 DEF IInv, BlockOK, ArmedOK, TypeOK
  <2>13. CommandsObeyed'
    BY <2>0, <2>1, <2>2, <2>3, <2>4, <2>5, <2>6, <2>7 DEF IInv, BusyOK, ArmedOK, AaiOK, BlockOK, CommandsObeyed, Obey, Start, Even, TypeOK, Idle
  <2> QED
    BY <2>2, <2>9, <2>10, <2>11, <2>12, <2>13 DEF IInv
<1>2. CASE Send("unprotect", "WRSR", 0, "arm")
  <2>1. /\ TypeOK /\ pc = "unprotect" /\ pc' = "arm"
        /\ next' = (IF pc' = "idle" THEN address ELSE next) /\ address' = address + 0
        /\ Command("WRSR", Take(buffer, 0))
    BY <1>2 DEF IInv, Send
  <2>0. address \in Nat /\ Len(buffer) \in Nat /\ FlashLen \in Nat
    BY <2>1, CellAssumption, LenProperties DEF TypeOK
  <2>2. /\ TypeOK' /\ Len(buffer') = (IF 0 <= Len(buffer) THEN Len(buffer) - 0 ELSE 0)
        /\ Len(Take(buffer, 0)) = (IF 0 <= Len(buffer) THEN 0 ELSE Len(buffer))
        /\ buffer' = buffer
    BY <1>2, <2>1, SendType
  <2>3. ~Busy
    BY <2>1 DEF IInv, BusyOK, TypeOK
  <2>4. Obeys("WRSR") \/ Deaf
    BY <2>1, <2>3 DEF Obeys, IInv, ArmedOK, AaiOK
  <2>5. ~Obeys("WRSR") => UNCHANGED <<wel, protect, aai, ebsy, ptr, pend>>
    BY <2>1 DEF Command
  <2>6. Obeys("WRSR") => Obey("WRSR", Take(buffer, 0))
    BY <2>1 DEF Command
  <2>7. ignored' = ~Obeys("WRSR")
    BY <2>1 DEF Command
  <2>8. UNCHANGED pend
    BY <2>1, <2>5, <2>6 DEF Obey, Start
  <2>9. BusyOK'
    BY <2>1, <2>3, <2>8 DEF BusyOK, IInv, TypeOK
  <2>10. ArmedOK'
    BY <2>0, <2>1, <2>2, <2>3, <2>4, <2>5, <2>6, <2>7 DEF IInv, BusyOK, ArmedOK, AaiOK, BlockOK, CommandsObeyed, Obey, Start, Even, TypeOK, Idle
  <2>11. AaiOK'
    BY <2>0, <2>1, <2>2, <2>3, <2>4, <2>5, <2>6, <2>7 DEF IInv, BusyOK, ArmedOK, AaiOK, BlockOK, CommandsObeyed, Obey, Start, Even, TypeOK, Idle
  <2>12. BlockOK'
    BY <2>0, <2>1, <2>2 DEF IInv, BlockOK, ArmedOK, TypeOK
  <2>13. CommandsObeyed'
    BY <2>0, <2>1, <2>2, <2>3, <2>4, <2>5, <2>6, <2>7 DEF IInv, BusyOK, ArmedOK, AaiOK, BlockOK, CommandsObeyed, Obey, Start, Even, TypeOK, Idle
  <2> QED
    BY <2>2, <2>9, <2>10, <2>11, <2>12, <2>13 DEF IInv
<1>3. CASE Send("arm", "WREN", 0, "erase")
  <2>1. /\ TypeOK /\ pc = "arm" /\ pc' = "erase"
        /\ next' = (IF pc' = "idle" THEN address ELSE next) /\ address' = address + 0
        /\ Command("WREN", Take(buffer, 0))
    BY <1>3 DEF IInv, Send
  <2>0. address \in Nat /\ Len(buffer) \in Nat /\ FlashLen \in Nat
    BY <2>1, CellAssumption, LenProperties DEF TypeOK
  <2>2. /\ TypeOK' /\ Len(buffer') = (IF 0 <= Len(buffer) THEN Len(buffer) - 0 ELSE 0)
        /\ Len(Take(buffer, 0)) = (IF 0 <= Len(buffer) THEN 0 ELSE Len(buffer))
        /\ buffer' = buffer
    BY <1>3, <2>1, SendType
  <2>3. ~Busy
    BY <2>1 DEF IInv, BusyOK, TypeOK
  <2>4. Obeys("WREN") \/ Deaf
    BY <2>1, <2>3 DEF Obeys, IInv, ArmedOK, AaiOK
  <2>5. ~Obeys("WREN") => UNCHANGED <<wel, protect, aai, ebsy, ptr, pend>>
    BY <2>1 DEF Command
  <2>6. Obeys("WREN") => Obey("WREN", Take(buffer, 0))
    BY <2>1 DEF Command
  <2>7. ignored' = ~Obeys("WREN")
    BY <2>1 DEF Command
  <2>8. UNCHANGED pend
    BY <2>1, <2>5, <2>6 DEF Obey, Start
  <2>9. BusyOK'
    BY <2>1, <2>3, <2>8 DEF BusyOK, IInv, TypeOK
  <2>10. ArmedOK'
    BY <2>0, <2>1, <2>2, <2>3, <2>4, <2>5, <2>6, <2>7 DEF IInv, BusyOK, ArmedOK, AaiOK, BlockOK, CommandsObeyed, Obey, Start, Even, TypeOK, Idle
  <2>11. AaiOK'
    BY <2>0, <2>1, <2>2, <2>3, <2>4, <2>5, <2>6, <2>7 DEF IInv, BusyOK, ArmedOK, AaiOK, BlockOK, CommandsObeyed, Obey, Start, Even, TypeOK, Idle
  <2>12. BlockOK'
    BY <2>0, <2>1, <2>2 DEF IInv, BlockOK, ArmedOK, TypeOK
  <2>13. CommandsObeyed'
    BY <2>0, <2>1, <2>2, <2>3, <2>4, <2>5, <2>6, <2>7 DEF IInv, BusyOK, ArmedOK, AaiOK, BlockOK, CommandsObeyed, Obey, Start, Even, TypeOK, Idle
  <2> QED
    BY <2>2, <2>9, <2>10, <2>11, <2>12, <2>13 DEF IInv
<1>4. CASE Send("erase", "ERASE", 0, "erasing")
  <2>1. /\ TypeOK /\ pc = "erase" /\ pc' = "erasing"
        /\ next' = (IF pc' = "idle" THEN address ELSE next) /\ address' = address + 0
        /\ Command("ERASE", Take(buffer, 0))
    BY <1>4 DEF IInv, Send
  <2>0. address \in Nat /\ Len(buffer) \in Nat /\ FlashLen \in Nat
    BY <2>1, CellAssumption, LenProperties DEF TypeOK
  <2>2. /\ TypeOK' /\ Len(buffer') = (IF 0 <= Len(buffer) THEN Len(buffer) - 0 ELSE 0)
        /\ Len(Take(buffer, 0)) = (IF 0 <= Len(buffer) THEN 0 ELSE Len(buffer))
        /\ buffer' = buffer
    BY <1>4, <2>1, SendType
  <2>3. ~Busy
    BY <2>1 DEF IInv, BusyOK, TypeOK
  <2>4. Obeys("ERASE") \/ Deaf
    BY <2>1, <2>3 DEF Obeys, IInv, ArmedOK, AaiOK
  <2>5. ~Obeys("ERASE") => UNCHANGED <<wel, protect, aai, ebsy, ptr, pend>>
    BY <2>1 DEF Command
  <2>6. Obeys("ERASE") => Obey("ERASE", Take(buffer, 0))
    BY <2>1 DEF Command
  <2>7. ignored' = ~Obeys("ERASE")
    BY <2>1 DEF Command
  <2>8. pend' = IF Obeys("ERASE") THEN [op |-> "erase", at |-> 0, bytes |-> <<>>] ELSE pend
    BY <2>1, <2>5, <2>6 DEF Obey, Start
  <2>9. BusyOK'
    BY <2>1, <2>3, <2>4, <2>5, <2>6, <2>8 DEF BusyOK, IInv, Obey, Obeys, TypeOK, Idle
  <2>10. ArmedOK'
    BY <2>0, <2>1, <2>2, <2>3, <2>4, <2>5, <2>6, <2>7 DEF IInv, BusyOK, ArmedOK, AaiOK, BlockOK, CommandsObeyed, Obey, Start, Even, TypeOK, Idle
  <2>11. AaiOK'
    BY <2>0, <2>1, <2>2, <2>3, <2>4, <2>5, <2>6, <2>7 DEF IInv, BusyOK, ArmedOK, AaiOK, BlockOK, CommandsObeyed, Obey, Start, Even, TypeOK, Idle
  <2>12. BlockOK'
    BY <2>0, <2>1, <2>2 DEF IInv, BlockOK, ArmedOK, TypeOK
  <2>13. CommandsObeyed'
    BY <2>0, <2>1, <2>2, <2>3, <2>4, <2>5, <2>6, <2>7 DEF IInv, BusyOK, ArmedOK, AaiOK, BlockOK, CommandsObeyed, Obey, Start, Even, TypeOK, Idle
  <2> QED
    BY <2>2, <2>9, <2>10, <2>11, <2>12, <2>13 DEF IInv
<1> QED
  BY <1>1, <1>2, <1>3, <1>4 DEF EraseFlash

LEMMA WriteFlashKeeps ==
  ASSUME IInv, WriteFlash
  PROVE  IInv'
<1> USE DEF Deaf, Busy, NoFile, EraseAt, WriteAt, OddAt, WordsAt, EndAt, LastAt
<1>1. CASE Send("oddArm", "WREN", 0, "oddByte")
  <2>1. /\ TypeOK /\ pc = "oddArm" /\ pc' = "oddByte"
        /\ next' = (IF pc' = "idle" THEN address ELSE next) /\ address' = address + 0
        /\ Command("WREN", Take(buffer, 0))
    BY <1>1 DEF IInv, Send
  <2>0. address \in Nat /\ Len(buffer) \in Nat /\ FlashLen \in Nat
    BY <2>1, CellAssumption, LenProperties DEF TypeOK
  <2>2. /\ TypeOK' /\ Len(buffer') = (IF 0 <= Len(buffer) THEN Len(buffer) - 0 ELSE 0)
        /\ Len(Take(buffer, 0)) = (IF 0 <= Len(buffer) THEN 0 ELSE Len(buffer))
        /\ buffer' = buffer
    BY <1>1, <2>1, SendType
  <2>3. ~Busy
    BY <2>1 DEF IInv, BusyOK, TypeOK
  <2>4. Obeys("WREN") \/ Deaf
    BY <2>1, <2>3 DEF Obeys, IInv, ArmedOK, AaiOK
  <2>5. ~Obeys("WREN") => UNCHANGED <<wel, protect, aai, ebsy, ptr, pend>>
    BY <2>1 DEF Command
  <2>6. Obeys("WREN") => Obey("WREN", Take(buffer, 0))
    BY <2>1 DEF Command
  <2>7. ignored' = ~Obeys("WREN")
    BY <2>1 DEF Command
  <2>8. UNCHANGED pend
    BY <2>1, <2>5, <2>6 DEF Obey, Start
  <2>9. BusyOK'
    BY <2>1, <2>3, <2>8 DEF BusyOK, IInv, TypeOK
  <2>10. ArmedOK'
    BY <2>0, <2>1, <2>2, <2>3, <2>4, <2>5, <2>6, <2>7 DEF IInv, BusyOK, ArmedOK, AaiOK, BlockOK, CommandsObeyed, Obey, Start, Even, TypeOK, Idle
  <2>11. AaiOK'
    BY <2>0, <2>1, <2>2, <2>3, <2>4, <2>5, <2>6, <2>7 DEF IInv, BusyOK, ArmedOK, AaiOK, BlockOK, CommandsObeyed, Obey, Start, Even, TypeOK, Idle
  <2>12. BlockOK'
    BY <2>0, <2>1, <2>2 DEF IInv, BlockOK, ArmedOK, TypeOK
  <2>13. CommandsObeyed'
    BY <2>0, <2>1, <2>2, <2>3, <2>4, <2>5, <2>6, <2>7 DEF IInv, BusyOK, ArmedOK, AaiOK, BlockOK, CommandsObeyed, Obey, Start, Even, TypeOK, Idle
  <2> QED
    BY <2>2, <2>9, <2>10, <2>11, <2>12, <2>13 DEF IInv
<1>2. CASE Send("oddByte", "BYTE", 1, "oddWait")
  <2>1. /\ TypeOK /\ pc = "oddByte" /\ pc' = "oddWait"
        /\ next' = (IF pc' = "idle" THEN address ELSE next) /\ address' = address + 1
        /\ Command("BYTE", Take(buffer, 1))
    BY <1>2 DEF IInv, Send
  <2>0. address \in Nat /\ Len(buffer) \in Nat /\ FlashLen \in Nat
    BY <2>1, CellAssumption, LenProperties DEF TypeOK
  <2>2. /\ TypeOK' /\ Len(buffer') = (IF 1 <= Len(buffer) THEN Len(buffer) - 1 ELSE 0)
        /\ Len(Take(buffer, 1)) = (IF 1 <= Len(buffer) THEN 1 ELSE Len(buffer))
    <3>1. 1 \in Nat /\ "oddWait" \in {"idle", "read", "identify"} \cup EraseAt \cup WriteAt
      OBVIOUS
    <3>2. "oddWait" = "idle" => address <= FlashLen
      OBVIOUS
    <3> QED
      BY <1>2, <2>1, <3>1, <3>2, SendType
  <2>3. ~Busy
    BY <2>1 DEF IInv, BusyOK, TypeOK
  <2>4. Obeys("BYTE") \/ Deaf
    BY <2>1, <2>3 DEF Obeys, IInv, ArmedOK, AaiOK
  <2>5. ~Obeys("BYTE") => UNCHANGED <<wel, protect, aai, ebsy, ptr, pend>>
    BY <2>1 DEF Command
  <2>6. Obeys("BYTE") => Obey("BYTE", Take(buffer, 1))
    BY <2>1 DEF Command
  <2>7. ignored' = ~Obeys("BYTE")
    BY <2>1 DEF Command
  <2>8. /\ Obeys("BYTE")
        /\ pend' = [op |-> "program", at |-> address, bytes |-> Take(buffer, 1)]
    BY <2>1, <2>4, <2>6 DEF Obey, Start
  <2>14. 1 <= Len(buffer)
    BY <2>0, <2>1, <2>6, <2>8 DEF IInv, BlockOK, AaiOK, Even, Obey, TypeOK
  <2>9. BusyOK'
    BY <2>0, <2>1, <2>2, <2>8, <2>14 DEF BusyOK, Obey, TypeOK
  <2>10. ArmedOK'
    BY <2>0, <2>1, <2>2, <2>3, <2>4, <2>5, <2>6, <2>7 DEF IInv, BusyOK, ArmedOK, AaiOK, BlockOK, CommandsObeyed, Obey, Start, Even, TypeOK, Idle
  <2>11. AaiOK'
    BY <2>0, <2>1, <2>2, <2>3, <2>4, <2>5, <2>6, <2>7 DEF IInv, BusyOK, ArmedOK, AaiOK, BlockOK, CommandsObeyed, Obey, Start, Even, TypeOK, Idle
  <2>15. (address + 1) % 2 = 0
    BY <2>0, <2>1 DEF IInv, BlockOK
  <2>12. BlockOK'
    BY <2>0, <2>1, <2>2, <2>15 DEF IInv, BlockOK, ArmedOK, TypeOK
  <2>13. CommandsObeyed'
    BY <2>0, <2>1, <2>2, <2>3, <2>4, <2>5, <2>6, <2>7 DEF IInv, BusyOK, ArmedOK, AaiOK, BlockOK, CommandsObeyed, Obey, Start, Even, TypeOK, Idle
  <2> QED
    BY <2>2, <2>9, <2>10, <2>11, <2>12, <2>13 DEF IInv
<1>3. CASE Send("enableBusy", "EBSY", 0, "wordsArm")
  <2>1. /\ TypeOK /\ pc = "enableBusy" /\ pc' = "wordsArm"
        /\ next' = (IF pc' = "idle" THEN address ELSE next) /\ address' = address + 0
        /\ Command("EBSY", Take(buffer, 0))
    BY <1>3 DEF IInv, Send
  <2>0. address \in Nat /\ Len(buffer) \in Nat /\ FlashLen \in Nat
    BY <2>1, CellAssumption, LenProperties DEF TypeOK
  <2>2. /\ TypeOK' /\ Len(buffer') = (IF 0 <= Len(buffer) THEN Len(buffer) - 0 ELSE 0)
        /\ Len(Take(buffer, 0)) = (IF 0 <= Len(buffer) THEN 0 ELSE Len(buffer))
        /\ buffer' = buffer
    BY <1>3, <2>1, SendType
  <2>3. ~Busy
    BY <2>1 DEF IInv, BusyOK, TypeOK
  <2>4. Obeys("EBSY") \/ Deaf
    BY <2>1, <2>3 DEF Obeys, IInv, ArmedOK, AaiOK
  <2>5. ~Obeys("EBSY") => UNCHANGED <<wel, protect, aai, ebsy, ptr, pend>>
    BY <2>1 DEF Command
  <2>6. Obeys("EBSY") => Obey("EBSY", Take(buffer, 0))
    BY <2>1 DEF Command
  <2>7. ignored' = ~Obeys("EBSY")
    BY <2>1 DEF Command
  <2>8. UNCHANGED pend
    BY <2>1, <2>5, <2>6 DEF Obey, Start
  <2>9. BusyOK'
    BY <2>1, <2>3, <2>8 DEF BusyOK, IInv, TypeOK
  <2>10. ArmedOK'
    BY <2>0, <2>1, <2>2, <2>3, <2>4, <2>5, <2>6, <2>7 DEF IInv, BusyOK, ArmedOK, AaiOK, BlockOK, CommandsObeyed, Obey, Start, Even, TypeOK, Idle
  <2>11. AaiOK'
    BY <2>0, <2>1, <2>2, <2>3, <2>4, <2>5, <2>6, <2>7 DEF IInv, BusyOK, ArmedOK, AaiOK, BlockOK, CommandsObeyed, Obey, Start, Even, TypeOK, Idle
  <2>12. BlockOK'
    BY <2>0, <2>1, <2>2 DEF IInv, BlockOK, ArmedOK, TypeOK
  <2>13. CommandsObeyed'
    BY <2>0, <2>1, <2>2, <2>3, <2>4, <2>5, <2>6, <2>7 DEF IInv, BusyOK, ArmedOK, AaiOK, BlockOK, CommandsObeyed, Obey, Start, Even, TypeOK, Idle
  <2> QED
    BY <2>2, <2>9, <2>10, <2>11, <2>12, <2>13 DEF IInv
<1>4. CASE Send("wordsArm", "WREN", 0, "firstWord")
  <2>1. /\ TypeOK /\ pc = "wordsArm" /\ pc' = "firstWord"
        /\ next' = (IF pc' = "idle" THEN address ELSE next) /\ address' = address + 0
        /\ Command("WREN", Take(buffer, 0))
    BY <1>4 DEF IInv, Send
  <2>0. address \in Nat /\ Len(buffer) \in Nat /\ FlashLen \in Nat
    BY <2>1, CellAssumption, LenProperties DEF TypeOK
  <2>2. /\ TypeOK' /\ Len(buffer') = (IF 0 <= Len(buffer) THEN Len(buffer) - 0 ELSE 0)
        /\ Len(Take(buffer, 0)) = (IF 0 <= Len(buffer) THEN 0 ELSE Len(buffer))
        /\ buffer' = buffer
    BY <1>4, <2>1, SendType
  <2>3. ~Busy
    BY <2>1 DEF IInv, BusyOK, TypeOK
  <2>4. Obeys("WREN") \/ Deaf
    BY <2>1, <2>3 DEF Obeys, IInv, ArmedOK, AaiOK
  <2>5. ~Obeys("WREN") => UNCHANGED <<wel, protect, aai, ebsy, ptr, pend>>
    BY <2>1 DEF Command
  <2>6. Obeys("WREN") => Obey("WREN", Take(buffer, 0))
    BY <2>1 DEF Command
  <2>7. ignored' = ~Obeys("WREN")
    BY <2>1 DEF Command
  <2>8. UNCHANGED pend
    BY <2>1, <2>5, <2>6 DEF Obey, Start
  <2>9. BusyOK'
    BY <2>1, <2>3, <2>8 DEF BusyOK, IInv, TypeOK
  <2>10. ArmedOK'
    BY <2>0, <2>1, <2>2, <2>3, <2>4, <2>5, <2>6, <2>7 DEF IInv, BusyOK, ArmedOK, AaiOK, BlockOK, CommandsObeyed, Obey, Start, Even, TypeOK, Idle
  <2>11. AaiOK'
    BY <2>0, <2>1, <2>2, <2>3, <2>4, <2>5, <2>6, <2>7 DEF IInv, BusyOK, ArmedOK, AaiOK, BlockOK, CommandsObeyed, Obey, Start, Even, TypeOK, Idle
  <2>12. BlockOK'
    BY <2>0, <2>1, <2>2 DEF IInv, BlockOK, ArmedOK, TypeOK
  <2>13. CommandsObeyed'
    BY <2>0, <2>1, <2>2, <2>3, <2>4, <2>5, <2>6, <2>7 DEF IInv, BusyOK, ArmedOK, AaiOK, BlockOK, CommandsObeyed, Obey, Start, Even, TypeOK, Idle
  <2> QED
    BY <2>2, <2>9, <2>10, <2>11, <2>12, <2>13 DEF IInv
<1>5. CASE Send("firstWord", "WORD", 2, "wordWait")
  <2>1. /\ TypeOK /\ pc = "firstWord" /\ pc' = "wordWait"
        /\ next' = (IF pc' = "idle" THEN address ELSE next) /\ address' = address + 2
        /\ Command("WORD", Take(buffer, 2))
    BY <1>5 DEF IInv, Send
  <2>0. address \in Nat /\ Len(buffer) \in Nat /\ FlashLen \in Nat
    BY <2>1, CellAssumption, LenProperties DEF TypeOK
  <2>2. /\ TypeOK' /\ Len(buffer') = (IF 2 <= Len(buffer) THEN Len(buffer) - 2 ELSE 0)
        /\ Len(Take(buffer, 2)) = (IF 2 <= Len(buffer) THEN 2 ELSE Len(buffer))
    <3>1. 2 \in Nat /\ "wordWait" \in {"idle", "read", "identify"} \cup EraseAt \cup WriteAt
      OBVIOUS
    <3>2. "wordWait" = "idle" => address <= FlashLen
      OBVIOUS
    <3> QED
      BY <1>5, <2>1, <3>1, <3>2, SendType
  <2>3. ~Busy
    BY <2>1 DEF IInv, BusyOK, TypeOK
  <2>4. Obeys("WORD") \/ Deaf
    BY <2>1, <2>3 DEF Obeys, IInv, ArmedOK, AaiOK
  <2>5. ~Obeys("WORD") => UNCHANGED <<wel, protect, aai, ebsy, ptr, pend>>
    BY <2>1 DEF Command
  <2>6. Obeys("WORD") => Obey("WORD", Take(buffer, 2))
    BY <2>1 DEF Command
  <2>7. ignored' = ~Obeys("WORD")
    BY <2>1 DEF Command
  <2>8. /\ Obeys("WORD")
        /\ pend' = [op |-> "program", at |-> Even(address), bytes |-> Take(buffer, 2)]
    BY <2>1, <2>4, <2>6 DEF Obey, Start
  <2>14. Even(address) = address /\ 2 <= Len(buffer) /\ aai'
    BY <2>0, <2>1, <2>6, <2>8 DEF IInv, BlockOK, AaiOK, Even, Obey, TypeOK
  <2>9. BusyOK'
    BY <2>0, <2>1, <2>2, <2>8, <2>14 DEF BusyOK, Obey, TypeOK
  <2>10. ArmedOK'
    BY <2>0, <2>1, <2>2, <2>3, <2>4, <2>5, <2>6, <2>7 DEF IInv, BusyOK, ArmedOK, AaiOK, BlockOK, CommandsObeyed, Obey, Start, Even, TypeOK, Idle
  <2>11. AaiOK'
    BY <2>0, <2>1, <2>2, <2>3, <2>4, <2>5, <2>6, <2>7 DEF IInv, BusyOK, ArmedOK, AaiOK, BlockOK, CommandsObeyed, Obey, Start, Even, TypeOK, Idle
  <2>12. BlockOK'
    BY <2>0, <2>1, <2>2 DEF IInv, BlockOK, ArmedOK, TypeOK
  <2>13. CommandsObeyed'
    BY <2>0, <2>1, <2>2, <2>3, <2>4, <2>5, <2>6, <2>7 DEF IInv, BusyOK, ArmedOK, AaiOK, BlockOK, CommandsObeyed, Obey, Start, Even, TypeOK, Idle
  <2> QED
    BY <2>2, <2>9, <2>10, <2>11, <2>12, <2>13 DEF IInv
<1>6. CASE Send("word", "MORE", 2, "wordWait")
  <2>1. /\ TypeOK /\ pc = "word" /\ pc' = "wordWait"
        /\ next' = (IF pc' = "idle" THEN address ELSE next) /\ address' = address + 2
        /\ Command("MORE", Take(buffer, 2))
    BY <1>6 DEF IInv, Send
  <2>0. address \in Nat /\ Len(buffer) \in Nat /\ FlashLen \in Nat
    BY <2>1, CellAssumption, LenProperties DEF TypeOK
  <2>2. /\ TypeOK' /\ Len(buffer') = (IF 2 <= Len(buffer) THEN Len(buffer) - 2 ELSE 0)
        /\ Len(Take(buffer, 2)) = (IF 2 <= Len(buffer) THEN 2 ELSE Len(buffer))
    <3>1. 2 \in Nat /\ "wordWait" \in {"idle", "read", "identify"} \cup EraseAt \cup WriteAt
      OBVIOUS
    <3>2. "wordWait" = "idle" => address <= FlashLen
      OBVIOUS
    <3> QED
      BY <1>6, <2>1, <3>1, <3>2, SendType
  <2>3. ~Busy
    BY <2>1 DEF IInv, BusyOK, TypeOK
  <2>4. Obeys("MORE") \/ Deaf
    BY <2>1, <2>3 DEF Obeys, IInv, ArmedOK, AaiOK
  <2>5. ~Obeys("MORE") => UNCHANGED <<wel, protect, aai, ebsy, ptr, pend>>
    BY <2>1 DEF Command
  <2>6. Obeys("MORE") => Obey("MORE", Take(buffer, 2))
    BY <2>1 DEF Command
  <2>7. ignored' = ~Obeys("MORE")
    BY <2>1 DEF Command
  <2>8. /\ Obeys("MORE")
        /\ pend' = [op |-> "program", at |-> ptr, bytes |-> Take(buffer, 2)]
    BY <2>1, <2>4, <2>6 DEF Obey, Start
  <2>14. ptr = address /\ 2 <= Len(buffer) /\ aai'
    BY <2>0, <2>1, <2>6, <2>8 DEF IInv, BlockOK, AaiOK, Even, Obey, TypeOK
  <2>9. BusyOK'
    BY <2>0, <2>1, <2>2, <2>8, <2>14 DEF BusyOK, Obey, TypeOK
  <2>10. ArmedOK'
    BY <2>0, <2>1, <2>2, <2>3, <2>4, <2>5, <2>6, <2>7 DEF IInv, BusyOK, ArmedOK, AaiOK, BlockOK, CommandsObeyed, Obey, Start, Even, TypeOK, Idle
  <2>11. AaiOK'
    BY <2>0, <2>1, <2>2, <2>3, <2>4, <2>5, <2>6, <2>7 DEF IInv, BusyOK, ArmedOK, AaiOK, BlockOK, CommandsObeyed, Obey, Start, Even, TypeOK, Idle
  <2>12. BlockOK'
    BY <2>0, <2>1, <2>2 DEF IInv, BlockOK, ArmedOK, TypeOK
  <2>13. CommandsObeyed'
    BY <2>0, <2>1, <2>2, <2>3, <2>4, <2>5, <2>6, <2>7 DEF IInv, BusyOK, ArmedOK, AaiOK, BlockOK, CommandsObeyed, Obey, Start, Even, TypeOK, Idle
  <2> QED
    BY <2>2, <2>9, <2>10, <2>11, <2>12, <2>13 DEF IInv
<1>7. CASE Send("disableWrite", "WRDI", 0, "disableBusy")
  <2>1. /\ TypeOK /\ pc = "disableWrite" /\ pc' = "disableBusy"
        /\ next' = (IF pc' = "idle" THEN address ELSE next) /\ address' = address + 0
        /\ Command("WRDI", Take(buffer, 0))
    BY <1>7 DEF IInv, Send
  <2>0. address \in Nat /\ Len(buffer) \in Nat /\ FlashLen \in Nat
    BY <2>1, CellAssumption, LenProperties DEF TypeOK
  <2>2. /\ TypeOK' /\ Len(buffer') = (IF 0 <= Len(buffer) THEN Len(buffer) - 0 ELSE 0)
        /\ Len(Take(buffer, 0)) = (IF 0 <= Len(buffer) THEN 0 ELSE Len(buffer))
        /\ buffer' = buffer
    BY <1>7, <2>1, SendType
  <2>3. ~Busy
    BY <2>1 DEF IInv, BusyOK, TypeOK
  <2>4. Obeys("WRDI") \/ Deaf
    BY <2>1, <2>3 DEF Obeys, IInv, ArmedOK, AaiOK
  <2>5. ~Obeys("WRDI") => UNCHANGED <<wel, protect, aai, ebsy, ptr, pend>>
    BY <2>1 DEF Command
  <2>6. Obeys("WRDI") => Obey("WRDI", Take(buffer, 0))
    BY <2>1 DEF Command
  <2>7. ignored' = ~Obeys("WRDI")
    BY <2>1 DEF Command
  <2>8. UNCHANGED pend
    BY <2>1, <2>5, <2>6 DEF Obey, Start
  <2>9. BusyOK'
    BY <2>1, <2>3, <2>8 DEF BusyOK, IInv, TypeOK
  <2>10. ArmedOK'
    BY <2>0, <2>1, <2>2, <2>3, <2>4, <2>5, <2>6, <2>7 DEF IInv, BusyOK, ArmedOK, AaiOK, BlockOK, CommandsObeyed, Obey, Start, Even, TypeOK, Idle
  <2>11. AaiOK'
    BY <2>0, <2>1, <2>2, <2>3, <2>4, <2>5, <2>6, <2>7 DEF IInv, BusyOK, ArmedOK, AaiOK, BlockOK, CommandsObeyed, Obey, Start, Even, TypeOK, Idle
  <2>12. BlockOK'
    BY <2>0, <2>1, <2>2 DEF IInv, BlockOK, ArmedOK, TypeOK
  <2>13. CommandsObeyed'
    BY <2>0, <2>1, <2>2, <2>3, <2>4, <2>5, <2>6, <2>7 DEF IInv, BusyOK, ArmedOK, AaiOK, BlockOK, CommandsObeyed, Obey, Start, Even, TypeOK, Idle
  <2> QED
    BY <2>2, <2>9, <2>10, <2>11, <2>12, <2>13 DEF IInv
<1>8. CASE Send("disableBusy", "DBSY", 0, NoWords(Len(buffer)))
  <2>1. /\ TypeOK /\ pc = "disableBusy" /\ pc' = NoWords(Len(buffer))
        /\ next' = (IF pc' = "idle" THEN address ELSE next) /\ address' = address + 0
        /\ Command("DBSY", Take(buffer, 0))
    BY <1>8 DEF IInv, Send
  <2>0. address \in Nat /\ Len(buffer) \in Nat /\ FlashLen \in Nat
    BY <2>1, CellAssumption, LenProperties DEF TypeOK
  <2>2. /\ TypeOK' /\ Len(buffer') = (IF 0 <= Len(buffer) THEN Len(buffer) - 0 ELSE 0)
        /\ Len(Take(buffer, 0)) = (IF 0 <= Len(buffer) THEN 0 ELSE Len(buffer))
        /\ buffer' = buffer
    <3>1. NoWords(Len(buffer)) \in {"idle", "lastArm"} /\ address <= FlashLen
      BY <2>0, <2>1 DEF NoWords, IInv, BlockOK, TypeOK
    <3> QED
      BY <1>8, <2>1, <3>1, SendType
  <2>3. ~Busy
    BY <2>1 DEF IInv, BusyOK, TypeOK
  <2>4. Obeys("DBSY") \/ Deaf
    BY <2>1, <2>3 DEF Obeys, IInv, ArmedOK, AaiOK
  <2>5. ~Obeys("DBSY") => UNCHANGED <<wel, protect, aai, ebsy, ptr, pend>>
    BY <2>1 DEF Command
  <2>6. Obeys("DBSY") => Obey("DBSY", Take(buffer, 0))
    BY <2>1 DEF Command
  <2>7. ignored' = ~Obeys("DBSY")
    BY <2>1 DEF Command
  <2>8. UNCHANGED pend
    BY <2>1, <2>5, <2>6 DEF Obey, Start
  <2>9. BusyOK'
    BY <2>1, <2>3, <2>8 DEF BusyOK, IInv, TypeOK
  <2>10. ArmedOK'
    BY <2>0, <2>1, <2>2, <2>3, <2>4, <2>5, <2>6, <2>7 DEF IInv, BusyOK, ArmedOK, AaiOK, BlockOK, CommandsObeyed, Obey, Start, Even, TypeOK, Idle, NoWords
  <2>11. AaiOK'
    BY <2>0, <2>1, <2>2, <2>3, <2>4, <2>5, <2>6, <2>7 DEF IInv, BusyOK, ArmedOK, AaiOK, BlockOK, CommandsObeyed, Obey, Start, Even, TypeOK, Idle, NoWords
  <2>12. BlockOK'
    BY <2>0, <2>1, <2>2 DEF IInv, BlockOK, ArmedOK, TypeOK, NoWords
  <2>13. CommandsObeyed'
    BY <2>0, <2>1, <2>2, <2>3, <2>4, <2>5, <2>6, <2>7 DEF IInv, BusyOK, ArmedOK, AaiOK, BlockOK, CommandsObeyed, Obey, Start, Even, TypeOK, Idle, NoWords
  <2> QED
    BY <2>2, <2>9, <2>10, <2>11, <2>12, <2>13 DEF IInv
<1>9. CASE Send("lastArm", "WREN", 0, "lastByte")
  <2>1. /\ TypeOK /\ pc = "lastArm" /\ pc' = "lastByte"
        /\ next' = (IF pc' = "idle" THEN address ELSE next) /\ address' = address + 0
        /\ Command("WREN", Take(buffer, 0))
    BY <1>9 DEF IInv, Send
  <2>0. address \in Nat /\ Len(buffer) \in Nat /\ FlashLen \in Nat
    BY <2>1, CellAssumption, LenProperties DEF TypeOK
  <2>2. /\ TypeOK' /\ Len(buffer') = (IF 0 <= Len(buffer) THEN Len(buffer) - 0 ELSE 0)
        /\ Len(Take(buffer, 0)) = (IF 0 <= Len(buffer) THEN 0 ELSE Len(buffer))
        /\ buffer' = buffer
    BY <1>9, <2>1, SendType
  <2>3. ~Busy
    BY <2>1 DEF IInv, BusyOK, TypeOK
  <2>4. Obeys("WREN") \/ Deaf
    BY <2>1, <2>3 DEF Obeys, IInv, ArmedOK, AaiOK
  <2>5. ~Obeys("WREN") => UNCHANGED <<wel, protect, aai, ebsy, ptr, pend>>
    BY <2>1 DEF Command
  <2>6. Obeys("WREN") => Obey("WREN", Take(buffer, 0))
    BY <2>1 DEF Command
  <2>7. ignored' = ~Obeys("WREN")
    BY <2>1 DEF Command
  <2>8. UNCHANGED pend
    BY <2>1, <2>5, <2>6 DEF Obey, Start
  <2>9. BusyOK'
    BY <2>1, <2>3, <2>8 DEF BusyOK, IInv, TypeOK
  <2>10. ArmedOK'
    BY <2>0, <2>1, <2>2, <2>3, <2>4, <2>5, <2>6, <2>7 DEF IInv, BusyOK, ArmedOK, AaiOK, BlockOK, CommandsObeyed, Obey, Start, Even, TypeOK, Idle
  <2>11. AaiOK'
    BY <2>0, <2>1, <2>2, <2>3, <2>4, <2>5, <2>6, <2>7 DEF IInv, BusyOK, ArmedOK, AaiOK, BlockOK, CommandsObeyed, Obey, Start, Even, TypeOK, Idle
  <2>12. BlockOK'
    BY <2>0, <2>1, <2>2 DEF IInv, BlockOK, ArmedOK, TypeOK
  <2>13. CommandsObeyed'
    BY <2>0, <2>1, <2>2, <2>3, <2>4, <2>5, <2>6, <2>7 DEF IInv, BusyOK, ArmedOK, AaiOK, BlockOK, CommandsObeyed, Obey, Start, Even, TypeOK, Idle
  <2> QED
    BY <2>2, <2>9, <2>10, <2>11, <2>12, <2>13 DEF IInv
<1>10. CASE Send("lastByte", "BYTE", 1, "lastWait")
  <2>1. /\ TypeOK /\ pc = "lastByte" /\ pc' = "lastWait"
        /\ next' = (IF pc' = "idle" THEN address ELSE next) /\ address' = address + 1
        /\ Command("BYTE", Take(buffer, 1))
    BY <1>10 DEF IInv, Send
  <2>0. address \in Nat /\ Len(buffer) \in Nat /\ FlashLen \in Nat
    BY <2>1, CellAssumption, LenProperties DEF TypeOK
  <2>2. /\ TypeOK' /\ Len(buffer') = (IF 1 <= Len(buffer) THEN Len(buffer) - 1 ELSE 0)
        /\ Len(Take(buffer, 1)) = (IF 1 <= Len(buffer) THEN 1 ELSE Len(buffer))
    <3>1. 1 \in Nat /\ "lastWait" \in {"idle", "read", "identify"} \cup EraseAt \cup WriteAt
      OBVIOUS
    <3>2. "lastWait" = "idle" => address <= FlashLen
      OBVIOUS
    <3> QED
      BY <1>10, <2>1, <3>1, <3>2, SendType
  <2>3. ~Busy
    BY <2>1 DEF IInv, BusyOK, TypeOK
  <2>4. Obeys("BYTE") \/ Deaf
    BY <2>1, <2>3 DEF Obeys, IInv, ArmedOK, AaiOK
  <2>5. ~Obeys("BYTE") => UNCHANGED <<wel, protect, aai, ebsy, ptr, pend>>
    BY <2>1 DEF Command
  <2>6. Obeys("BYTE") => Obey("BYTE", Take(buffer, 1))
    BY <2>1 DEF Command
  <2>7. ignored' = ~Obeys("BYTE")
    BY <2>1 DEF Command
  <2>8. /\ Obeys("BYTE")
        /\ pend' = [op |-> "program", at |-> address, bytes |-> Take(buffer, 1)]
    BY <2>1, <2>4, <2>6 DEF Obey, Start
  <2>14. 1 <= Len(buffer)
    BY <2>0, <2>1, <2>6, <2>8 DEF IInv, BlockOK, AaiOK, Even, Obey, TypeOK
  <2>9. BusyOK'
    BY <2>0, <2>1, <2>2, <2>8, <2>14 DEF BusyOK, Obey, TypeOK
  <2>10. ArmedOK'
    BY <2>0, <2>1, <2>2, <2>3, <2>4, <2>5, <2>6, <2>7 DEF IInv, BusyOK, ArmedOK, AaiOK, BlockOK, CommandsObeyed, Obey, Start, Even, TypeOK, Idle
  <2>11. AaiOK'
    BY <2>0, <2>1, <2>2, <2>3, <2>4, <2>5, <2>6, <2>7 DEF IInv, BusyOK, ArmedOK, AaiOK, BlockOK, CommandsObeyed, Obey, Start, Even, TypeOK, Idle
  <2>12. BlockOK'
    BY <2>0, <2>1, <2>2 DEF IInv, BlockOK, ArmedOK, TypeOK
  <2>13. CommandsObeyed'
    BY <2>0, <2>1, <2>2, <2>3, <2>4, <2>5, <2>6, <2>7 DEF IInv, BusyOK, ArmedOK, AaiOK, BlockOK, CommandsObeyed, Obey, Start, Even, TypeOK, Idle
  <2> QED
    BY <2>2, <2>9, <2>10, <2>11, <2>12, <2>13 DEF IInv
<1> QED
  BY <1>1, <1>2, <1>3, <1>4, <1>5, <1>6, <1>7, <1>8, <1>9, <1>10 DEF WriteFlash

LEMMA WaitsKeep ==
  ASSUME IInv, WaitWhileBusy \/ WaitWhileHwBusy
  PROVE  IInv'
<1> USE DEF Deaf, Busy, NoFile, EraseAt, WriteAt, OddAt, WordsAt, EndAt, LastAt
<1>2. /\ address \in Nat /\ Len(buffer) \in Nat /\ FlashLen \in Nat /\ TypeOK
      /\ pc \in WriteAt => address <= FlashLen
  <2>1. address \in Nat /\ Len(buffer) \in Nat /\ FlashLen \in Nat /\ TypeOK
    BY CellAssumption, LenProperties DEF IInv, TypeOK
  <2> QED
    BY <2>1 DEF IInv, BlockOK
<1>3. /\ UNCHANGED chip /\ UNCHANGED <<address, size, buffer, out, left>>
      /\ next' = IF pc' = "idle" THEN (IF pc = "erasing" THEN 0 ELSE address) ELSE next
  BY DEF WaitWhileBusy, WaitWhileHwBusy, Leave
<1>1. \/ pc \in {"erasing", "lastWait"} /\ pc' = "idle" /\ ~StatusBit0
      \/ /\ pc = "oddWait" /\ ~StatusBit0
         /\ \/ pc' = "enableBusy" /\ Len(buffer) >= 2
            \/ pc' = "lastArm" /\ Len(buffer) = 1
            \/ pc' = "idle" /\ Len(buffer) = 0
      \/ /\ pc = "wordWait" /\ ~MisoLow
         /\ \/ pc' = "word" /\ Len(buffer) >= 2
            \/ pc' = "disableWrite" /\ Len(buffer) <= 1
  <2>1. CASE WaitWhileHwBusy
    BY <1>2, <2>1 DEF WaitWhileHwBusy, Leave, Pair
  <2>2. CASE WaitWhileBusy /\ pc # "oddWait"
    BY <2>2 DEF WaitWhileBusy, Leave
  <2>3. CASE WaitWhileBusy /\ pc = "oddWait"
    <3>1. pc' = Aligned(Len(buffer)) /\ ~StatusBit0
      BY <2>3 DEF WaitWhileBusy, Leave
    <3> QED
      BY <1>2, <2>3, <3>1 DEF Aligned, NoWords, Pair
  <2> QED
    BY <2>1, <2>2, <2>3
<1>4. ~Busy
  BY <1>1 DEF StatusBit0, MisoLow, ShowsReady, IInv, BusyOK, AaiOK, TypeOK
<1>5. pc = "erasing" => ~aai
  BY <1>1, <1>4 DEF StatusBit0, ShowsReady, IInv, AaiOK
<1>6. TypeOK'
  BY <1>1, <1>2, <1>3 DEF TypeOK, chip
<1>7. BusyOK'
  BY <1>1, <1>3, <1>4 DEF BusyOK, IInv, chip
<1>8. ArmedOK'
  BY <1>1, <1>2, <1>3, <1>4, <1>5 DEF ArmedOK, AaiOK, IInv, chip
<1>9. AaiOK'
  BY <1>1, <1>3, <1>5 DEF AaiOK, IInv, chip
<1>10. Len(buffer) = 0 => buffer = <<>>
  BY <1>2, EmptySeq DEF TypeOK
<1>11. BlockOK'
  <2>1. BlockOK /\ address' = address /\ buffer' = buffer
    BY <1>3 DEF IInv
  <2>2. CASE pc' = "idle"
    BY <1>1, <1>10, <2>1, <2>2 DEF BlockOK
  <2>3. CASE pc' # "idle"
    <3>1. address + Len(buffer) <= FlashLen
      BY <1>1, <2>1, <2>3 DEF BlockOK
    <3>2. CASE pc = "oddWait"
      <4>1. address' % 2 = 0
        BY <2>1, <3>2 DEF BlockOK
      <4>2. \/ pc' = "enableBusy" /\ Len(buffer') >= 2
            \/ pc' = "lastArm" /\ Len(buffer') = 1
        BY <1>1, <2>1, <2>3, <3>2
      <4>3. address' + Len(buffer') <= FlashLen
        BY <2>1, <3>1
      <4> QED
        <5>1. /\ pc' \in {"enableBusy", "lastArm"}
              /\ pc' = "enableBusy" => Len(buffer') >= 2
              /\ pc' = "lastArm" => Len(buffer') >= 1 /\ Len(buffer') <= 1
          <6>1. Len(buffer') \in Nat
            BY <1>2, <2>1
          <6>2. CASE pc' = "enableBusy" /\ Len(buffer') >= 2
            BY <6>2
          <6>3. CASE pc' = "lastArm" /\ Len(buffer') = 1
            BY <6>3
          <6> QED
            BY <4>2, <6>2, <6>3
        <5>2. CASE pc' = "enableBusy"
          BY <4>1, <4>3, <5>1, <5>2 DEF BlockOK
        <5>3. CASE pc' = "lastArm"
          BY <4>3, <5>1, <5>3 DEF BlockOK
        <5> QED
          BY <5>1, <5>2, <5>3
    <3>3. CASE pc = "wordWait"
      BY <1>1, <1>2, <2>1, <2>3, <3>1, <3>3 DEF BlockOK
    <3> QED
      BY <1>1, <2>3, <3>2, <3>3
  <2> QED
    BY <2>2, <2>3
<1>12. CommandsObeyed'
  BY <1>1, <1>3, <1>5 DEF CommandsObeyed, AaiOK, IInv, chip
<1> QED
  BY <1>6, <1>7, <1>8, <1>9, <1>11, <1>12 DEF IInv

LEMMA InquireKeeps ==
  ASSUME IInv, ReadFlash \/ GetFlashChipID
  PROVE  IInv'
<1> USE DEF Deaf, Busy, NoFile, EraseAt, WriteAt, OddAt, WordsAt, EndAt, LastAt
<1>1. PICK op \in {"READ", "ID"}, n \in Nat :
        /\ pc \in {"read", "identify"} /\ pc' = "idle" /\ Command(op, <<>>)
        /\ out' = Clocked(op, n) /\ UNCHANGED <<address, size, buffer, next, left>>
  BY DEF ReadFlash, GetFlashChipID, Inquire, IInv, TypeOK
<1>2. TypeOK /\ <<>> \in Seq(Byte)
  BY DEF IInv
<1>3. /\ wel' \in BOOLEAN /\ protect' \in BOOLEAN
      /\ aai' \in BOOLEAN /\ ebsy' \in BOOLEAN /\ ptr' \in Nat
      /\ pend' \in [op : {"none", "program", "erase"}, at : Nat, bytes : Seq(Byte)]
      /\ ignored' \in BOOLEAN /\ cell' = cell
  BY <1>1, <1>2, CommandType
<1>4. out' \in Seq(Byte)
  <2>1. \A i \in 1 .. n : (address + i - 1) % FlashLen \in Address
    <3>1. FlashLen \in Nat \ {0} /\ address \in Nat
      BY <1>2, CellAssumption DEF TypeOK
    <3>2. \A x \in Nat : x % FlashLen \in 0 .. FlashLen - 1
      BY <3>1
    <3>3. \A i \in 1 .. n : address + i - 1 \in Nat
      BY <3>1
    <3> QED
      BY <3>2, <3>3 DEF Address
  <2>2. \A i \in 1 .. n : Clocked(op, n)[i] \in Byte
    BY <1>2, <2>1, CellAssumption DEF Clocked, TypeOK
  <2>3. Clocked(op, n) = [i \in 1 .. n |-> Clocked(op, n)[i]]
    BY DEF Clocked
  <2> QED
    BY <1>1, <2>2, <2>3
<1>5. ~Obeys(op) => UNCHANGED <<wel, protect, aai, ebsy, ptr, pend>>
  BY <1>1 DEF Command
<1>6. Obeys(op) => Obey(op, <<>>)
  BY <1>1 DEF Command
<1>7. UNCHANGED <<wel, protect, aai, ebsy, pend>> /\ ignored' = ~Obeys(op)
  <2>1. ignored' = ~Obeys(op)
    BY <1>1 DEF Command
  <2>2. CASE Obeys(op)
    <3>1. UNCHANGED <<wel, aai, ebsy>> /\ UNCHANGED pend
      BY <1>6, <2>2 DEF Obey
    <3>2. UNCHANGED protect
      BY <1>2, <1>6, <2>2, Zenon DEF Obey, TypeOK
    <3> QED
      BY <2>1, <3>1, <3>2
  <2> QED
    BY <1>5, <2>1, <2>2
<1>8. ~Busy
  BY <1>1 DEF IInv, BusyOK, TypeOK
<1>9. TypeOK'
  BY <1>1, <1>3, <1>4, <1>2 DEF TypeOK
<1>10. BusyOK' /\ ArmedOK' /\ AaiOK' /\ BlockOK'
  BY <1>1, <1>7, <1>8 DEF BusyOK, ArmedOK, AaiOK, BlockOK, IInv
<1>11. CommandsObeyed'
  BY <1>1, <1>7, <1>8 DEF CommandsObeyed, Obeys
<1> QED
  BY <1>9, <1>10, <1>11 DEF IInv

LEMMA CallsKeep ==
  ASSUME IInv, Caller
  PROVE  IInv'
<1> USE DEF Deaf, Busy, NoFile, EraseAt, WriteAt, OddAt, WordsAt, EndAt, LastAt
<1>1. /\ TypeOK /\ FlashLen \in Nat \ {0} /\ <<>> \in Seq(Byte) /\ pc = "idle"
      /\ UNCHANGED chip /\ UNCHANGED left /\ out' = <<>> /\ ~Busy
  BY CellAssumption DEF Caller, CallIdentify, CallRead, CallErase, CallWrite, Call,
     IInv, BusyOK, TypeOK
<1>2. CASE CallIdentify \/ CallRead
  <2>1. /\ pc' \in {"identify", "read"} /\ address' \in Nat /\ size' \in Nat
        /\ buffer' = <<>> /\ next' = next
    BY <1>1, <1>2, DriverAssumption DEF CallIdentify, CallRead, Call, Address, TypeOK
  <2>2. TypeOK'
    BY <1>1, <2>1 DEF TypeOK, chip
  <2> QED
    BY <1>1, <2>1, <2>2 DEF IInv, BusyOK, ArmedOK, AaiOK, BlockOK, CommandsObeyed, chip, TypeOK
<1>3. CASE CallErase
  <2>1. /\ pc' = "unlock" /\ address' \in Nat /\ size' \in Nat
        /\ buffer' = <<>> /\ next' = -1
    BY <1>1, <1>3 DEF CallErase, Call, TypeOK
  <2>2. TypeOK'
    BY <1>1, <2>1 DEF TypeOK, chip
  <2> QED
    BY <1>1, <2>1, <2>2 DEF IInv, BusyOK, ArmedOK, AaiOK, BlockOK, CommandsObeyed, chip, TypeOK
<1>4. CASE CallWrite
  <2>1. PICK n \in 1 .. MaxLen : \E b \in [1 .. n -> Data] :
          next + n <= FlashLen /\ Call(FirstStep(next, n), next, size, b) /\ next' = next
    BY <1>4 DEF CallWrite
  <2>2. PICK b \in [1 .. n -> Data] :
          next + n <= FlashLen /\ Call(FirstStep(next, n), next, size, b) /\ next' = next
    BY <2>1
  <2>3. b \in Seq(Byte) /\ Len(b) = n /\ n \in Nat /\ n > 0
    <3>1. n \in Nat /\ n > 0 /\ \A i \in 1 .. n : b[i] \in Byte
      BY DriverAssumption
    <3> QED
      BY <3>1, IsASeq
  <2>4. next \in Nat /\ next # -1 /\ next <= FlashLen
    BY <1>1, <1>4 DEF CallWrite, TypeOK
  <2>5. /\ address' = next /\ size' = size /\ buffer' = b /\ next' = next
        /\ pc' = FirstStep(next, n)
    BY <2>2 DEF Call
  <2>6. next % 2 \in {0, 1}
    BY <2>4
  <2>7. \/ next % 2 = 1 /\ pc' = "oddArm"
        \/ next % 2 = 0 /\ n >= 2 /\ pc' = "enableBusy"
        \/ n = 1 /\ pc' = "lastArm"
    BY <2>3, <2>5, <2>6 DEF FirstStep, Aligned, NoWords, Pair
  <2>8. TypeOK'
    BY <1>1, <2>3, <2>4, <2>5, <2>7 DEF TypeOK, chip
  <2>9. BlockOK'
    BY <1>1, <2>2, <2>3, <2>4, <2>5, <2>7 DEF BlockOK
  <2>10. ~aai /\ ~protect
    BY <1>1, <2>4 DEF IInv, ArmedOK
  <2>11. BusyOK' /\ ArmedOK' /\ AaiOK' /\ CommandsObeyed'
    BY <1>1, <2>4, <2>5, <2>7, <2>10
    DEF IInv, BusyOK, ArmedOK, AaiOK, CommandsObeyed, chip, TypeOK
  <2> QED
    BY <2>8, <2>9, <2>11 DEF IInv
<1> QED
  BY <1>2, <1>3, <1>4 DEF Caller

LEMMA ProgrammedType ==
  ASSUME NEW c \in [Address -> Byte], NEW a \in Nat, NEW b \in Seq(Byte)
  PROVE  Programmed(c, a, b) \in [Address -> Byte]
<1>1. \A x \in Address : x - a + 1 \in 1 .. Len(b) => b[x - a + 1] \in Byte
  BY ElementOfSeq
<1> QED
  BY <1>1, CellAssumption DEF Programmed, Over

LEMMA SettleType ==
  ASSUME TypeOK
  PROVE  /\ Finished \in [Address -> Byte]
         /\ Idle \in [op : {"none", "program", "erase"}, at : Nat, bytes : Seq(Byte)]
<1>1. <<>> \in Seq(Byte)
  OBVIOUS
<1>2. Programmed(cell, pend.at, pend.bytes) \in [Address -> Byte]
  BY ProgrammedType DEF TypeOK
<1>3. AllBlank \in [Address -> Byte]
  BY CellAssumption DEF AllBlank
<1> QED
  BY <1>1, <1>2, <1>3 DEF Finished, Idle, TypeOK

LEMMA ChipKeeps ==
  ASSUME IInv, ChipFinishes
  PROVE  IInv'
<1> USE DEF Deaf, Busy, NoFile, EraseAt, WriteAt, OddAt, WordsAt, EndAt, LastAt
<1>1. /\ TypeOK /\ Busy /\ UNCHANGED mcu /\ UNCHANGED <<ignored, left>>
      /\ cell' = Finished /\ pend' = Idle /\ wel' = (wel /\ aai)
      /\ UNCHANGED <<protect, aai, ebsy, ptr>>
  BY DEF IInv, ChipFinishes, Settle
<1>2. TypeOK'
  BY <1>1, SettleType DEF TypeOK, mcu
<1>3. pc \in {"erasing", "oddWait", "wordWait", "lastWait"}
  BY <1>1 DEF IInv, BusyOK, TypeOK
<1> QED
  BY <1>1, <1>2, <1>3 DEF IInv, BusyOK, ArmedOK, AaiOK, BlockOK, CommandsObeyed, mcu, Idle

LEMMA ResetsKeep ==
  ASSUME IInv, McuReset \/ PowerLoss
  PROVE  IInv'
<1> USE DEF Deaf, Busy, NoFile, EraseAt, WriteAt, OddAt, WordsAt, EndAt, LastAt
<1>1. /\ TypeOK /\ <<>> \in Seq(Byte)
      /\ pc' = "idle" /\ address' = 0 /\ size' = 0 /\ buffer' = <<>> /\ next' = -1
      /\ ignored' = FALSE /\ out' = <<>> /\ pend' = Idle
  BY DEF IInv, McuReset, PowerLoss, Restarted, Settle
<1>2. /\ wel' \in BOOLEAN /\ protect' \in BOOLEAN
      /\ aai' \in BOOLEAN /\ ebsy' \in BOOLEAN /\ ptr' \in Nat
      /\ aai' => ebsy'
  <2>1. CASE McuReset
    BY <1>1, <2>1 DEF McuReset, Settle, TypeOK, IInv, AaiOK
  <2>2. CASE PowerLoss
    BY <2>2 DEF PowerLoss
  <2> QED
    BY <2>1, <2>2
<1>3. cell' \in [Address -> Byte]
  BY <1>1, SettleType DEF McuReset, PowerLoss, Settle, Torn
<1>4. left' \in [mcu : Nat, power : Nat]
  <2>1. left \in [mcu : Nat, power : Nat]
    BY <1>1 DEF TypeOK
  <2>2. CASE McuReset
    BY <2>1, <2>2 DEF McuReset
  <2>3. CASE PowerLoss
    BY <2>1, <2>3 DEF PowerLoss
  <2> QED
    BY <2>2, <2>3
<1>5. TypeOK'
  BY <1>1, <1>2, <1>3, <1>4, SettleType DEF TypeOK
<1> QED
  BY <1>1, <1>2, <1>5 DEF IInv, BusyOK, ArmedOK, AaiOK, BlockOK, CommandsObeyed, Idle

(* The invariant that holds the argument together: each place in flash.c   *)
(* with the mode the chip is in there.                                     *)
THEOREM FlashInvariance == Spec => []IInv
<1>1. Init => IInv
  <2>1. ASSUME Init PROVE TypeOK
    <3>1. cell \in [Address -> Byte]
      BY <2>1, CellAssumption DEF Init, AllBlank
    <3>2. <<>> \in Seq(Byte) /\ Idle \in [op : {"none", "program", "erase"}, at : Nat, bytes : Seq(Byte)]
      BY DEF Idle
    <3> QED
      BY <2>1, <3>1, <3>2, DriverAssumption DEF Init, TypeOK
  <2>2. ASSUME Init PROVE BusyOK /\ ArmedOK /\ AaiOK /\ BlockOK /\ CommandsObeyed
    BY <2>2 DEF Init, BusyOK, ArmedOK, AaiOK, BlockOK, CommandsObeyed, Deaf, Busy, Idle,
       NoFile, EraseAt, WriteAt, OddAt, WordsAt, EndAt, LastAt
  <2> QED
    BY <2>1, <2>2 DEF IInv
<1>2. IInv /\ [Next]_vars => IInv'
  <2> SUFFICES ASSUME IInv, [Next]_vars PROVE IInv'
    OBVIOUS
  <2>1. CASE UNCHANGED vars
    BY <2>1 DEF vars, IInv, TypeOK, BusyOK, ArmedOK, AaiOK, BlockOK, CommandsObeyed, Deaf, Busy
  <2>2. CASE Driver
    BY <2>2, EraseFlashKeeps, WriteFlashKeeps, WaitsKeep, InquireKeeps DEF Driver
  <2> QED
    BY <2>1, <2>2, CallsKeep, ChipKeeps, ResetsKeep DEF Next
<1> QED
  BY <1>1, <1>2, PTL DEF Spec

(* Types, for every chip and block size. *)
THEOREM FlashTypes == Spec => []TypeOK
<1>1. IInv => TypeOK
  BY DEF IInv
<1> QED
  BY <1>1, FlashInvariance, PTL

(* The chip obeys every command of the driver, unless a reset of the       *)
(* microcontroller left it in AAI mode.                                    *)
THEOREM ChipObeys == Spec => []CommandsObeyed
<1>1. IInv => CommandsObeyed
  BY DEF IInv
<1> QED
  BY <1>1, FlashInvariance, PTL

-----------------------------------------------------------------------------
(* The refinement: what FlashStore sees of each step.                      *)

LEMMA SameCells ==
  /\ Store!Address = Address /\ Store!AllBlank = AllBlank
  /\ \A c, a, b : Store!Programmed(c, a, b) = Programmed(c, a, b)
  /\ \A c, d : Store!Torn(c, d) = Torn(c, d)
  /\ \A s, k : Store!Take(s, k) = Take(s, k) /\ Store!Drop(s, k) = Drop(s, k)
<1>1. Store!Address = Address
  BY DEF Store!Address, Address
<1>2. Store!AllBlank = AllBlank
  BY <1>1 DEF Store!AllBlank, AllBlank
<1>3. \A x, y : Store!Over(x, y) = Over(x, y)
  BY DEF Store!Over, Over
<1>4. \A c, a, b : Store!Programmed(c, a, b) = Programmed(c, a, b)
  BY <1>1, <1>3 DEF Store!Programmed, Programmed
<1>5. \A c, d : Store!Torn(c, d) = Torn(c, d)
  BY <1>1 DEF Store!Torn, Torn
<1>6. \A s, k : Store!Take(s, k) = Take(s, k) /\ Store!Drop(s, k) = Drop(s, k)
  BY DEF Store!Take, Take, Store!Drop, Drop
<1> QED
  BY <1>1, <1>2, <1>4, <1>5, <1>6

LEMMA TakeThenDrop ==
  ASSUME NEW S, NEW s \in Seq(S), NEW k \in Nat, k <= Len(s)
  PROVE  Take(s, k) \o Drop(s, k) = s
<1>1. Len(s) \in Nat /\ 1 \in 1 .. Len(s) + 1 /\ k \in 1 - 1 .. Len(s) /\ Len(s) \in k .. Len(s)
  BY LenProperties
<1>2. SubSeq(s, 1, k) \o SubSeq(s, k + 1, Len(s)) = SubSeq(s, 1, Len(s))
  BY <1>1, ConcatAdjacentSubSeq
<1>3. SubSeq(s, 1, Len(s)) = s
  BY SubSeqFull
<1> QED
  BY <1>2, <1>3 DEF Take, Drop

LEMMA TakeOfConcat ==
  ASSUME NEW S, NEW s \in Seq(S), NEW t \in Seq(S)
  PROVE  /\ Len(s) <= Len(s \o t)
         /\ Take(s \o t, Len(s)) = s /\ Drop(s \o t, Len(s)) = t
<1> DEFINE k == Len(s)
           u == s \o t
<1>1. /\ k \in Nat /\ Len(t) \in Nat /\ u \in Seq(S) /\ Len(u) = k + Len(t)
      /\ \A i \in 1 .. Len(s) + Len(t) : u[i] = IF i <= Len(s) THEN s[i] ELSE t[i - Len(s)]
  BY LenProperties, ConcatProperties
<1>2. \A i \in 1 .. Len(u) : u[i] \in S
  BY <1>1, ElementOfSeq
<1>3. /\ Take(u, k) \in Seq(S) /\ Len(Take(u, k)) = k
      /\ Drop(u, k) \in Seq(S) /\ Len(Drop(u, k)) = Len(t)
  <2>1. k <= Len(u)
    BY <1>1
  <2> HIDE DEF u, k
  <2> QED
    BY <1>1, <2>1, TakeDrop
<1>4. \A i \in 1 .. k : Take(u, k)[i] = s[i]
  <2>1. Take(u, k) = SubSeq(u, 1, k)
    BY <1>1 DEF Take
  <2>2. \A i \in 1 .. k - 1 + 1 : SubSeq(u, 1, k)[i] = u[1 + i - 1]
    BY <1>1, <1>2, SubSeqProperties
  <2> QED
    BY <1>1, <2>1, <2>2
<1>5. \A i \in 1 .. Len(t) : Drop(u, k)[i] = t[i]
  <2>1. Drop(u, k) = SubSeq(u, k + 1, Len(u))
    BY DEF Drop
  <2>2. \A i \in 1 .. Len(u) - (k + 1) + 1 : SubSeq(u, k + 1, Len(u))[i] = u[k + 1 + i - 1]
    BY <1>1, <1>2, SubSeqProperties
  <2> QED
    BY <1>1, <2>1, <2>2
<1>6. Take(u, k) = s
  BY <1>3, <1>4, SeqEqual
<1>7. Drop(u, k) = t
  BY <1>3, <1>5, SeqEqual
<1> QED
  BY <1>1, <1>6, <1>7

(* A chip that is not deaf outside writeFlash is not in AAI mode. *)
LEMMA ReadSteps ==
  ASSUME IInv, ReadFlash \/ GetFlashChipID
  PROVE  Store!Read
<1> USE DEF Busy, EraseAt, WriteAt, OddAt, WordsAt, EndAt, LastAt
<1>1. TypeOK /\ ~Busy /\ pc \in {"read", "identify"} /\ pend = Idle
  BY DEF IInv, BusyOK, TypeOK, ReadFlash, GetFlashChipID, Inquire
<1>2. /\ \A op \in {"READ", "ID"} : Obeys(op) <=> ~Deaf
      /\ StoreCall = pc /\ ~Programming /\ StoreAt = address /\ StoreRest = buffer
  BY <1>1 DEF Obeys, Deaf, StoreCall, Programming, StoreAt, StoreRest
<1>3. PICK op \in {"READ", "ID"} :
        /\ Command(op, <<>>) /\ pc' = "idle" /\ cell' = cell
        /\ UNCHANGED <<address, size, buffer, next, left>>
  BY DEF ReadFlash, GetFlashChipID, Inquire, Command
<1>4. UNCHANGED <<aai, pend>>
  <2>1. CASE Obeys(op)
    BY <1>3, <2>1 DEF Command, Obey
  <2>2. CASE ~Obeys(op)
    BY <1>3, <2>2 DEF Command
  <2> QED
    BY <2>1, <2>2
<1>5. /\ Deaf' = Deaf /\ StoreCall' = "none" /\ StoreAt' = StoreAt
      /\ StoreRest' = StoreRest
  BY <1>1, <1>2, <1>3, <1>4 DEF Deaf, StoreCall, Programming, StoreAt, StoreRest
<1>6. out' = IF StoreCall = "identify"
             THEN [i \in 1 .. 1 |-> IF Deaf THEN Blank ELSE ChipId]
             ELSE [i \in 1 .. size |-> IF Deaf THEN Blank
                                       ELSE cell[(StoreAt + i - 1) % FlashLen]]
  <2>1. CASE ReadFlash
    BY <1>2, <2>1 DEF ReadFlash, Inquire, Clocked
  <2>2. CASE GetFlashChipID
    BY <1>2, <2>2 DEF GetFlashChipID, Inquire, Clocked
  <2> QED
    BY <2>1, <2>2
<1> QED
  BY <1>1, <1>2, <1>3, <1>5, <1>6 DEF Store!Read

LEMMA CallSteps ==
  ASSUME IInv, Caller
  PROVE  Store!Next
<1> USE DEF Busy, EraseAt, WriteAt, OddAt, WordsAt, EndAt, LastAt
<1>1. /\ TypeOK /\ FlashLen \in Nat \ {0} /\ pc = "idle" /\ buffer = <<>> /\ pend = Idle
      /\ UNCHANGED chip /\ UNCHANGED left /\ out' = <<>> /\ ~Busy
  BY CellAssumption DEF Caller, CallIdentify, CallRead, CallErase, CallWrite, Call,
     IInv, BusyOK, BlockOK, TypeOK
<1>2. /\ StoreCall = "none" /\ ~Programming /\ ~Programming'
      /\ StoreAt = address /\ StoreRest = buffer /\ StoreAt' = address' /\ StoreRest' = buffer'
      /\ cell' = cell /\ aai' = aai /\ pend' = pend
  BY <1>1 DEF chip, StoreCall, Programming, StoreAt, StoreRest, Idle
<1>3. CASE CallIdentify
  BY <1>1, <1>2, <1>3 DEF CallIdentify, Call, Deaf, StoreCall, Store!Identify, Store!Next
<1>4. CASE CallRead
  <2>1. address' \in Address /\ size' \in Nat /\ buffer' = <<>> /\ pc' = "read"
    BY <1>4, DriverAssumption DEF CallRead, Call
  <2> QED
    BY <1>1, <1>2, <2>1, SameCells DEF Deaf, StoreCall, Store!BeginRead, Store!Next
<1>5. CASE CallErase
  BY <1>1, <1>2, <1>5 DEF CallErase, Call, Deaf, StoreCall, Store!BeginErase, Store!Next
<1>6. CASE CallWrite
  <2>1. PICK n \in 1 .. MaxLen : \E b \in [1 .. n -> Data] :
          next + n <= FlashLen /\ Call(FirstStep(next, n), next, size, b)
    BY <1>6 DEF CallWrite
  <2>2. PICK b \in [1 .. n -> Data] :
          next + n <= FlashLen /\ Call(FirstStep(next, n), next, size, b)
    BY <2>1
  <2>3. b \in Seq(Byte) /\ Len(b) = n /\ n \in Nat /\ n > 0 /\ b # <<>>
    <3>1. n \in Nat /\ n > 0 /\ \A i \in 1 .. n : b[i] \in Byte
      BY DriverAssumption
    <3> QED
      BY <3>1, IsASeq
  <2>4. next \in Nat /\ ~Deaf /\ next \in Address
    BY <1>1, <1>6, <2>2, <2>3 DEF CallWrite, TypeOK, NoFile, Address, IInv, ArmedOK
  <2>5. pc' \in {"oddArm", "enableBusy", "lastArm"}
    BY <2>2, <2>3 DEF Call, FirstStep, Aligned, NoWords
  <2>6. StoreCall' = "write" /\ ~Deaf' /\ address' = next /\ buffer' = b /\ size' = size
    BY <2>2, <2>5 DEF Call, StoreCall, Deaf
  <2>7. StoreAt' \in Store!Address /\ StoreRest' \in Seq(Byte) /\ StoreRest' # <<>>
    BY <1>2, <2>3, <2>4, <2>6, SameCells
  <2>8. UNCHANGED <<cell, Deaf, size>>
    BY <1>2, <1>6, <2>2, <2>4, <2>5 DEF Call, Deaf
  <2> QED
    BY <1>1, <1>2, <2>4, <2>6, <2>7, <2>8 DEF Store!BeginWrite, Store!Next
<1> QED
  BY <1>3, <1>4, <1>5, <1>6 DEF Caller

LEMMA WaitSteps ==
  ASSUME IInv, WaitWhileBusy \/ WaitWhileHwBusy
  PROVE  Store!Return \/ UNCHANGED Store!vars
<1> USE DEF Busy, EraseAt, WriteAt, OddAt, WordsAt, EndAt, LastAt
<1>1. TypeOK /\ pc \in {"erasing", "oddWait", "wordWait", "lastWait"}
  BY DEF IInv, WaitWhileBusy, WaitWhileHwBusy
<1>2. ~Busy
  <2>1. CASE pc = "wordWait"
    BY <2>1 DEF WaitWhileBusy, WaitWhileHwBusy, MisoLow, ShowsReady, IInv, AaiOK, WriteAt
  <2>2. CASE pc \in {"oddWait", "lastWait"}
    BY <2>2 DEF WaitWhileBusy, WaitWhileHwBusy, StatusBit0, ShowsReady, IInv, AaiOK
  <2>3. CASE pc = "erasing"
    <3>1. CASE aai
      BY <2>3, <3>1 DEF IInv, BusyOK, Deaf
    <3>2. CASE ~aai
      BY <2>3, <3>2 DEF WaitWhileBusy, WaitWhileHwBusy, StatusBit0, ShowsReady
    <3> QED
      BY <3>1, <3>2
  <2> QED
    BY <1>1, <2>1, <2>2, <2>3
<1>3. /\ UNCHANGED chip /\ UNCHANGED <<address, size, buffer, out, left>>
      /\ ~Programming /\ ~Programming'
  BY <1>2 DEF WaitWhileBusy, WaitWhileHwBusy, Leave, Programming, chip
<1>4. CASE pc = "erasing"
  <2>1. ~aai /\ pc' = "idle"
    BY <1>2, <1>4 DEF WaitWhileBusy, WaitWhileHwBusy, StatusBit0, ShowsReady, IInv, AaiOK, Leave
  <2>2. Deaf' = Deaf /\ ~Deaf /\ cell' = cell
    BY <1>3, <2>1 DEF Deaf, chip
  <2>3. StoreCall = "erased" /\ StoreCall' = "none"
    <3>1. pc \notin WriteAt /\ (pc = "erasing" /\ ~Busy /\ ~Deaf)
      BY <1>2, <1>4, <2>2
    <3>2. StoreCall = "erased"
      BY <3>1, <2>1 DEF StoreCall, Deaf
    <3>3. pc' = "idle"
      BY <2>1
    <3>4. StoreCall' = "none"
      BY <3>3 DEF StoreCall
    <3> QED
      BY <3>2, <3>4
  <2>4. StoreAt' = StoreAt /\ StoreRest' = StoreRest
    BY <1>3 DEF StoreAt, StoreRest
  <2> QED
    BY <1>3, <2>2, <2>3, <2>4 DEF Store!Return
<1>5. CASE pc \in {"oddWait", "wordWait", "lastWait"}
  <2>1. StoreCall = "write" /\ ~Deaf
    BY <1>5 DEF StoreCall, Deaf
  <2>2. /\ cell' = cell /\ StoreAt' = StoreAt /\ StoreRest' = StoreRest /\ aai' = aai
        /\ size' = size /\ out' = out /\ StoreRest = buffer
    BY <1>3 DEF StoreAt, StoreRest, chip
  <2>3. Len(buffer) \in Nat /\ (Len(buffer) = 0 => buffer = <<>>)
    BY <1>1, EmptySeq, LenProperties DEF TypeOK
  <2>4. \/ pc' = "idle" /\ buffer = <<>> /\ ~aai
        \/ pc' \in WriteAt
    <3>1. CASE pc = "wordWait"
      BY <3>1 DEF WaitWhileBusy, WaitWhileHwBusy, Leave
    <3>2. CASE pc = "lastWait"
      BY <3>2 DEF WaitWhileBusy, WaitWhileHwBusy, Leave, IInv, BlockOK, AaiOK
    <3>3. CASE pc = "oddWait"
      <4>1. pc' = Aligned(Len(buffer)) /\ ~aai
        BY <3>3 DEF WaitWhileBusy, WaitWhileHwBusy, Leave, IInv, AaiOK
      <4> QED
        BY <2>3, <4>1 DEF Aligned, NoWords
    <3> QED
      BY <1>5, <3>1, <3>2, <3>3
  <2>5. CASE pc' = "idle" /\ buffer = <<>> /\ ~aai
    <3>1. StoreCall' = "none" /\ Deaf' = Deaf
      BY <2>1, <2>2, <2>5 DEF StoreCall, Deaf
    <3> QED
      BY <2>1, <2>2, <2>5, <3>1 DEF Store!Return
  <2>6. CASE pc' \in WriteAt
    <3>1. StoreCall' = "write" /\ Deaf' = Deaf
      BY <2>1, <2>6 DEF StoreCall, Deaf
    <3> QED
      BY <2>1, <2>2, <3>1 DEF Store!vars
  <2> QED
    BY <2>4, <2>5, <2>6
<1> QED
  BY <1>1, <1>4, <1>5

(* A command is a stutter: the store changes when the chip is done. *)
LEMMA EraseSteps ==
  ASSUME IInv, EraseFlash
  PROVE  UNCHANGED Store!vars
<1> USE DEF Busy, EraseAt, WriteAt, OddAt, WordsAt, EndAt, LastAt
<1>1. PICK op \in {"WREN", "WRSR", "ERASE"} :
        /\ Command(op, Take(buffer, 0)) /\ buffer' = Drop(buffer, 0) /\ address' = address + 0
        /\ UNCHANGED <<size, out, left>> /\ (op = "ERASE" <=> pc = "erase")
        /\ pc \in {"unlock", "unprotect", "arm", "erase"} /\ pc' \in EraseAt
        /\ pc' = "erasing" <=> pc = "erase"
  BY DEF EraseFlash, Send
<1>2. /\ TypeOK /\ address' = address /\ buffer' = buffer
      /\ ~Busy /\ cell' = cell
  <2>1. TypeOK /\ ~Busy
    BY <1>1 DEF IInv, BusyOK, TypeOK
  <2>2. buffer' = buffer
    BY <1>1, <2>1, TakeDrop DEF TypeOK
  <2> QED
    BY <1>1, <2>1, <2>2 DEF Command, TypeOK
<1>3. /\ aai' = aai
      /\ pend'.op = "program" => pend'.op = pend.op
      /\ pc' = "erasing" => pend'.op = "erase" \/ Deaf
  <2>1. CASE Obeys(op)
    <3>1. Obey(op, Take(buffer, 0))
      BY <1>1, <2>1 DEF Command
    <3>2. aai' = aai
      BY <3>1 DEF Obey
    <3>3. CASE op = "ERASE"
      BY <3>1, <3>2, <3>3 DEF Obey, Start
    <3>4. CASE op # "ERASE"
      BY <1>1, <3>1, <3>2, <3>4 DEF Obey
    <3> QED
      BY <3>3, <3>4
  <2>2. CASE ~Obeys(op)
    <3>1. UNCHANGED <<aai, pend>>
      BY <1>1, <2>2 DEF Command
    <3>2. pc = "erase" => Deaf
      BY <1>1, <1>2, <2>2 DEF Obeys, Deaf, IInv, ArmedOK
    <3> QED
      BY <1>1, <3>1, <3>2
  <2> QED
    BY <2>1, <2>2
<1>4. ~Programming /\ ~Programming'
  BY <1>1 DEF Programming
<1>5. /\ StoreCall = "erase" /\ StoreCall' = "erase" /\ Deaf' = Deaf
      /\ StoreAt' = StoreAt /\ StoreRest' = StoreRest
  BY <1>1, <1>2, <1>3, <1>4 DEF StoreCall, Deaf, StoreAt, StoreRest
<1> QED
  BY <1>1, <1>2, <1>5 DEF Store!vars


(* A command that starts a byte or a word moves what it took from the      *)
(* buffer to the chip, so the rest to be programmed stays the same.        *)
LEMMA WriteSteps ==
  ASSUME IInv, WriteFlash
  PROVE  Store!Return \/ UNCHANGED Store!vars
<1> USE DEF Busy, EraseAt, WriteAt, OddAt, WordsAt, EndAt, LastAt
<1>1. /\ TypeOK /\ pc \in WriteAt /\ pc \notin {"oddWait", "wordWait", "lastWait"}
      /\ cell' = cell /\ size' = size /\ out' = out
  BY DEF IInv, WriteFlash, Send, Command
<1>2. ~Busy /\ pend = Idle
  BY <1>1 DEF IInv, BusyOK, TypeOK
<1>3. ~Programming /\ StoreCall = "write" /\ ~Deaf /\ StoreAt = address /\ StoreRest = buffer
  BY <1>1, <1>2 DEF Programming, StoreCall, Deaf, StoreAt, StoreRest
<1>4. Len(buffer) \in Nat /\ (Len(buffer) = 0 => buffer = <<>>) /\ address \in Nat /\ buffer \in Seq(Byte)
  BY <1>1, EmptySeq, LenProperties DEF TypeOK
<1>5. CASE pc \in {"oddArm", "enableBusy", "wordsArm", "disableWrite", "disableBusy", "lastArm"}
  <2>1. PICK op \in {"WREN", "EBSY", "WRDI", "DBSY"} :
          /\ Command(op, Take(buffer, 0)) /\ buffer' = Drop(buffer, 0) /\ address' = address + 0
          /\ op = "WRDI" <=> pc = "disableWrite"
          /\ \/ pc' \in WriteAt
             \/ pc = "disableBusy" /\ pc' = NoWords(Len(buffer))
    BY <1>5 DEF WriteFlash, Send
  <2>2. buffer' = buffer /\ address' = address
    BY <1>4, <2>1, TakeDrop
  <2>3. pend' = pend /\ (op # "WRDI" => aai' = aai)
    <3>1. CASE Obeys(op)
      BY <2>1, <3>1 DEF Command, Obey
    <3>2. CASE ~Obeys(op)
      BY <2>1, <3>2 DEF Command
    <3> QED
      BY <3>1, <3>2
  <2>4. ~Programming' /\ StoreAt' = StoreAt /\ StoreRest' = StoreRest
    BY <1>2, <1>3, <2>2, <2>3 DEF Programming, StoreAt, StoreRest, Idle
  <2>5. CASE pc' \in WriteAt
    <3>1. StoreCall' = StoreCall /\ Deaf' = Deaf
      BY <1>1, <1>3, <2>5 DEF StoreCall, Deaf
    <3> QED
      BY <1>1, <2>4, <3>1 DEF Store!vars
  <2>6. CASE pc' \notin WriteAt
    <3>1. pc = "disableBusy" /\ pc' = "idle" /\ buffer = <<>>
      BY <1>4, <2>1, <2>6 DEF NoWords
    <3>2. ~aai /\ ~aai'
      BY <2>1, <2>3, <3>1 DEF IInv, AaiOK
    <3>3. Deaf' = Deaf
      BY <1>1, <3>1, <3>2 DEF Deaf
    <3>4. StoreCall' = "none"
      BY <3>1 DEF StoreCall
    <3> QED
      BY <1>1, <1>3, <2>4, <3>1, <3>3, <3>4 DEF Store!Return
  <2> QED
    BY <2>5, <2>6
<1>6. CASE pc \in {"oddByte", "firstWord", "word", "lastByte"}
  <2>1. PICK k \in {1, 2}, op \in {"BYTE", "WORD", "MORE"} :
          /\ Command(op, Take(buffer, k)) /\ buffer' = Drop(buffer, k) /\ address' = address + k
          /\ pc' \in {"oddWait", "wordWait", "lastWait"}
          /\ op = "BYTE" <=> pc \in {"oddByte", "lastByte"}
          /\ op = "WORD" <=> pc = "firstWord"
          /\ op = "MORE" <=> pc = "word"
          /\ k = 1 <=> op = "BYTE"
    BY <1>6 DEF WriteFlash, Send
  <2>2. Obeys(op)
    BY <1>1, <1>2, <1>6, <2>1 DEF Obeys, IInv, ArmedOK, AaiOK, Deaf
  <2>3. Obey(op, Take(buffer, k))
    BY <2>1, <2>2 DEF Command
  <2>4. pend' = [op |-> "program", at |-> address, bytes |-> Take(buffer, k)]
    <3>1. CASE op = "BYTE"
      BY <2>3, <3>1 DEF Obey, Start
    <3>2. CASE op = "WORD"
      <4>1. Even(address) = address
        BY <1>4, <2>1, <3>2 DEF IInv, BlockOK, Even
      <4> QED
        BY <2>3, <3>2, <4>1 DEF Obey, Start
    <3>3. CASE op = "MORE"
      <4>1. ptr = address
        BY <2>1, <3>3 DEF IInv, AaiOK
      <4> QED
        BY <2>3, <3>3, <4>1 DEF Obey, Start
    <3> QED
      BY <2>1, <3>1, <3>2, <3>3
  <2>5. k <= Len(buffer) /\ k \in Nat
    <3>1. CASE op = "BYTE"
      BY <1>4, <2>1, <3>1 DEF IInv, BlockOK
    <3>2. CASE op # "BYTE"
      BY <1>4, <2>1, <3>2 DEF IInv, BlockOK
    <3> QED
      BY <3>1, <3>2
  <2>6. Take(buffer, k) \o Drop(buffer, k) = buffer
    BY <1>4, <2>5, TakeThenDrop
  <2>7. Programming' /\ StoreAt' = StoreAt /\ StoreRest' = StoreRest
    BY <1>3, <2>1, <2>4, <2>6 DEF Programming, StoreAt, StoreRest
  <2>8. StoreCall' = StoreCall /\ Deaf' = Deaf
    BY <1>1, <1>3, <2>1 DEF StoreCall, Deaf
  <2> QED
    BY <1>1, <2>7, <2>8 DEF Store!vars
<1> QED
  BY <1>1, <1>5, <1>6

(* What the chip is busy with, seen from the store. *)
LEMMA BusySeen ==
  ASSUME IInv, Busy
  PROVE  /\ ~Deaf
         /\ \/ pend.op = "erase" /\ pc = "erasing" /\ StoreCall = "erase"
               /\ ~Programming /\ Finished = Store!AllBlank
            \/ /\ pend.op = "program" /\ pc \in {"oddWait", "wordWait", "lastWait"}
               /\ StoreCall = "write" /\ Programming
               /\ \E k \in {1, 2} :
                    /\ k = Len(pend.bytes) /\ k <= Len(StoreRest)
                    /\ address = StoreAt + k
                    /\ Store!Drop(StoreRest, k) = buffer
                    /\ Finished = Store!Programmed(cell, StoreAt, Store!Take(StoreRest, k))
<1> USE DEF Busy, EraseAt, WriteAt, OddAt, WordsAt, EndAt, LastAt
<1>1. TypeOK /\ ~Deaf /\ pend.op \in {"erase", "program"}
  BY DEF IInv, BusyOK, TypeOK
<1>2. CASE pend.op = "erase"
  <2>1. pc = "erasing"
    BY <1>2 DEF IInv, BusyOK
  <2>2. StoreCall = "erase" /\ ~Programming
    BY <1>2, <2>1 DEF StoreCall, Programming
  <2>3. Finished = Store!AllBlank
    BY <1>2, SameCells DEF Finished
  <2> QED
    BY <1>1, <1>2, <2>1, <2>2, <2>3
<1>3. CASE pend.op = "program"
  <2>1. /\ pc \in {"oddWait", "wordWait", "lastWait"} /\ Len(pend.bytes) \in {1, 2}
        /\ pend.at + Len(pend.bytes) = address
    BY <1>3 DEF IInv, BusyOK
  <2>2. StoreCall = "write" /\ Programming
    BY <1>3, <2>1 DEF StoreCall, Programming
  <2>3. StoreAt = pend.at /\ StoreRest = pend.bytes \o buffer
    BY <2>2 DEF StoreAt, StoreRest
  <2>4. pend.bytes \in Seq(Byte) /\ buffer \in Seq(Byte)
    BY <1>1 DEF TypeOK
  <2>5. /\ Len(pend.bytes) <= Len(StoreRest)
        /\ Take(StoreRest, Len(pend.bytes)) = pend.bytes
        /\ Drop(StoreRest, Len(pend.bytes)) = buffer
    BY <2>3, <2>4, TakeOfConcat
  <2>6. Finished = Programmed(cell, StoreAt, Take(StoreRest, Len(pend.bytes)))
    BY <1>3, <2>3, <2>5 DEF Finished
  <2> QED
    BY <1>1, <1>3, <2>1, <2>2, <2>3, <2>5, <2>6, SameCells
<1> QED
  BY <1>1, <1>2, <1>3

LEMMA ChipSteps ==
  ASSUME IInv, ChipFinishes
  PROVE  Store!Erase \/ Store!Program
<1> USE DEF EraseAt, WriteAt, OddAt, WordsAt, EndAt, LastAt
<1>1. /\ Busy /\ cell' = Finished /\ pend' = Idle /\ aai' = aai
      /\ UNCHANGED <<pc, address, size, buffer, out>>
  BY DEF ChipFinishes, Settle, mcu
<1>2. Deaf' = Deaf /\ ~Deaf
  BY <1>1, BusySeen DEF Deaf
<1>3. ~Programming' /\ StoreAt' = address /\ StoreRest' = buffer
  BY <1>1 DEF Programming, StoreAt, StoreRest, Idle
<1>4. CASE pend.op = "erase"
  <2>1. StoreCall = "erase" /\ pc = "erasing" /\ ~Programming /\ cell' = Store!AllBlank
    BY <1>1, <1>4, BusySeen
  <2>2. StoreCall' = "erased"
    BY <1>1, <1>2, <2>1 DEF StoreCall, Busy, Idle, Deaf
  <2>3. StoreAt' = StoreAt /\ StoreRest' = StoreRest
    BY <1>3, <2>1 DEF StoreAt, StoreRest
  <2> QED
    BY <1>1, <1>2, <2>1, <2>2, <2>3 DEF Store!Erase
<1>5. CASE pend.op = "program"
  <2>1. pc \in {"oddWait", "wordWait", "lastWait"} /\ StoreCall = "write"
    BY <1>1, <1>5, BusySeen
  <2>2. PICK k \in {1, 2} :
          /\ k <= Len(StoreRest) /\ address = StoreAt + k
          /\ Store!Drop(StoreRest, k) = buffer
          /\ cell' = Store!Programmed(cell, StoreAt, Store!Take(StoreRest, k))
    BY <1>1, <1>5, BusySeen
  <2>3. StoreCall' = StoreCall
    BY <1>1, <2>1 DEF StoreCall
  <2> QED
    BY <1>1, <1>2, <1>3, <2>1, <2>2, <2>3 DEF Store!Program
<1>6. pend.op \in {"erase", "program"}
  BY <1>1 DEF IInv, TypeOK, Busy
<1> QED
  BY <1>4, <1>5, <1>6

(* A reset leaves the chip what it is busy with, and its mode. *)
LEMMA ResetSteps ==
  ASSUME IInv, McuReset
  PROVE  Store!Reset
<1> USE DEF EraseAt, WriteAt, OddAt, WordsAt, EndAt, LastAt
<1>1. /\ pc' = "idle" /\ address' = 0 /\ size' = 0 /\ buffer' = <<>> /\ out' = <<>>
      /\ cell' = Finished /\ pend' = Idle /\ aai' = aai /\ TypeOK
  BY DEF McuReset, Restarted, Settle, IInv
<1>2. /\ StoreCall' = "none" /\ StoreAt' = 0 /\ StoreRest' = <<>>
  BY <1>1 DEF StoreCall, StoreAt, StoreRest, Programming, Idle
<1>3. /\ cell' = cell
         \/ (StoreCall = "erase" /\ ~Deaf /\ cell' = Store!AllBlank)
         \/ (StoreCall = "write" /\ \E k \in {1, 2} :
               k <= Len(StoreRest)
               /\ cell' = Store!Programmed(cell, StoreAt, Store!Take(StoreRest, k)))
  <2>1. CASE Busy
    BY <1>1, <2>1, BusySeen
  <2>2. CASE ~Busy
    BY <1>1, <2>2 DEF Finished, Busy
  <2> QED
    BY <2>1, <2>2
<1>4. Deaf' \in BOOLEAN /\ (Deaf' = Deaf \/ (StoreCall = "write" /\ Deaf'))
  <2>1. aai \in BOOLEAN
    BY <1>1 DEF TypeOK
  <2>2. CASE aai
    <3>1. Deaf' = TRUE
      BY <1>1, <2>2 DEF Deaf
    <3>2. CASE pc \in WriteAt
      BY <3>1, <3>2 DEF StoreCall
    <3>3. CASE pc \notin WriteAt
      BY <2>2, <3>1, <3>3 DEF Deaf
    <3> QED
      BY <3>2, <3>3
  <2>3. CASE ~aai
    BY <1>1, <2>3 DEF Deaf
  <2> QED
    BY <2>1, <2>2, <2>3
<1> QED
  BY <1>1, <1>2, <1>3, <1>4 DEF Store!Reset

(* A power loss leaves what the chip is busy with half done. *)
LEMMA PowerSteps ==
  ASSUME IInv, PowerLoss
  PROVE  Store!PowerLoss
<1> USE DEF EraseAt, WriteAt, OddAt, WordsAt, EndAt, LastAt
<1>1. /\ pc' = "idle" /\ address' = 0 /\ size' = 0 /\ buffer' = <<>> /\ out' = <<>>
      /\ cell' \in Torn(cell, Finished) /\ pend' = Idle /\ aai' = FALSE /\ TypeOK
  BY DEF PowerLoss, Restarted, IInv
<1>2. /\ StoreCall' = "none" /\ StoreAt' = 0 /\ StoreRest' = <<>> /\ Deaf' = FALSE
  BY <1>1 DEF StoreCall, StoreAt, StoreRest, Programming, Idle, Deaf
<1>3. /\ cell' = cell
         \/ (StoreCall = "erase" /\ ~Deaf /\ cell' \in Store!Torn(cell, Store!AllBlank))
         \/ (StoreCall = "write" /\ \E k \in {1, 2} :
               k <= Len(StoreRest)
               /\ cell' \in Store!Torn(cell,
                              Store!Programmed(cell, StoreAt, Store!Take(StoreRest, k))))
  <2>1. CASE Busy
    BY <1>1, <2>1, BusySeen, SameCells
  <2>2. CASE ~Busy
    <3>1. cell' \in Torn(cell, cell)
      BY <1>1, <2>2 DEF Finished, Busy
    <3>2. /\ cell' \in [Address -> Byte] /\ cell \in [Address -> Byte]
          /\ \A x \in Address : cell'[x] = cell[x]
      BY <1>1, <3>1 DEF Torn, TypeOK
    <3>3. cell' = cell
      BY <3>2
    <3> QED
      BY <3>3
  <2> QED
    BY <2>1, <2>2
<1> QED
  BY <1>1, <1>2, <1>3 DEF Store!PowerLoss

(* flash.c implements FlashStore: whatever resets and power losses come at *)
(* whatever command, a read returns the cells, an erase that returns left  *)
(* all of them blank, a write that returns programmed its bytes in order   *)
(* from its address on, and one that was cut short programmed a prefix.    *)
THEOREM FlashImplementsStore == Spec => Store!Spec
<1>1. Init => Store!Init
  <2> SUFFICES ASSUME Init PROVE Store!Init
    OBVIOUS
  <2>1. cell \in [Address -> Byte]
    BY CellAssumption DEF Init, AllBlank
  <2>2. StoreCall = "none" /\ StoreAt = 0 /\ StoreRest = <<>> /\ Deaf = FALSE
    BY DEF Init, StoreCall, StoreAt, StoreRest, Programming, Deaf, Idle,
       EraseAt, WriteAt, OddAt, WordsAt, EndAt, LastAt
  <2> QED
    BY <2>1, <2>2, SameCells DEF Init, Store!Init
<1>2. IInv /\ [Next]_vars => [Store!Next]_(Store!vars)
  <2> SUFFICES ASSUME IInv, [Next]_vars PROVE [Store!Next]_(Store!vars)
    OBVIOUS
  <2>1. CASE UNCHANGED vars
    BY <2>1 DEF vars, Store!vars, Deaf, StoreCall, StoreAt, StoreRest, Programming, Busy
  <2>2. CASE Driver
    BY <2>2, EraseSteps, WriteSteps, WaitSteps, ReadSteps DEF Driver, Store!Next, Store!Serve
  <2>3. CASE Caller
    BY <2>3, CallSteps
  <2>4. CASE ChipFinishes
    BY <2>4, ChipSteps DEF Store!Next, Store!Serve
  <2>5. CASE McuReset \/ PowerLoss
    BY <2>5, ResetSteps, PowerSteps DEF Store!Next
  <2> QED
    BY <2>1, <2>2, <2>3, <2>4, <2>5 DEF Next
<1> QED
  BY <1>1, <1>2, FlashInvariance, PTL DEF Spec, Store!Spec

=============================================================================
