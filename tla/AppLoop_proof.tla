--------------------------- MODULE AppLoop_proof ---------------------------
(***************************************************************************)
(* Proofs about AppLoop, for every size of the ring buffer and the         *)
(* endpoint and for every packet: the buffer is used within its bounds,    *)
(* the data lines have one driver, only write packets write.               *)
(***************************************************************************)
EXTENDS AppLoop, RingBuffer_proof

(***************************************************************************)
(* The sequences of port operations.                                       *)
(***************************************************************************)
LEMMA Sequences ==
  /\ BaseInit \in Seq(Ops) /\ Len(BaseInit) = 5
  /\ Echoes \in Seq(Ops) /\ Len(Echoes) = 2
  /\ WriteSetup \in Seq(Ops) /\ Len(WriteSetup) = 2
  /\ WriteUnit \in Seq(Ops) /\ Len(WriteUnit) = 4
  /\ SdrReadUnit \in Seq(Ops) /\ Len(SdrReadUnit) = 8
  /\ DdrReadSetup \in Seq(Ops) /\ Len(DdrReadSetup) = 2
  /\ DdrReadUnit \in Seq(Ops) /\ Len(DdrReadUnit) = 4
BY DEF Ops, BaseInit, Echoes, WriteSetup, WriteUnit, SdrReadUnit, DdrReadSetup,
       DdrReadUnit

(* The next operation of the sequence under way. *)
LEMMA NextOfRest ==
  ASSUME todo \in Seq(Ops), NEW CONSTANT ops \in Seq(Ops), Rest(ops), todo # <<>>
  PROVE  /\ Head(todo) = ops[Len(ops) - Len(todo) + 1]
         /\ Len(todo) \in 1 .. Len(ops)
<1>1. Len(todo) \in Nat /\ Len(todo) > 0 /\ Head(todo) = todo[1] /\ Len(ops) \in Nat
  OBVIOUS
<1>2. Len(todo) <= Len(ops) /\ \A i \in 1 .. Len(todo) : todo[i] = ops[Len(ops) - Len(todo) + i]
  BY DEF Rest
<1> QED
  BY <1>1, <1>2

(* Doing an operation leaves the rest of the sequence under way. *)
LEMMA RestGoesOn ==
  ASSUME todo \in Seq(Ops), NEW CONSTANT ops \in Seq(Ops), Rest(ops), NEW op, Doing(op)
  PROVE  Rest(ops)'
<1>1. Len(todo) \in Nat /\ Len(todo) > 0 /\ Len(ops) \in Nat
  BY DEF Doing
<1>2. Len(todo') = Len(todo) - 1 /\ \A i \in 1 .. Len(todo') : todo'[i] = todo[i + 1]
  BY <1>1 DEF Doing
<1>3. Len(todo) <= Len(ops) /\ \A i \in 1 .. Len(todo) : todo[i] = ops[Len(ops) - Len(todo) + i]
  BY DEF Rest
<1>4. ASSUME NEW i \in 1 .. Len(todo') PROVE todo'[i] = ops[Len(ops) - Len(todo') + i]
  <2>1. i + 1 \in 1 .. Len(todo) /\ Len(ops) - Len(todo) + (i + 1) = Len(ops) - Len(todo') + i
    BY <1>1, <1>2
  <2> QED
    BY <1>2, <1>3, <2>1
<1> QED
  BY <1>1, <1>2, <1>3, <1>4 DEF Rest

(* What is next when some operations of a sequence are left. *)
LEMMA BaseInitOp ==
  ASSUME todo \in Seq(Ops), Rest(BaseInit), todo # <<>>, NEW op, op = Head(todo)
  PROVE  \/ op = "rw0" /\ Len(todo) = 5
         \/ op = "zero" /\ Len(todo) = 4
         \/ op = "drive" /\ Len(todo) = 3
         \/ op = "e0" /\ Len(todo) = 2
         \/ op = "sdr" /\ Len(todo) = 1
<1>1. op = BaseInit[5 - Len(todo) + 1] /\ Len(todo) \in 1 .. 5
  BY Sequences, NextOfRest
<1>2. ASSUME NEW k \in 1 .. 5, op = BaseInit[5 - k + 1]
      PROVE  \/ op = "rw0" /\ k = 5
             \/ op = "zero" /\ k = 4
             \/ op = "drive" /\ k = 3
             \/ op = "e0" /\ k = 2
             \/ op = "sdr" /\ k = 1
  BY <1>2 DEF BaseInit
<1> QED
  BY <1>1, <1>2

LEMMA EchoesOp ==
  ASSUME todo \in Seq(Ops), Rest(Echoes), todo # <<>>, NEW op, op = Head(todo)
  PROVE  \/ op = "id" /\ Len(todo) = 2
         \/ op = "size" /\ Len(todo) = 1
<1>1. op = Echoes[2 - Len(todo) + 1] /\ Len(todo) \in 1 .. 2
  BY Sequences, NextOfRest
<1>2. ASSUME NEW k \in 1 .. 2, op = Echoes[2 - k + 1]
      PROVE  \/ op = "id" /\ k = 2
             \/ op = "size" /\ k = 1
  BY <1>2 DEF Echoes
<1> QED
  BY <1>1, <1>2

LEMMA WriteSetupOp ==
  ASSUME todo \in Seq(Ops), Rest(WriteSetup), todo # <<>>, NEW op, op = Head(todo)
  PROVE  \/ op = "rw0" /\ Len(todo) = 2
         \/ op = "drive" /\ Len(todo) = 1
<1>1. op = WriteSetup[2 - Len(todo) + 1] /\ Len(todo) \in 1 .. 2
  BY Sequences, NextOfRest
<1>2. ASSUME NEW k \in 1 .. 2, op = WriteSetup[2 - k + 1]
      PROVE  \/ op = "rw0" /\ k = 2
             \/ op = "drive" /\ k = 1
  BY <1>2 DEF WriteSetup
<1> QED
  BY <1>1, <1>2

LEMMA WriteUnitOp ==
  ASSUME todo \in Seq(Ops), Rest(WriteUnit), todo # <<>>, NEW op, op = Head(todo)
  PROVE  \/ op = "data" /\ Len(todo) = 4
         \/ op = "e1" /\ Len(todo) = 3
         \/ op = "data" /\ Len(todo) = 2
         \/ op = "e0" /\ Len(todo) = 1
<1>1. op = WriteUnit[4 - Len(todo) + 1] /\ Len(todo) \in 1 .. 4
  BY Sequences, NextOfRest
<1>2. ASSUME NEW k \in 1 .. 4, op = WriteUnit[4 - k + 1]
      PROVE  \/ op = "data" /\ k = 4
             \/ op = "e1" /\ k = 3
             \/ op = "data" /\ k = 2
             \/ op = "e0" /\ k = 1
  BY <1>2 DEF WriteUnit
<1> QED
  BY <1>1, <1>2

LEMMA SdrReadUnitOp ==
  ASSUME todo \in Seq(Ops), Rest(SdrReadUnit), todo # <<>>, NEW op, op = Head(todo)
  PROVE  \/ op = "rw0" /\ Len(todo) = 8
         \/ op = "drive" /\ Len(todo) = 7
         \/ op = "data" /\ Len(todo) = 6
         \/ op = "e1" /\ Len(todo) = 5
         \/ op = "input" /\ Len(todo) = 4
         \/ op = "rw1" /\ Len(todo) = 3
         \/ op = "e0" /\ Len(todo) = 2
         \/ op = "read" /\ Len(todo) = 1
<1>1. op = SdrReadUnit[8 - Len(todo) + 1] /\ Len(todo) \in 1 .. 8
  BY Sequences, NextOfRest
<1>2. ASSUME NEW k \in 1 .. 8, op = SdrReadUnit[8 - k + 1]
      PROVE  \/ op = "rw0" /\ k = 8
             \/ op = "drive" /\ k = 7
             \/ op = "data" /\ k = 6
             \/ op = "e1" /\ k = 5
             \/ op = "input" /\ k = 4
             \/ op = "rw1" /\ k = 3
             \/ op = "e0" /\ k = 2
             \/ op = "read" /\ k = 1
  BY <1>2 DEF SdrReadUnit
<1> QED
  BY <1>1, <1>2

LEMMA DdrReadSetupOp ==
  ASSUME todo \in Seq(Ops), Rest(DdrReadSetup), todo # <<>>, NEW op, op = Head(todo)
  PROVE  \/ op = "input" /\ Len(todo) = 2
         \/ op = "rw1" /\ Len(todo) = 1
<1>1. op = DdrReadSetup[2 - Len(todo) + 1] /\ Len(todo) \in 1 .. 2
  BY Sequences, NextOfRest
<1>2. ASSUME NEW k \in 1 .. 2, op = DdrReadSetup[2 - k + 1]
      PROVE  \/ op = "input" /\ k = 2
             \/ op = "rw1" /\ k = 1
  BY <1>2 DEF DdrReadSetup
<1> QED
  BY <1>1, <1>2

LEMMA DdrReadUnitOp ==
  ASSUME todo \in Seq(Ops), Rest(DdrReadUnit), todo # <<>>, NEW op, op = Head(todo)
  PROVE  \/ op = "read" /\ Len(todo) = 4
         \/ op = "e1" /\ Len(todo) = 3
         \/ op = "read" /\ Len(todo) = 2
         \/ op = "e0" /\ Len(todo) = 1
<1>1. op = DdrReadUnit[4 - Len(todo) + 1] /\ Len(todo) \in 1 .. 4
  BY Sequences, NextOfRest
<1>2. ASSUME NEW k \in 1 .. 4, op = DdrReadUnit[4 - k + 1]
      PROVE  \/ op = "read" /\ k = 4
             \/ op = "e1" /\ k = 3
             \/ op = "read" /\ k = 2
             \/ op = "e0" /\ k = 1
  BY <1>2 DEF DdrReadUnit
<1> QED
  BY <1>1, <1>2

LEMMA TodoShorter ==
  ASSUME todo \in Seq(Ops), NEW op, Doing(op)
  PROVE  /\ todo' \in Seq(Ops) /\ Len(todo) \in Nat \ {0} /\ Len(todo') = Len(todo) - 1
         /\ (todo' = <<>> <=> Len(todo) = 1) /\ todo # <<>>
<1>1. Len(todo) \in Nat \ {0} /\ todo' \in Seq(Ops) /\ Len(todo') = Len(todo) - 1
  BY DEF Doing
<1>2. todo' = <<>> <=> Len(todo') = 0
  BY <1>1, EmptySeq
<1> QED
  BY <1>1, <1>2 DEF Doing

LEMMA RestStarts ==
  ASSUME NEW CONSTANT ops \in Seq(Ops), todo' = ops
  PROVE  Rest(ops)'
BY DEF Rest

LEMMA RestNothing ==
  ASSUME NEW CONSTANT ops \in Seq(Ops), todo' = <<>>
  PROVE  Rest(ops)'
<1>1. Len(todo') = 0
  OBVIOUS
<1> QED
  BY <1>1 DEF Rest

LEMMA RestKept ==
  ASSUME NEW CONSTANT ops \in Seq(Ops), Rest(ops), todo' = todo
  PROVE  Rest(ops)'
BY DEF Rest

(***************************************************************************)
(* Where the next port operation stands: which sequence, and how much of   *)
(* it is left.                                                             *)
(***************************************************************************)
InBaseInit(op, k) ==
  /\ pc = "rx" /\ appState = "ID" /\ Rest(BaseInit)
  /\ \/ op = "rw0" /\ k = 5
     \/ op = "zero" /\ k = 4
     \/ op = "drive" /\ k = 3
     \/ op = "e0" /\ k = 2
     \/ op = "sdr" /\ k = 1

InEchoes(op, k) ==
  /\ pc = "dispatch" /\ appState = "SIZE" /\ Rest(Echoes)
  /\ \/ op = "id" /\ k = 2
     \/ op = "size" /\ k = 1

InWriteSetup(op, k) ==
  /\ pc = "loop" /\ Writing /\ Rest(WriteSetup) /\ e = 0 /\ n <= inBuffer.count
  /\ \/ op = "rw0" /\ k = 2
     \/ op = "drive" /\ k = 1 /\ rw = 0

InWriteUnit(op, k) ==
  /\ pc = "loop" /\ Writing /\ Rest(WriteUnit) /\ rw = 0 /\ dir = "out"
  /\ size > 0 /\ n > 1
  /\ \/ op = "data" /\ k = 4 /\ e = 0 /\ n <= inBuffer.count
     \/ op = "e1" /\ k = 3 /\ e = 0 /\ port \in Data /\ n <= inBuffer.count + 1
     \/ op = "data" /\ k = 2 /\ e = 1 /\ n <= inBuffer.count + 1
     \/ op = "e0" /\ k = 1 /\ e = 1 /\ port \in Data /\ n <= inBuffer.count + 2

InSdrReadUnit(op, k) ==
  /\ pc = "loop" /\ appState = "SDR_RD" /\ Rest(SdrReadUnit) /\ size > 0 /\ n > 0
  /\ \/ /\ n <= inBuffer.count /\ e = 0
        /\ \/ op = "rw0" /\ k = 8
           \/ op = "drive" /\ k = 7 /\ rw = 0
           \/ op = "data" /\ k = 6 /\ rw = 0 /\ dir = "out"
     \/ /\ n <= inBuffer.count + 1
        /\ \/ /\ op = "e1" /\ k = 5 /\ e = 0 /\ rw = 0 /\ dir = "out"
              /\ port \in Data
           \/ op = "input" /\ k = 4 /\ e = 1 /\ rw = 0 /\ dir = "out"
           \/ op = "rw1" /\ k = 3 /\ e = 1 /\ rw = 0 /\ dir = "in"
           \/ op = "e0" /\ k = 2 /\ e = 1 /\ rw = 1 /\ dir = "in"
           \/ op = "read" /\ k = 1 /\ e = 0 /\ rw = 1 /\ dir = "in"

InDdrReadSetup(op, k) ==
  /\ pc = "loop" /\ appState = "DDR_RD" /\ Rest(DdrReadSetup) /\ e = 0
  /\ \/ op = "input" /\ k = 2
     \/ op = "rw1" /\ k = 1 /\ dir = "in"

InDdrReadUnit(op, k) ==
  /\ pc = "loop" /\ appState = "DDR_RD" /\ Rest(DdrReadUnit) /\ dir = "in" /\ rw = 1
  /\ size > 0
  /\ \/ op = "read" /\ k = 4 /\ e = 0
     \/ op = "e1" /\ k = 3 /\ e = 0
     \/ op = "read" /\ k = 2 /\ e = 1
     \/ op = "e0" /\ k = 1 /\ e = 1

LEMMA Places ==
  ASSUME IInv, NEW k \in Nat, k = Len(todo), todo # <<>>, NEW op, op = Head(todo)
  PROVE  /\ mode = "app"
         /\ \/ InBaseInit(op, k) \/ InEchoes(op, k) \/ InWriteSetup(op, k) \/ InWriteUnit(op, k)
            \/ InSdrReadUnit(op, k) \/ InDdrReadSetup(op, k) \/ InDdrReadUnit(op, k)
<1>1. todo \in Seq(Ops) /\ todo # <<>> /\ k # 0
  BY EmptySeq DEF IInv, TypeOK
<1>2. mode = "app"
  BY <1>1 DEF IInv, OutsideOK, TypeOK
<1>3. inBuffer.count \in Nat /\ n \in Nat /\ size \in Nat
  BY DEF IInv, TypeOK, RingBuffers
<1>4. CASE pc # "loop"
  <2>1. pc \in {"rx", "dispatch"}
    BY <1>1, <1>4 DEF IInv, OutsideOK
  <2>2. CASE pc = "rx"
    <3>1. Rest(BaseInit) /\ appState = "ID"
      BY <1>1, <1>4, <2>2 DEF IInv, OutsideOK
    <3>2. InBaseInit(op, k)
      BY <1>1, <2>2, <3>1, BaseInitOp DEF InBaseInit
    <3> QED
      BY <1>2, <3>2
  <2>3. CASE pc = "dispatch"
    <3>1. Rest(Echoes) /\ appState = "SIZE"
      BY <1>1, <1>4, <2>3 DEF IInv, OutsideOK
    <3>2. InEchoes(op, k)
      BY <1>1, <2>3, <3>1, EchoesOp DEF InEchoes
    <3> QED
      BY <1>2, <3>2
  <2> QED
    BY <2>1, <2>2, <2>3
<1>5. CASE pc = "loop" /\ Writing
  <2>1. CASE Rest(WriteSetup) /\ e = 0 /\ n <= inBuffer.count /\ (k = 1 => rw = 0)
    <3>1. InWriteSetup(op, k)
      BY <1>1, <1>5, <2>1, WriteSetupOp DEF InWriteSetup
    <3> QED
      BY <1>2, <3>1
  <2>2. CASE /\ Rest(WriteUnit) /\ rw = 0 /\ dir = "out"
             /\ k \in {0, 3, 4} => e = 0
             /\ k \in {1, 2} => e = 1
             /\ k \in {1, 3} => port \in Data
             /\ todo # <<>> => size > 0 /\ n > 1
             /\ n <= inBuffer.count + 2
             /\ k # 1 => n <= inBuffer.count + 1
             /\ k \in {0, 4} => n <= inBuffer.count
    <3>1. \/ op = "data" /\ k = 4
          \/ op = "e1" /\ k = 3
          \/ op = "data" /\ k = 2
          \/ op = "e0" /\ k = 1
      BY <1>1, <2>2, WriteUnitOp
    <3>2. InWriteUnit(op, k)
      BY <1>1, <1>3, <1>5, <2>2, <3>1 DEF InWriteUnit
    <3> QED
      BY <1>2, <3>2
  <2> QED
    BY <1>5, <2>1, <2>2 DEF IInv, WritingOK
<1>6. CASE pc = "loop" /\ appState = "SDR_RD"
  <2>1. /\ Rest(SdrReadUnit) /\ size > 0 /\ n > 0
        /\ k \in {0, 1, 5, 6, 7, 8} => e = 0
        /\ k \in {2, 3, 4} => e = 1
        /\ k \in {3, 4, 5, 6, 7} => rw = 0
        /\ k \in {1, 2} => rw = 1
        /\ k \in {4, 5, 6} => dir = "out"
        /\ k \in {1, 2, 3} => dir = "in"
        /\ k = 5 => port \in Data
        /\ n <= inBuffer.count + 1
        /\ k \in {0, 6, 7, 8} => n <= inBuffer.count
    BY <1>1, <1>6 DEF IInv, SdrReadOK
  <2>2. \/ op = "rw0" /\ k = 8
        \/ op = "drive" /\ k = 7
        \/ op = "data" /\ k = 6
        \/ op = "e1" /\ k = 5
        \/ op = "input" /\ k = 4
        \/ op = "rw1" /\ k = 3
        \/ op = "e0" /\ k = 2
        \/ op = "read" /\ k = 1
    BY <1>1, <2>1, SdrReadUnitOp
  <2>3. InSdrReadUnit(op, k)
    BY <1>3, <1>6, <2>1, <2>2 DEF InSdrReadUnit
  <2> QED
    BY <1>2, <2>3
<1>7. CASE pc = "loop" /\ appState = "DDR_RD"
  <2>1. CASE Rest(DdrReadSetup) /\ e = 0 /\ (k = 1 => dir = "in")
    <3>1. InDdrReadSetup(op, k)
      BY <1>1, <1>7, <2>1, DdrReadSetupOp DEF InDdrReadSetup
    <3> QED
      BY <1>2, <3>1
  <2>2. CASE /\ Rest(DdrReadUnit) /\ dir = "in" /\ rw = 1
             /\ k \in {0, 3, 4} => e = 0
             /\ k \in {1, 2} => e = 1
             /\ todo # <<>> => size > 0
    <3>1. \/ op = "read" /\ k = 4
          \/ op = "e1" /\ k = 3
          \/ op = "read" /\ k = 2
          \/ op = "e0" /\ k = 1
      BY <1>1, <2>2, DdrReadUnitOp
    <3>2. InDdrReadUnit(op, k)
      BY <1>1, <1>7, <2>2, <3>1 DEF InDdrReadUnit
    <3> QED
      BY <1>2, <3>2
  <2> QED
    BY <1>7, <2>1, <2>2 DEF IInv, DdrReadOK
<1> QED
  BY <1>4, <1>5, <1>6, <1>7 DEF IInv, PacketOK, Writing, Reading

(* A byte is taken from the buffer only where one is left. *)
LEMMA DataThere ==
  ASSUME IInv, todo # <<>>, Head(todo) = "data"
  PROVE  inBuffer.count > 0
<1>1. Len(todo) \in Nat /\ inBuffer.count \in Nat /\ n \in Nat
  BY DEF IInv, TypeOK, RingBuffers
<1>2. PICK k \in Nat : k = Len(todo)
  BY <1>1
<1>3. \/ InBaseInit("data", k) \/ InEchoes("data", k) \/ InWriteSetup("data", k)
      \/ InWriteUnit("data", k) \/ InSdrReadUnit("data", k) \/ InDdrReadSetup("data", k)
      \/ InDdrReadUnit("data", k)
  BY <1>2, Places
<1>4. InWriteUnit("data", k) \/ InSdrReadUnit("data", k)
  BY <1>3 DEF InBaseInit, InEchoes, InWriteSetup, InDdrReadSetup, InDdrReadUnit
<1>5. CASE InWriteUnit("data", k)
  BY <1>1, <1>5 DEF InWriteUnit
<1>6. CASE InSdrReadUnit("data", k)
  BY <1>1, <1>6 DEF InSdrReadUnit
<1> QED
  BY <1>4, <1>5, <1>6

(***************************************************************************)
(* What one port operation does.                                           *)
(***************************************************************************)
PortOp == Direction \/ PutByte \/ Strobe \/ Answer

Effects(op, k) ==
  /\ mode' = mode /\ pc' = pc /\ id' = id /\ appState' = appState /\ on' = on
  /\ usb' = usb /\ ep' = ep /\ hostQ' = hostQ
  /\ op = "e1" => e' = 1
  /\ op = "e0" => e' = 0
  /\ op \notin {"e0", "e1"} => e' = e /\ address' = address /\ written' = written
  /\ op = "rw0" => rw' = 0
  /\ op = "rw1" => rw' = 1
  /\ op \notin {"rw0", "rw1"} => rw' = rw
  /\ op = "drive" => dir' = "out"
  /\ op = "input" => dir' = "in"
  /\ op \notin {"drive", "input"} => dir' = dir
  /\ op = "sdr" => ddr' = 0
  /\ op # "sdr" => ddr' = ddr
  /\ op = "data" => port' = Peek(inBuffer) /\ inBuffer' = Remove(inBuffer)
  /\ op # "data" => inBuffer' = inBuffer
  /\ op = "zero" => port' = 0
  /\ op \notin {"zero", "data"} => port' = port
  /\ pc = "loop" /\ k = 1 /\ op \in {"e0", "e1", "id", "size", "read"} =>
       /\ size' = size - 1
       /\ Writing => n' = n - 2
       /\ appState = "SDR_RD" => n' = n - 1
       /\ appState = "DDR_RD" => n' = n
  /\ pc # "loop" \/ k # 1 \/ op \notin {"e0", "e1", "id", "size", "read"} =>
       size' = size /\ n' = n

LEMMA OpEffects ==
  ASSUME PortOp, NEW k, k = Len(todo)
  PROVE  \E op : Doing(op) /\ Effects(op, k)
<1>1. CASE Direction
  <2>1. PICK op \in {"drive", "input", "rw0", "rw1", "sdr"} :
          /\ Doing(op)
          /\ op = "rw0" => rw' = 0
          /\ op = "rw1" => rw' = 1
          /\ op \notin {"rw0", "rw1"} => rw' = rw
          /\ op = "drive" => dir' = "out"
          /\ op = "input" => dir' = "in"
          /\ op \notin {"drive", "input"} => dir' = dir
          /\ op = "sdr" => ddr' = 0
          /\ op # "sdr" => ddr' = ddr
    BY <1>1 DEF Direction
  <2>2. Effects(op, k)
    BY <1>1, <2>1 DEF Direction, Effects, cpuVars, fpgaVars, usbVars, hostVars
  <2> QED
    BY <2>1, <2>2
<1>2. CASE PutByte
  <2>1. PICK op \in {"data", "zero"} :
          /\ Doing(op)
          /\ op = "data" => port' = Peek(inBuffer) /\ inBuffer' = Remove(inBuffer)
          /\ op = "zero" => port' = 0 /\ inBuffer' = inBuffer
    BY <1>2 DEF PutByte
  <2>2. Effects(op, k)
    BY <1>2, <2>1 DEF PutByte, Effects, fpgaVars, usbVars, hostVars
  <2> QED
    BY <2>1, <2>2
<1>3. CASE Strobe
  <2>1. PICK op \in {"e0", "e1"} :
          Doing(op) /\ (op = "e1" => e' = 1) /\ (op = "e0" => e' = 0)
    BY <1>3 DEF Strobe
  <2>2. Effects(op, k)
    BY <1>3, <2>1 DEF Strobe, CountDown, Effects, usbVars, hostVars, Writing
  <2> QED
    BY <2>1, <2>2
<1>4. CASE Answer
  <2>1. PICK op \in {"id", "size", "read"} : Doing(op)
    BY <1>4 DEF Answer
  <2>2. Effects(op, k)
    BY <1>4, <2>1 DEF Answer, CountDown, Effects, pinVars, fpgaVars, Writing
  <2> QED
    BY <2>1, <2>2
<1> QED
  BY <1>1, <1>2, <1>3, <1>4 DEF PortOp

(* Taking a byte keeps the buffer sound, and the byte is one of Data. *)
LEMMA TakesByte ==
  ASSUME NEW b, Sound(b), b.count > 0
  PROVE  Peek(b) \in Data /\ Sound(Remove(b)) /\ Remove(b).count = b.count - 1
<1>1. Peek(b) \in Data
  BY RingAssumption DEF Sound, RingBuffers, Peek
<1>2. Remove(b).count = b.count - 1
  BY DEF Remove
<1> QED
  BY <1>1, <1>2, RemoveTakesHead

LEMMA OpFacts ==
  ASSUME IInv, NEW k \in Nat, k = Len(todo), NEW op, Doing(op), Effects(op, k)
  PROVE  /\ k > 0 /\ todo' \in Seq(Ops) /\ Len(todo') = k - 1
         /\ todo' = <<>> <=> k = 1
         /\ Sound(inBuffer') /\ inBuffer.count \in Nat /\ inBuffer'.count \in Nat
         /\ op = "data" => inBuffer'.count = inBuffer.count - 1 /\ port' \in Data
         /\ op # "data" => inBuffer'.count = inBuffer.count
         /\ n \in Nat /\ size \in Nat /\ mode = "app" /\ on
<1>0. todo \in Seq(Ops)
  BY DEF IInv, TypeOK
<1>1. k > 0 /\ todo' \in Seq(Ops) /\ Len(todo') = k - 1 /\ (todo' = <<>> <=> k = 1) /\ todo # <<>>
  BY <1>0, TodoShorter
<1>2. Sound(inBuffer) /\ inBuffer.count \in Nat /\ n \in Nat /\ size \in Nat
  BY DEF IInv, TypeOK, RingBuffers
<1>3. op = "data" => inBuffer.count > 0
  BY <1>1, DataThere DEF Doing
<1>4. Sound(inBuffer') /\ (op = "data" => inBuffer'.count = inBuffer.count - 1 /\ port' \in Data)
  BY <1>2, <1>3, TakesByte DEF Effects
<1>5. inBuffer'.count \in Nat
  BY <1>4 DEF Sound, RingBuffers
<1>6. mode = "app" /\ on
  BY <1>1, Places DEF Doing, IInv
<1> QED
  BY <1>1, <1>2, <1>4, <1>5, <1>6 DEF Effects

(***************************************************************************)
(* A port operation keeps the invariant about the pins and the count, in   *)
(* each of the sequences.                                                  *)
(***************************************************************************)
PlaceOK == OutsideOK /\ WritingOK /\ SdrReadOK /\ DdrReadOK /\ NoContention

LEMMA BaseInitStep ==
  ASSUME IInv, NEW k \in Nat, k = Len(todo), NEW op, Doing(op), Effects(op, k),
         InBaseInit(op, k)
  PROVE  PlaceOK'
<1>1. Rest(BaseInit)'
  BY Sequences, RestGoesOn DEF InBaseInit, IInv, TypeOK
<1>2. /\ pc' = "rx" /\ appState' = "ID" /\ mode' = "app" /\ e = 0 /\ (k \in {1, 2, 3, 4} => rw = 0)
      /\ Len(todo') = k - 1 /\ todo' \in Seq(Ops)
  BY OpFacts, TodoShorter DEF InBaseInit, Effects, IInv, OutsideOK
<1>3. e' = 0
  BY <1>2 DEF InBaseInit, Effects
<1>4. Len(todo') \in {1, 2, 3, 4} => rw' = 0
  BY <1>2 DEF InBaseInit, Effects
<1>5. OutsideOK'
  BY <1>1, <1>2, <1>3, <1>4 DEF OutsideOK
<1>6. NoContention'
  <2>1. k = 5 \/ k \in {1, 2, 3, 4}
    BY DEF InBaseInit
  <2>2. rw' = 0
    BY <1>2, <2>1 DEF InBaseInit, Effects
  <2> QED
    BY <2>2 DEF NoContention
<1> QED
  BY <1>2, <1>5, <1>6 DEF PlaceOK, WritingOK, SdrReadOK, DdrReadOK

LEMMA EchoesStep ==
  ASSUME IInv, NEW k \in Nat, k = Len(todo), NEW op, Doing(op), Effects(op, k),
         InEchoes(op, k)
  PROVE  PlaceOK'
<1>1. Rest(Echoes)'
  BY Sequences, RestGoesOn DEF InEchoes, IInv, TypeOK
<1>2. /\ pc' = "dispatch" /\ appState' = "SIZE" /\ e = 0 /\ size \in Data
  BY DEF InEchoes, Effects, IInv, OutsideOK
<1>3. e' = 0 /\ size' \in Data /\ rw' = rw /\ dir' = dir /\ mode' = mode /\ on' = on
      /\ mode = "app"
  BY <1>2, OpFacts DEF InEchoes, Effects
<1>4. OutsideOK'
  BY <1>1, <1>2, <1>3 DEF OutsideOK
<1>5. NoContention'
  BY <1>3 DEF NoContention, IInv
<1> QED
  BY <1>2, <1>4, <1>5 DEF PlaceOK, WritingOK, SdrReadOK, DdrReadOK

LEMMA WriteSetupStep ==
  ASSUME IInv, NEW k \in Nat, k = Len(todo), NEW op, Doing(op), Effects(op, k),
         InWriteSetup(op, k)
  PROVE  PlaceOK'
<1>1. Rest(WriteSetup)'
  BY Sequences, RestGoesOn DEF InWriteSetup, IInv, TypeOK
<1>2. /\ pc' = "loop" /\ Writing' /\ e' = 0 /\ n' = n /\ inBuffer' = inBuffer /\ rw' = 0
      /\ n \in Nat /\ inBuffer.count \in Nat
      /\ n' <= inBuffer'.count /\ Len(todo') = k - 1 /\ todo' \in Seq(Ops)
      /\ todo' = <<>> <=> k = 1
  BY OpFacts DEF InWriteSetup, Effects, Writing
<1>3. CASE k = 2
  <2>1. todo' # <<>>
    BY <1>2, <1>3
  <2> QED
    BY <1>1, <1>2, <1>3, <2>1 DEF PlaceOK, OutsideOK, WritingOK, SdrReadOK, DdrReadOK,
      NoContention, Writing
<1>4. CASE k = 1
  <2>1. todo' = <<>> /\ dir' = "out" /\ Len(todo') = 0
    BY <1>2, <1>4 DEF InWriteSetup, Effects
  <2>2. Rest(WriteUnit)'
    BY <2>1, RestNothing, Sequences
  <2>3. 0 \notin {1, 2} /\ 0 \notin {1, 3} /\ n' <= inBuffer'.count + 1 /\ n' <= inBuffer'.count + 2
    BY <1>2
  <2>4. WritingOK'
    BY <1>2, <2>1, <2>2, <2>3 DEF WritingOK
  <2> QED
    BY <1>2, <2>4 DEF PlaceOK, OutsideOK, SdrReadOK, DdrReadOK, NoContention, Writing
<1> QED
  BY <1>3, <1>4 DEF InWriteSetup

LEMMA WriteUnitStep ==
  ASSUME IInv, NEW k \in Nat, k = Len(todo), NEW op, Doing(op), Effects(op, k),
         InWriteUnit(op, k)
  PROVE  PlaceOK'
<1>1. Rest(WriteUnit)'
  BY Sequences, RestGoesOn DEF InWriteUnit, IInv, TypeOK
<1>2. /\ pc' = "loop" /\ Writing' /\ rw' = 0 /\ dir' = "out"
      /\ n \in Nat /\ inBuffer.count \in Nat /\ Len(todo') = k - 1 /\ todo' \in Seq(Ops)
      /\ todo' = <<>> <=> k = 1
  BY OpFacts DEF InWriteUnit, Effects, Writing
<1>3. WritingOK'
  <2>1. CASE k = 4
    <3>1. /\ op = "data" /\ e' = 0 /\ port' \in Data /\ n' = n /\ size' = size
          /\ inBuffer'.count = inBuffer.count - 1 /\ n <= inBuffer.count
          /\ size > 0 /\ n > 1
      BY <2>1, OpFacts DEF InWriteUnit, Effects
    <3> QED
      BY <1>1, <1>2, <2>1, <3>1 DEF WritingOK
  <2>2. CASE k = 3
    <3>1. /\ op = "e1" /\ e' = 1 /\ n' = n /\ size' = size
          /\ inBuffer'.count = inBuffer.count /\ n <= inBuffer.count + 1
          /\ size > 0 /\ n > 1
      BY <2>2, OpFacts DEF InWriteUnit, Effects
    <3> QED
      BY <1>1, <1>2, <2>2, <3>1 DEF WritingOK
  <2>3. CASE k = 2
    <3>1. /\ op = "data" /\ e' = 1 /\ port' \in Data /\ n' = n /\ size' = size
          /\ inBuffer'.count = inBuffer.count - 1 /\ n <= inBuffer.count + 1
          /\ size > 0 /\ n > 1
      BY <2>3, OpFacts DEF InWriteUnit, Effects
    <3> QED
      BY <1>1, <1>2, <2>3, <3>1 DEF WritingOK
  <2>4. CASE k = 1
    <3>1. /\ op = "e0" /\ e' = 0 /\ n' = n - 2
          /\ inBuffer'.count = inBuffer.count /\ n <= inBuffer.count + 2
          /\ size > 0 /\ n > 1
      BY <2>4, OpFacts DEF InWriteUnit, Effects
    <3> QED
      BY <1>1, <1>2, <2>4, <3>1 DEF WritingOK
  <2> QED
    BY <2>1, <2>2, <2>3, <2>4 DEF InWriteUnit
<1> QED
  BY <1>2, <1>3 DEF PlaceOK, OutsideOK, SdrReadOK, DdrReadOK, NoContention, Writing

LEMMA SdrReadUnitPins ==
  ASSUME NEW k \in Nat, NEW op, Effects(op, k), InSdrReadUnit(op, k), n \in Nat,
         inBuffer.count \in Nat, inBuffer'.count \in Nat,
         op = "data" => inBuffer'.count = inBuffer.count - 1 /\ port' \in Data,
         op # "data" => inBuffer'.count = inBuffer.count,
         NEW j \in Nat, k = j + 1
  PROVE  /\ j \in {0, 1, 5, 6, 7, 8} => e' = 0
         /\ j \in {2, 3, 4} => e' = 1
         /\ j \in {3, 4, 5, 6, 7} => rw' = 0
         /\ j \in {1, 2} => rw' = 1
         /\ j \in {4, 5, 6} => dir' = "out"
         /\ j \in {1, 2, 3} => dir' = "in"
         /\ ~(rw' = 1 /\ dir' = "out")
         /\ j = 5 => port' \in Data
         /\ j # 0 => size' > 0 /\ n' > 0
         /\ n' <= inBuffer'.count + 1
         /\ j \in {0, 6, 7, 8} => n' <= inBuffer'.count
<1>1. (j \in {0, 1, 5, 6, 7, 8} => e' = 0) /\ (j \in {2, 3, 4} => e' = 1)
  BY DEF InSdrReadUnit, Effects
<1>2. (j \in {3, 4, 5, 6, 7} => rw' = 0) /\ (j \in {1, 2} => rw' = 1)
  BY DEF InSdrReadUnit, Effects
<1>3. (j \in {4, 5, 6} => dir' = "out") /\ (j \in {1, 2, 3} => dir' = "in")
      /\ ~(rw' = 1 /\ dir' = "out")
  BY DEF InSdrReadUnit, Effects
<1>4. j = 5 => port' \in Data
  BY DEF InSdrReadUnit
<1>5. /\ j # 0 => size' = size /\ n' = n
      /\ j = 0 => n' = n - 1
  BY DEF InSdrReadUnit, Effects
<1>6. size > 0 /\ n > 0
  BY DEF InSdrReadUnit
<1>7. /\ n' <= inBuffer'.count + 1
      /\ j \in {0, 6, 7, 8} => n' <= inBuffer'.count
  BY <1>5 DEF InSdrReadUnit
<1> QED
  BY <1>1, <1>2, <1>3, <1>4, <1>5, <1>6, <1>7

LEMMA SdrReadUnitStep ==
  ASSUME IInv, NEW k \in Nat, k = Len(todo), NEW op, Doing(op), Effects(op, k),
         InSdrReadUnit(op, k)
  PROVE  PlaceOK'
<1>1. Rest(SdrReadUnit)'
  BY Sequences, RestGoesOn DEF InSdrReadUnit, IInv, TypeOK
<1>2. /\ pc' = "loop" /\ appState' = "SDR_RD" /\ mode' = mode /\ on' = on
      /\ n \in Nat /\ inBuffer.count \in Nat /\ Len(todo') = k - 1 /\ todo' \in Seq(Ops)
      /\ todo' = <<>> <=> k = 1
      /\ size > 0 /\ n > 0
  BY OpFacts DEF InSdrReadUnit, Effects
<1>3. inBuffer'.count = IF op = "data" THEN inBuffer.count - 1 ELSE inBuffer.count
  BY OpFacts
<1>4. op = "data" => port' \in Data
  BY OpFacts
<1>5. inBuffer'.count \in Nat
  BY OpFacts
<1>6. PICK j \in Nat : j = Len(todo') /\ j = k - 1
  BY <1>2
<1>7. /\ j \in {0, 1, 5, 6, 7, 8} => e' = 0
      /\ j \in {2, 3, 4} => e' = 1
      /\ j \in {3, 4, 5, 6, 7} => rw' = 0
      /\ j \in {1, 2} => rw' = 1
      /\ j \in {4, 5, 6} => dir' = "out"
      /\ j \in {1, 2, 3} => dir' = "in"
      /\ j = 5 => port' \in Data
      /\ todo' # <<>> => size' > 0 /\ n' > 0
      /\ n' <= inBuffer'.count + 1
      /\ j \in {0, 6, 7, 8} => n' <= inBuffer'.count
      /\ ~(rw' = 1 /\ dir' = "out")
  <2>1. op = "data" => inBuffer'.count = inBuffer.count - 1 /\ port' \in Data
    BY <1>3, <1>4
  <2>2. op # "data" => inBuffer'.count = inBuffer.count
    BY <1>3
  <2>3. k = j + 1 /\ (todo' # <<>> <=> j # 0)
    BY <1>2, <1>6
  <2> QED
    BY <1>2, <1>5, <1>6, <2>1, <2>2, <2>3, SdrReadUnitPins
<1>8. SdrReadOK'
  BY <1>1, <1>6, <1>7 DEF SdrReadOK
<1>9. NoContention'
  BY <1>7 DEF NoContention
<1> QED
  BY <1>2, <1>8, <1>9 DEF PlaceOK, OutsideOK, WritingOK, DdrReadOK, Writing

LEMMA DdrReadSetupStep ==
  ASSUME IInv, NEW k \in Nat, k = Len(todo), NEW op, Doing(op), Effects(op, k),
         InDdrReadSetup(op, k)
  PROVE  PlaceOK'
<1>1. Rest(DdrReadSetup)'
  BY Sequences, RestGoesOn DEF InDdrReadSetup, IInv, TypeOK
<1>2. /\ pc' = "loop" /\ appState' = "DDR_RD" /\ e' = 0 /\ dir' = "in"
      /\ Len(todo') = k - 1 /\ todo' \in Seq(Ops)
      /\ todo' = <<>> <=> k = 1
  BY OpFacts DEF InDdrReadSetup, Effects
<1>3. CASE k = 2
  BY <1>1, <1>2, <1>3 DEF PlaceOK, OutsideOK, WritingOK, SdrReadOK, DdrReadOK, NoContention,
    Writing
<1>4. CASE k = 1
  <2>1. todo' = <<>> /\ rw' = 1 /\ Len(todo') = 0
    BY <1>2, <1>4 DEF InDdrReadSetup, Effects
  <2>2. Rest(DdrReadUnit)'
    BY <2>1, RestNothing, Sequences
  <2>3. PICK j \in Nat : j = Len(todo') /\ j = 0
    BY <2>1
  <2>4. ASSUME NEW i \in Nat, i = 0 PROVE i \notin {1, 2}
    BY <2>4
  <2>5. DdrReadOK'
    BY <1>2, <2>1, <2>2, <2>3, <2>4 DEF DdrReadOK
  <2> QED
    BY <1>2, <2>5 DEF PlaceOK, OutsideOK, WritingOK, SdrReadOK, NoContention, Writing
<1> QED
  BY <1>3, <1>4 DEF InDdrReadSetup

LEMMA DdrReadUnitPins ==
  ASSUME NEW k \in Nat, NEW op, Effects(op, k), InDdrReadUnit(op, k),
         NEW j \in Nat, k = j + 1
  PROVE  /\ j \in {0, 3, 4} => e' = 0
         /\ j \in {1, 2} => e' = 1
         /\ j # 0 => size' > 0
<1>1. (j \in {0, 3, 4} => e' = 0) /\ (j \in {1, 2} => e' = 1)
  BY DEF InDdrReadUnit, Effects
<1>2. j # 0 => size' = size
  BY DEF InDdrReadUnit, Effects
<1>3. size > 0
  BY DEF InDdrReadUnit
<1> QED
  BY <1>1, <1>2, <1>3

LEMMA DdrReadUnitStep ==
  ASSUME IInv, NEW k \in Nat, k = Len(todo), NEW op, Doing(op), Effects(op, k),
         InDdrReadUnit(op, k)
  PROVE  PlaceOK'
<1>1. Rest(DdrReadUnit)'
  BY Sequences, RestGoesOn DEF InDdrReadUnit, IInv, TypeOK
<1>2. /\ pc' = "loop" /\ appState' = "DDR_RD" /\ dir' = "in" /\ rw' = 1
      /\ Len(todo') = k - 1 /\ todo' \in Seq(Ops)
      /\ todo' = <<>> <=> k = 1
      /\ size > 0
  BY OpFacts DEF InDdrReadUnit, Effects
<1>3. PICK j \in Nat : j = Len(todo') /\ k = j + 1 /\ (todo' # <<>> <=> j # 0)
  BY <1>2
<1>4. DdrReadOK'
  <2>1. /\ j \in {0, 3, 4} => e' = 0
        /\ j \in {1, 2} => e' = 1
        /\ todo' # <<>> => size' > 0
    BY <1>3, DdrReadUnitPins
  <2> QED
    BY <1>1, <1>2, <1>3, <2>1 DEF DdrReadOK
<1> QED
  BY <1>2, <1>4 DEF PlaceOK, OutsideOK, WritingOK, SdrReadOK, NoContention, Writing

LEMMA PlacesKept ==
  ASSUME IInv, NEW k \in Nat, k = Len(todo), NEW op, Doing(op), Effects(op, k)
  PROVE  PlaceOK'
<1>1. todo # <<>> /\ op = Head(todo)
  BY DEF Doing
<1>2. \/ InBaseInit(op, k) \/ InEchoes(op, k) \/ InWriteSetup(op, k) \/ InWriteUnit(op, k)
      \/ InSdrReadUnit(op, k) \/ InDdrReadSetup(op, k) \/ InDdrReadUnit(op, k)
  BY <1>1, Places
<1> QED
  BY <1>2, BaseInitStep, EchoesStep, WriteSetupStep, WriteUnitStep, SdrReadUnitStep,
     DdrReadSetupStep, DdrReadUnitStep

(* The clear of DDRB's mode bit belongs to ucifBaseInit, before any packet. *)
LEMMA PacketKept ==
  ASSUME IInv, NEW k \in Nat, k = Len(todo), NEW op, Doing(op), Effects(op, k)
  PROVE  PacketOK'
<1>1. todo # <<>> /\ op = Head(todo)
  BY DEF Doing
<1>2. \/ InBaseInit(op, k) \/ InEchoes(op, k) \/ InWriteSetup(op, k) \/ InWriteUnit(op, k)
      \/ InSdrReadUnit(op, k) \/ InDdrReadSetup(op, k) \/ InDdrReadUnit(op, k)
  BY <1>1, Places
<1>3. op = "sdr" => appState = "ID"
  BY <1>2 DEF InBaseInit, InEchoes, InWriteSetup, InWriteUnit, InSdrReadUnit, InDdrReadSetup,
    InDdrReadUnit
<1>4. /\ pc' = pc /\ id' = id /\ appState' = appState
      /\ op # "sdr" => ddr' = ddr
  BY DEF Effects
<1>5. PacketOK
  BY DEF IInv
<1> QED
  BY <1>3, <1>4, <1>5 DEF PacketOK, Writing, Reading

LEMMA CountsTyped ==
  ASSUME IInv, NEW k \in Nat, k = Len(todo), NEW op, Doing(op), Effects(op, k)
  PROVE  size' \in Nat /\ n' \in Nat
<1>1. todo # <<>> /\ op = Head(todo) /\ n \in Nat /\ size \in Nat
  BY DEF Doing, IInv, TypeOK
<1>2. \/ InBaseInit(op, k) \/ InEchoes(op, k) \/ InWriteSetup(op, k) \/ InWriteUnit(op, k)
      \/ InSdrReadUnit(op, k) \/ InDdrReadSetup(op, k) \/ InDdrReadUnit(op, k)
  BY <1>1, Places
<1>3. CASE InBaseInit(op, k)
  BY <1>1, <1>3 DEF InBaseInit, Effects
<1>4. CASE InEchoes(op, k)
  BY <1>1, <1>4 DEF InEchoes, Effects
<1>5. CASE InWriteSetup(op, k)
  BY <1>1, <1>5 DEF InWriteSetup, Effects
<1>6. CASE InWriteUnit(op, k)
  <2>1. n' \in {n, n - 2} /\ size' \in {size, size - 1}
    BY <1>6 DEF InWriteUnit, Effects
  <2> QED
    BY <1>1, <1>6, <2>1 DEF InWriteUnit
<1>7. CASE InSdrReadUnit(op, k)
  BY <1>1, <1>7 DEF InSdrReadUnit, Effects
<1>8. CASE InDdrReadSetup(op, k)
  BY <1>1, <1>8 DEF InDdrReadSetup, Effects
<1>9. CASE InDdrReadUnit(op, k)
  BY <1>1, <1>9 DEF InDdrReadUnit, Effects, Writing
<1> QED
  BY <1>2, <1>3, <1>4, <1>5, <1>6, <1>7, <1>8, <1>9

(* What the logic takes from the bus, and what goes to the host, is bytes. *)
LEMMA LogicTyped ==
  ASSUME TypeOK, PortOp
  PROVE  address' \in Nat /\ written' \in Seq(Seq(Nat))
<1>1. Bus \in Nat
  BY CodeAssumption DEF Bus, TypeOK
<1>2. address \in Nat /\ written \in Seq(Seq(Nat))
  BY DEF TypeOK
<1>3. Append(written, <<address, Bus>>) \in Seq(Seq(Nat)) /\ Append(written, <<Bus>>) \in Seq(Seq(Nat))
  <2>1. <<address, Bus>> \in Seq(Nat) /\ <<Bus>> \in Seq(Nat)
    BY <1>1, <1>2
  <2> QED
    BY <1>2, <2>1
<1>4. ASSUME NEW rising, Edge(rising) PROVE address' \in Nat /\ written' \in Seq(Seq(Nat))
  BY <1>1, <1>2, <1>3, <1>4 DEF Edge
<1>5. CASE Strobe
  BY <1>4, <1>5 DEF Strobe
<1>6. CASE ~Strobe
  BY <1>2, <1>6 DEF PortOp, Direction, PutByte, Answer, fpgaVars
<1> QED
  BY <1>5, <1>6

LEMMA AnswersTyped ==
  ASSUME TypeOK, PortOp
  PROVE  /\ answers' \in Seq({"echo", "register", "float"} \X Nat)
         /\ left' \in [packet : Nat, lost : Nat, drop : Nat]
<1>1. answers \in Seq({"echo", "register", "float"} \X Nat) /\ id \in Nat /\ size \in Nat
      /\ address \in Nat /\ left \in [packet : Nat, lost : Nat, drop : Nat]
  BY DEF TypeOK
<1>2. Value \in {"echo", "register", "float"} \X Nat
  BY <1>1, CodeAssumption DEF Value
<1>3. ASSUME NEW value \in {"echo", "register", "float"} \X Nat, SendByte(value)
      PROVE  /\ answers' \in Seq({"echo", "register", "float"} \X Nat)
             /\ left' \in [packet : Nat, lost : Nat, drop : Nat]
  <2>1. Append(answers, value) \in Seq({"echo", "register", "float"} \X Nat)
    BY <1>1
  <2>2. left.lost > 0 => [left EXCEPT !.lost = @ - 1] \in [packet : Nat, lost : Nat, drop : Nat]
    BY <1>1
  <2> QED
    BY <1>1, <1>3, <2>1, <2>2 DEF SendByte
<1>4. CASE Answer
  <2>1. <<"echo", id>> \in {"echo", "register", "float"} \X Nat
    BY <1>1
  <2>2. <<"echo", size>> \in {"echo", "register", "float"} \X Nat
    BY <1>1
  <2> QED
    BY <1>2, <1>3, <1>4, <2>1, <2>2 DEF Answer
<1>5. CASE ~Answer
  BY <1>1, <1>5 DEF PortOp, Direction, PutByte, Strobe, usbVars, hostVars
<1> QED
  BY <1>4, <1>5

(* A port operation keeps the inductive invariant. *)
LEMMA PortOpKeeps ==
  ASSUME IInv, PortOp
  PROVE  IInv'
<1>1. PICK k \in Nat : k = Len(todo)
  BY DEF IInv, TypeOK
<1>2. PICK op : Doing(op) /\ Effects(op, k)
  BY <1>1, OpEffects
<1>3. PlaceOK' /\ PacketOK'
  BY <1>1, <1>2, PlacesKept, PacketKept
<1>4. Sound(inBuffer') /\ todo' \in Seq(Ops) /\ mode = "app" /\ on
  BY <1>1, <1>2, OpFacts
<1>5. TypeOK'
  <2>1. size' \in Nat /\ n' \in Nat
    BY <1>1, <1>2, CountsTyped
  <2>2. address' \in Nat /\ written' \in Seq(Seq(Nat))
    BY LogicTyped DEF IInv
  <2>3. answers' \in Seq({"echo", "register", "float"} \X Nat)
        /\ left' \in [packet : Nat, lost : Nat, drop : Nat]
    BY AnswersTyped DEF IInv
  <2>4. inBuffer' \in RingBuffers
    BY <1>4 DEF Sound
  <2>5. port' \in Nat
    <3>1. op = "data" => port' \in Data
      BY <1>1, <1>2, OpFacts
    <3>2. op = "zero" => port' = 0
      BY <1>2 DEF Effects
    <3>3. op \notin {"zero", "data"} => port' = port
      BY <1>2 DEF Effects
    <3>4. port \in Nat
      BY DEF IInv, TypeOK
    <3> QED
      <4>1. Data \subseteq Nat
        BY CodeAssumption
      <4>2. CASE op = "data"
        BY <3>1, <4>1, <4>2, Zenon
      <4>3. CASE op = "zero"
        BY <3>2, <4>3, SMT
      <4>4. CASE op \notin {"zero", "data"}
        BY <3>3, <3>4, <4>4
      <4> QED
        BY <4>2, <4>3, <4>4
  <2>6. e' \in Pin /\ rw' \in Pin /\ ddr' \in Pin /\ dir' \in {"in", "out"}
    BY <1>2 DEF Effects, IInv, TypeOK, Pin
  <2> QED
    BY <1>2, <1>4, <2>1, <2>2, <2>3, <2>4, <2>5, <2>6 DEF Effects, IInv, TypeOK
<1>6. (mode' = "app" => on') /\ (mode' = "main" => pc' # "loop")
  BY <1>2, <1>4 DEF Effects
<1> QED
  BY <1>3, <1>4, <1>5, <1>6 DEF IInv, PlaceOK

(***************************************************************************)
(* The rest of the loop's steps, each of them between two sequences.       *)
(***************************************************************************)
LEMMA BetweenUnits ==
  ASSUME IInv, todo = <<>>, pc = "loop"
  PROVE  /\ e = 0 /\ (Writing \/ Reading)
         /\ Writing => rw = 0 /\ dir = "out" /\ n <= inBuffer.count
         /\ appState = "SDR_RD" => n <= inBuffer.count
         /\ appState = "DDR_RD" => rw = 1 /\ dir = "in"
<1>1. PICK k \in Nat : k = Len(todo) /\ k = 0
  <2>1. Len(todo) = 0
    OBVIOUS
  <2> QED
    BY <2>1
<1>2. Writing \/ Reading
  BY DEF IInv, PacketOK
<1>3. ASSUME Writing PROVE e = 0 /\ rw = 0 /\ dir = "out" /\ n <= inBuffer.count
  <2>1. /\ rw = 0 /\ dir = "out"
        /\ k \in {0, 3, 4} => e = 0
        /\ k \in {0, 4} => n <= inBuffer.count
    BY <1>1, <1>3 DEF IInv, WritingOK
  <2> QED
    BY <1>1, <2>1
<1>4. ASSUME appState = "SDR_RD" PROVE e = 0 /\ n <= inBuffer.count
  <2>1. /\ k \in {0, 1, 5, 6, 7, 8} => e = 0
        /\ k \in {0, 6, 7, 8} => n <= inBuffer.count
    BY <1>1, <1>4 DEF IInv, SdrReadOK
  <2> QED
    BY <1>1, <2>1
<1>5. ASSUME appState = "DDR_RD" PROVE e = 0 /\ rw = 1 /\ dir = "in"
  <2>1. rw = 1 /\ dir = "in" /\ (k \in {0, 3, 4} => e = 0)
    BY <1>1, <1>5 DEF IInv, DdrReadOK
  <2> QED
    BY <1>1, <2>1
<1> QED
  BY <1>2, <1>3, <1>4, <1>5 DEF Reading, Writing

LEMMA EmptyPlace ==
  ASSUME todo' = <<>>
  PROVE  /\ Len(todo') = 0 /\ todo' \in Seq(Ops)
         /\ Rest(BaseInit)' /\ Rest(Echoes)' /\ Rest(WriteUnit)'
         /\ Rest(SdrReadUnit)' /\ Rest(DdrReadUnit)'
         /\ Len(todo') \notin {1, 2, 3, 4}
<1>1. Len(todo') = 0
  OBVIOUS
<1>2. ASSUME NEW i \in Nat, i = 0 PROVE i \notin {1, 2, 3, 4}
  BY <1>2
<1> QED
  BY <1>1, <1>2, RestNothing, Sequences

LEMMA EnterKeeps ==
  ASSUME IInv, Enter
  PROVE  IInv'
<1>1. Rest(BaseInit)' /\ todo' \in Seq(Ops)
  BY Sequences, RestStarts DEF Enter
<1>2. PICK j \in Nat : j = Len(todo') /\ j = 5
  <2>1. Len(todo') = 5
    BY Sequences DEF Enter
  <2> QED
    BY <2>1
<1>3. Sound(inBuffer') /\ inBuffer' \in RingBuffers
  <2>1. inBuffer.data \in [0 .. Size - 1 -> Data]
    BY DEF IInv, TypeOK, RingBuffers
  <2> QED
    BY <2>1, InitEmpty DEF Enter, Sound
<1>4. e = 0
  BY DEF IInv, OutsideOK, Enter
<1>5. TypeOK'
  BY <1>1, <1>3 DEF IInv, TypeOK, Enter, pinVars, fpgaVars, usbVars, hostVars
<1>6. OutsideOK'
  <2>1. j \notin {1, 2, 3, 4}
    BY <1>2
  <2> QED
    BY <1>1, <1>2, <1>4, <2>1 DEF OutsideOK, Enter, pinVars
<1> QED
  BY <1>3, <1>5, <1>6 DEF IInv, Enter, NoContention, WritingOK, SdrReadOK, DdrReadOK, PacketOK,
    pinVars, fpgaVars

(* Receive: bytes are taken only as long as the buffer has room. *)
LEMMA ReceiveKeeps ==
  ASSUME IInv, Receive
  PROVE  IInv'
<1>1. todo' = <<>> /\ todo = <<>> /\ pc = "rx" /\ pc' \in {"switch", "insert"} /\ e' = 0
  BY DEF IInv, OutsideOK, Receive, At, pinVars
<1>2. /\ Size \in Nat /\ inBuffer.count \in Nat /\ inBuffer.count <= Size /\ Len(ep) \in Nat
  BY RingAssumption DEF IInv, TypeOK, Sound, RingBuffers
<1>3. n' \in Nat /\ n' <= Size - inBuffer.count
  BY <1>2 DEF Receive, Least, GetFreeCount, BytesReceived
<1>4. pc' = "insert" => n' > 0 /\ inBuffer'.count + n' <= Size
  BY <1>2, <1>3 DEF Receive
<1>5. TypeOK'
  BY <1>1, <1>3, EmptyPlace DEF IInv, TypeOK, Receive, pinVars, fpgaVars, usbVars, hostVars
<1>6. OutsideOK'
  BY <1>1, <1>4 DEF OutsideOK
<1>7. NoContention' /\ (mode' = "app" => on')
  BY DEF IInv, NoContention, Receive, pinVars, fpgaVars
<1> QED
  BY <1>1, <1>5, <1>6, <1>7 DEF IInv, Receive, WritingOK, SdrReadOK, DdrReadOK, PacketOK,
    pinVars, fpgaVars

LEMMA InsertByteKeeps ==
  ASSUME IInv, InsertByte
  PROVE  IInv'
<1>1. /\ todo' = <<>> /\ todo = <<>> /\ pc = "insert" /\ pc' \in {"switch", "insert"} /\ e' = 0
      /\ n > 0 /\ inBuffer.count + n <= Size
  BY DEF IInv, OutsideOK, InsertByte, At, pinVars
<1>2. Size \in Nat /\ inBuffer.count \in Nat /\ n \in Nat /\ Sound(inBuffer)
  BY RingAssumption DEF IInv, TypeOK, RingBuffers
<1>3. ReceivedByte \in Data /\ AfterReceive \in Seq(Data)
  BY CodeAssumption DEF ReceivedByte, AfterReceive, IInv, TypeOK
<1>4. Sound(inBuffer') /\ inBuffer'.count = inBuffer.count + 1
  <2>1. inBuffer.count < Size
    BY <1>1, <1>2
  <2>2. Sound(Insert(inBuffer, ReceivedByte))
    BY <1>2, <1>3, <2>1, InsertAppends
  <2>3. Insert(inBuffer, ReceivedByte).count = inBuffer.count + 1
    BY DEF Insert
  <2> QED
    BY <2>2, <2>3 DEF InsertByte
<1>5. n' \in Nat /\ (pc' = "insert" => n' > 0 /\ inBuffer'.count + n' <= Size)
  BY <1>1, <1>2, <1>4 DEF InsertByte
<1>6. TypeOK'
  <2>1. inBuffer' \in RingBuffers
    BY <1>4 DEF Sound
  <2>2. ep' \in Seq(Data)
    BY <1>3 DEF InsertByte
  <2> QED
    BY <1>1, <1>5, <2>1, <2>2, EmptyPlace DEF IInv, TypeOK, InsertByte, pinVars, fpgaVars,
      hostVars
<1>7. OutsideOK'
  BY <1>1, <1>5 DEF OutsideOK
<1>8. NoContention' /\ (mode' = "app" => on')
  BY DEF IInv, NoContention, InsertByte, pinVars, fpgaVars
<1> QED
  BY <1>1, <1>4, <1>6, <1>7, <1>8 DEF IInv, InsertByte, WritingOK, SdrReadOK, DdrReadOK, PacketOK,
    pinVars

LEMMA PacketIdKeeps ==
  ASSUME IInv, PacketId
  PROVE  IInv'
<1>1. todo' = <<>> /\ todo = <<>> /\ pc' = "rx" /\ e' = 0 /\ mode' = "app"
  BY DEF IInv, OutsideOK, PacketId, At, pinVars
<1>2. inBuffer.count \in Nat /\ Sound(inBuffer)
  BY DEF IInv, TypeOK, RingBuffers
<1>3. CASE inBuffer.count > 0
  <2>1. id' \in Data /\ Sound(inBuffer') /\ appState' = "SIZE"
    BY <1>2, <1>3, TakesByte DEF PacketId, GetCount
  <2>2. inBuffer' \in RingBuffers /\ id' \in Nat
    BY <2>1, CodeAssumption DEF Sound
  <2>3. TypeOK'
    BY <1>1, <2>1, <2>2, EmptyPlace DEF IInv, TypeOK, PacketId, pinVars, fpgaVars, usbVars, hostVars
  <2>4. OutsideOK'
    BY <1>1, <2>1, EmptyPlace DEF OutsideOK
  <2>5. NoContention' /\ (mode' = "app" => on')
    BY DEF IInv, NoContention, PacketId, pinVars, fpgaVars
  <2> QED
    BY <1>1, <2>1, <2>3, <2>4, <2>5 DEF IInv, WritingOK, SdrReadOK, DdrReadOK, PacketOK, Writing
<1>4. CASE ~(inBuffer.count > 0)
  <2>1. id' = id /\ inBuffer' = inBuffer /\ appState' = "ID"
    BY <1>4 DEF PacketId, GetCount
  <2>2. TypeOK'
    BY <1>1, <2>1, EmptyPlace DEF IInv, TypeOK, PacketId, pinVars, fpgaVars, usbVars, hostVars
  <2>3. OutsideOK'
    BY <1>1, <2>1, EmptyPlace DEF OutsideOK
  <2>4. NoContention' /\ (mode' = "app" => on')
    BY DEF IInv, NoContention, PacketId, pinVars, fpgaVars
  <2> QED
    BY <1>1, <1>2, <2>1, <2>2, <2>3, <2>4 DEF IInv, WritingOK, SdrReadOK, DdrReadOK, PacketOK,
      Writing
<1> QED
  BY <1>3, <1>4

LEMMA PacketSizeKeeps ==
  ASSUME IInv, PacketSize
  PROVE  IInv'
<1>1. todo = <<>> /\ e' = 0 /\ mode' = "app" /\ id' = id /\ appState' = "SIZE" /\ id \in Data
  BY DEF IInv, OutsideOK, PacketSize, At, pinVars, PacketOK
<1>2. inBuffer.count \in Nat /\ Sound(inBuffer)
  BY DEF IInv, TypeOK, RingBuffers
<1>3. CASE inBuffer.count > 0
  <2>1. size' \in Data /\ Sound(inBuffer') /\ todo' = Echoes /\ pc' = "dispatch"
    BY <1>2, <1>3, TakesByte DEF PacketSize, GetCount
  <2>2. inBuffer' \in RingBuffers /\ size' \in Nat
    BY <2>1, CodeAssumption DEF Sound
  <2>3. Rest(Echoes)' /\ todo' \in Seq(Ops)
    BY <2>1, Sequences, RestStarts
  <2>4. TypeOK'
    BY <1>1, <2>1, <2>2, <2>3 DEF IInv, TypeOK, PacketSize, pinVars, fpgaVars, usbVars, hostVars
  <2>5. OutsideOK'
    BY <1>1, <2>1, <2>3 DEF OutsideOK
  <2>6. NoContention' /\ (mode' = "app" => on')
    BY DEF IInv, NoContention, PacketSize, pinVars, fpgaVars
  <2> QED
    BY <1>1, <2>1, <2>4, <2>5, <2>6 DEF IInv, WritingOK, SdrReadOK, DdrReadOK, PacketOK, Writing
<1>4. CASE ~(inBuffer.count > 0)
  <2>1. size' = size /\ inBuffer' = inBuffer /\ todo' = <<>> /\ pc' = "rx"
    BY <1>1, <1>4 DEF PacketSize, GetCount
  <2>2. TypeOK'
    BY <1>1, <2>1, EmptyPlace DEF IInv, TypeOK, PacketSize, pinVars, fpgaVars, usbVars, hostVars
  <2>3. OutsideOK'
    BY <1>1, <2>1, EmptyPlace DEF OutsideOK
  <2>4. NoContention' /\ (mode' = "app" => on')
    BY DEF IInv, NoContention, PacketSize, pinVars, fpgaVars
  <2> QED
    BY <1>1, <1>2, <2>1, <2>2, <2>3, <2>4 DEF IInv, WritingOK, SdrReadOK, DdrReadOK, PacketOK,
      Writing
<1> QED
  BY <1>3, <1>4

(* Dispatch: the mode bit goes with the kind of the transfer. *)
LEMMA DispatchKeeps ==
  ASSUME IInv, Dispatch
  PROVE  IInv'
<1>1. /\ todo = <<>> /\ todo' = <<>> /\ pc' = "rx" /\ e' = 0 /\ mode' = "app" /\ id' = id
      /\ id \in Data
  BY DEF IInv, OutsideOK, Dispatch, At, PacketOK
<1>2. \/ id = SdrWr /\ appState' = "SDR_WR" /\ ddr' = 0
      \/ id = DdrWr /\ appState' = "DDR_WR" /\ ddr' = 1
      \/ id = SdrRd /\ appState' = "SDR_RD" /\ ddr' = 0
      \/ id = DdrRd /\ appState' = "DDR_RD" /\ ddr' = 1
      \/ appState' = "ID" /\ ddr' = ddr
  BY CodeAssumption DEF Dispatch
<1>3. TypeOK'
  <2>1. ddr' \in Pin /\ appState' \in {"ID", "SIZE", "SDR_WR", "DDR_WR", "SDR_RD", "DDR_RD"}
    BY <1>2 DEF IInv, TypeOK, Pin
  <2> QED
    BY <1>1, <2>1, EmptyPlace DEF IInv, TypeOK, Dispatch, fpgaVars, usbVars, hostVars
<1>4. OutsideOK'
  BY <1>1, EmptyPlace DEF OutsideOK
<1>5. NoContention' /\ (mode' = "app" => on')
  BY DEF IInv, NoContention, Dispatch, fpgaVars
<1>6. PacketOK'
  BY <1>1, <1>2 DEF PacketOK
<1>7. Sound(inBuffer')
  BY DEF IInv, Dispatch
<1> QED
  BY <1>1, <1>3, <1>4, <1>5, <1>6, <1>7 DEF IInv, WritingOK, SdrReadOK, DdrReadOK

LEMMA ReturnKeeps ==
  ASSUME IInv, Return
  PROVE  IInv'
<1>1. /\ todo = <<>> /\ todo' = <<>> /\ pc' = "dispatch" /\ e' = 0 /\ mode' = "main"
      /\ appState' = "SIZE" /\ size' \in Data
  BY DEF IInv, OutsideOK, Return, At
<1>2. TypeOK'
  BY <1>1, EmptyPlace DEF IInv, TypeOK, Return, usbVars, hostVars
<1>3. OutsideOK'
  BY <1>1, EmptyPlace DEF OutsideOK
<1>4. PacketOK' /\ Sound(inBuffer')
  BY DEF IInv, PacketOK, Return, Writing, Reading
<1> QED
  BY <1>1, <1>2, <1>3, <1>4 DEF IInv, NoContention, WritingOK, SdrReadOK, DdrReadOK

(* StartTransfer: ready is what the buffer holds. *)
LEMMA StartTransferKeeps ==
  ASSUME IInv, StartTransfer
  PROVE  IInv'
<1>1. /\ todo = <<>> /\ e' = 0 /\ pc' = "loop" /\ mode' = "app"
      /\ appState' = appState /\ inBuffer' = inBuffer /\ n' = inBuffer'.count /\ n' \in Nat
  BY DEF IInv, OutsideOK, StartTransfer, At, pinVars, GetCount, TypeOK, RingBuffers
<1>2. (Writing <=> Writing') /\ (Reading <=> Reading')
  BY <1>1 DEF Writing, Reading
<1>3. /\ Writing => todo' = WriteSetup
      /\ appState = "SDR_RD" => todo' = <<>>
      /\ appState = "DDR_RD" => todo' = DdrReadSetup
      /\ Writing \/ Reading
  BY DEF StartTransfer, Writing, Reading
<1>4. todo' \in Seq(Ops)
  BY <1>3, Sequences, EmptyPlace DEF Reading
<1>5. TypeOK'
  BY <1>1, <1>4 DEF IInv, TypeOK, StartTransfer, pinVars, fpgaVars, usbVars, hostVars
<1>6. WritingOK'
  <2>1. CASE Writing
    <3>1. Rest(WriteSetup)' /\ Len(todo') = 2 /\ todo' # <<>>
      <4>1. todo' = WriteSetup
        BY <1>3, <2>1
      <4>2. Rest(WriteSetup)' /\ Len(todo') = 2
        BY <4>1, Sequences, RestStarts
      <4> QED
        BY <4>2
    <3>2. e' = 0 /\ n' <= inBuffer'.count /\ (Len(todo') = 1 => rw' = 0)
      BY <1>1, <3>1
    <3> QED
      BY <3>1, <3>2, Zenon DEF WritingOK
  <2>2. CASE ~Writing
    BY <1>2, <2>2 DEF WritingOK
  <2> QED
    BY <2>1, <2>2
<1>7. SdrReadOK'
  <2>1. CASE appState = "SDR_RD"
    <3>1. PICK j \in Nat : j = Len(todo') /\ j = 0
      BY <1>3, <2>1, EmptyPlace
    <3>2. /\ j \notin {2, 3, 4} /\ j \notin {3, 4, 5, 6, 7} /\ j \notin {1, 2} /\ j \notin {4, 5, 6}
          /\ j \notin {1, 2, 3} /\ j # 5
      <4>1. ASSUME NEW i \in Nat, i = 0 PROVE i \notin {1, 2, 3, 4, 5, 6, 7}
        BY <4>1
      <4> QED
        BY <3>1, <4>1
    <3>3. n' <= inBuffer'.count + 1 /\ n' <= inBuffer'.count
      BY <1>1
    <3>4. Rest(SdrReadUnit)' /\ todo' = <<>>
      BY <1>3, <2>1, EmptyPlace
    <3> QED
      BY <1>1, <3>1, <3>2, <3>3, <3>4 DEF SdrReadOK
  <2>2. CASE appState # "SDR_RD"
    BY <1>1, <2>2 DEF SdrReadOK
  <2> QED
    BY <2>1, <2>2
<1>8. DdrReadOK'
  <2>1. CASE appState = "DDR_RD"
    <3>1. Rest(DdrReadSetup)' /\ Len(todo') = 2 /\ todo' # <<>>
      <4>1. todo' = DdrReadSetup
        BY <1>3, <2>1
      <4>2. Rest(DdrReadSetup)' /\ Len(todo') = 2
        BY <4>1, Sequences, RestStarts
      <4> QED
        BY <4>2
    <3>2. e' = 0 /\ (Len(todo') = 1 => dir' = "in")
      BY <1>1, <3>1
    <3> QED
      BY <3>1, <3>2, Zenon DEF DdrReadOK
  <2>2. CASE appState # "DDR_RD"
    BY <1>1, <2>2 DEF DdrReadOK
  <2> QED
    BY <2>1, <2>2
<1>9. NoContention' /\ (mode' = "app" => on') /\ PacketOK' /\ Sound(inBuffer')
  BY <1>1, <1>2, <1>3 DEF IInv, NoContention, StartTransfer, PacketOK, pinVars, fpgaVars
<1> QED
  BY <1>1, <1>5, <1>6, <1>7, <1>8, <1>9 DEF IInv, OutsideOK

(* NextUnit: a unit begins where the buffer holds the bytes it takes.      *)
LEMMA NextUnitKeeps ==
  ASSUME IInv, NextUnit
  PROVE  IInv'
<1>1. /\ todo = <<>> /\ pc = "loop" /\ mode' = "app" /\ size' = size /\ n' = n
      /\ inBuffer' = inBuffer /\ e' = e /\ rw' = rw /\ dir' = dir /\ n \in Nat /\ size \in Nat
      /\ inBuffer.count \in Nat /\ id' = id /\ ddr' = ddr
  BY DEF IInv, TypeOK, RingBuffers, NextUnit, At, pinVars
<1>2. /\ e = 0 /\ (Writing \/ Reading)
      /\ Writing => rw = 0 /\ dir = "out" /\ n <= inBuffer.count
      /\ appState = "SDR_RD" => n <= inBuffer.count
      /\ appState = "DDR_RD" => rw = 1 /\ dir = "in"
  BY <1>1, BetweenUnits
<1>3. NoContention' /\ (mode' = "app" => on') /\ Sound(inBuffer')
  BY <1>1 DEF IInv, NoContention, NextUnit, pinVars, fpgaVars
<1>4. CASE ~Ready
  <2>1. pc' = "rx" /\ todo' = <<>> /\ appState' \in {"ID", appState}
    BY <1>1, <1>4 DEF NextUnit
  <2>2. TypeOK'
    BY <1>1, <2>1, EmptyPlace DEF IInv, TypeOK, NextUnit, pinVars, fpgaVars, usbVars, hostVars
  <2>3. OutsideOK'
    BY <1>1, <1>2, <2>1, EmptyPlace DEF OutsideOK
  <2>4. PacketOK'
    BY <1>1, <2>1 DEF IInv, PacketOK, Writing, Reading
  <2> QED
    BY <1>1, <1>3, <2>1, <2>2, <2>3, <2>4 DEF IInv, WritingOK, SdrReadOK, DdrReadOK
<1>5. CASE Ready
  <2>1. pc' = "loop" /\ todo' = Unit /\ appState' = appState /\ size > 0
    BY <1>1, <1>5 DEF NextUnit, Ready
  <2>2. (Writing <=> Writing') /\ (Reading <=> Reading')
    BY <2>1 DEF Writing, Reading
  <2>3. /\ Writing => todo' = WriteUnit
        /\ appState = "SDR_RD" => todo' = SdrReadUnit
        /\ appState = "DDR_RD" => todo' = DdrReadUnit
    BY <2>1 DEF Unit, Writing
  <2>4. todo' \in Seq(Ops)
    BY <1>2, <2>3, Sequences DEF Reading
  <2>5. TypeOK'
    BY <1>1, <2>1, <2>4 DEF IInv, TypeOK, NextUnit, pinVars, fpgaVars, usbVars, hostVars
  <2>6. WritingOK'
    <3>1. CASE Writing
      <4>1. PICK j \in Nat : j = Len(todo') /\ j = 4
        BY <2>3, <3>1, Sequences
      <4>2. j \notin {1, 2} /\ j \notin {1, 3} /\ j # 1
        <5>1. ASSUME NEW i \in Nat, i = 4 PROVE i \notin {1, 2} /\ i \notin {1, 3}
          BY <5>1
        <5> QED
          BY <4>1, <5>1
      <4>3. n > 1 /\ n' <= inBuffer'.count + 2 /\ n' <= inBuffer'.count + 1 /\ n' <= inBuffer'.count
        BY <1>1, <1>2, <1>5, <3>1 DEF Ready
      <4>4. Rest(WriteUnit)'
        BY <2>3, <3>1, Sequences, RestStarts
      <4> QED
        BY <1>1, <1>2, <2>1, <3>1, <4>1, <4>2, <4>3, <4>4 DEF WritingOK
    <3>2. CASE ~Writing
      BY <2>2, <3>2 DEF WritingOK
    <3> QED
      BY <3>1, <3>2
  <2>7. SdrReadOK'
    <3>1. CASE appState = "SDR_RD"
      <4>1. PICK j \in Nat : j = Len(todo') /\ j = 8
        BY <2>3, <3>1, Sequences
      <4>2. /\ j \notin {2, 3, 4} /\ j \notin {3, 4, 5, 6, 7} /\ j \notin {1, 2} /\ j \notin {4, 5, 6}
            /\ j \notin {1, 2, 3} /\ j # 5
        <5>1. ASSUME NEW i \in Nat, i = 8 PROVE i \notin {1, 2, 3, 4, 5, 6, 7}
          BY <5>1
        <5> QED
          BY <4>1, <5>1
      <4>3. n > 0 /\ n' <= inBuffer'.count + 1 /\ n' <= inBuffer'.count
        BY <1>1, <1>2, <1>5, <3>1 DEF Ready
      <4>4. Rest(SdrReadUnit)'
        BY <2>3, <3>1, Sequences, RestStarts
      <4> QED
        BY <1>1, <1>2, <2>1, <3>1, <4>1, <4>2, <4>3, <4>4 DEF SdrReadOK
    <3>2. CASE appState # "SDR_RD"
      BY <2>1, <3>2 DEF SdrReadOK
    <3> QED
      BY <3>1, <3>2
  <2>8. DdrReadOK'
    <3>1. CASE appState = "DDR_RD"
      <4>1. PICK j \in Nat : j = Len(todo') /\ j = 4
        BY <2>3, <3>1, Sequences
      <4>2. j \notin {1, 2}
        <5>1. ASSUME NEW i \in Nat, i = 4 PROVE i \notin {1, 2}
          BY <5>1
        <5> QED
          BY <4>1, <5>1
      <4>3. Rest(DdrReadUnit)'
        BY <2>3, <3>1, Sequences, RestStarts
      <4> QED
        BY <1>1, <1>2, <2>1, <3>1, <4>1, <4>2, <4>3 DEF DdrReadOK
    <3>2. CASE appState # "DDR_RD"
      BY <2>1, <3>2 DEF DdrReadOK
    <3> QED
      BY <3>1, <3>2
  <2>9. PacketOK'
    BY <1>1, <2>1, <2>2 DEF IInv, PacketOK
  <2> QED
    BY <1>1, <1>3, <2>1, <2>5, <2>6, <2>7, <2>8, <2>9 DEF IInv, OutsideOK
<1> QED
  BY <1>4, <1>5

(* Outside the loop only the pins of the data lines, the FPGA, the bus and *)
(* what the host has to send change.                                       *)
LEMMA OutsideKeeps ==
  ASSUME IInv, CommandLine \/ HostRequest \/ HostSend \/ Suspend \/ Resume
  PROVE  IInv'
<1>1. /\ mode' = mode /\ pc' = pc /\ todo' = todo /\ inBuffer' = inBuffer /\ id' = id
      /\ size' = size /\ appState' = appState /\ n' = n /\ e' = e /\ rw' = rw /\ ddr' = ddr
      /\ port' = port /\ address' = address /\ written' = written /\ answers' = answers
  BY DEF CommandLine, HostRequest, HostSend, Suspend, Resume, cpuVars, pinVars, fpgaVars,
    usbVars, hostVars
<1>2. mode = "main" \/ (dir' = dir /\ on' = on)
  BY DEF CommandLine, HostRequest, HostSend, Suspend, Resume, pinVars, fpgaVars
<1>3. TypeOK'
  <2>1. TypeOK
    BY DEF IInv
  <2>2. CASE CommandLine
    <3>1. dir' \in {"in", "out", dir} /\ (ep' = <<>> \/ ep' = ep)
      BY <2>2 DEF CommandLine
    <3>2. on' \in BOOLEAN
      <4>1. on' = on \/ on' = TRUE
        BY <2>2 DEF CommandLine
      <4>2. on \in BOOLEAN
        BY <2>1 DEF TypeOK
      <4> QED
        BY <4>1, <4>2, Zenon
    <3>3. dir' \in {"in", "out"} /\ ep' \in Seq(Data)
      <4>1. dir \in {"in", "out"} /\ ep \in Seq(Data)
        BY <2>1 DEF TypeOK
      <4>2. dir' \in {"in", "out"}
        BY <3>1, <4>1
      <4>3. <<>> \in Seq(Data)
        OBVIOUS
      <4>4. ep' \in Seq(Data)
        BY <3>1, <4>1, <4>3, Zenon
      <4> QED
        BY <4>2, <4>4
    <3>4. usb' = usb /\ hostQ' = hostQ /\ left' = left
      BY <2>2 DEF CommandLine, hostVars
    <3> QED
      BY <1>1, <2>1, <3>2, <3>3, <3>4 DEF TypeOK
  <2>3. CASE HostRequest
    <3>1. hostQ' \in Seq(Data)
      BY <2>3, CodeAssumption DEF HostRequest
    <3>2. left.packet > 0 =>
            [left EXCEPT !.packet = @ - 1] \in [packet : Nat, lost : Nat, drop : Nat]
      <4>1. left \in [packet : Nat, lost : Nat, drop : Nat]
        BY <2>1 DEF TypeOK
      <4> QED
        BY <4>1
    <3> QED
      BY <1>1, <2>1, <2>3, <3>1, <3>2 DEF TypeOK, HostRequest, pinVars, fpgaVars, usbVars
  <2>4. CASE HostSend
    <3>1. hostQ \in Seq(Data) /\ EpSize \in Nat
      BY <2>1, CodeAssumption DEF TypeOK
    <3>2. PICK k \in 1 .. Least(Len(hostQ), EpSize) :
             ep' = SubSeq(hostQ, 1, k) /\ hostQ' = SubSeq(hostQ, k + 1, Len(hostQ))
      BY <2>4 DEF HostSend
    <3>3. k \in 1 .. Len(hostQ)
      BY <3>1, <3>2 DEF Least
    <3>4. ep' \in Seq(Data) /\ hostQ' \in Seq(Data)
      BY <3>1, <3>2, <3>3
    <3> QED
      BY <1>1, <2>1, <2>4, <3>4 DEF TypeOK, HostSend, pinVars, fpgaVars
  <2>5. CASE Suspend
    <3>1. left.drop > 0 =>
            [left EXCEPT !.drop = @ - 1] \in [packet : Nat, lost : Nat, drop : Nat]
      <4>1. left \in [packet : Nat, lost : Nat, drop : Nat]
        BY <2>1 DEF TypeOK
      <4> QED
        BY <4>1
    <3> QED
      BY <1>1, <2>1, <2>5, <3>1 DEF TypeOK, Suspend, pinVars, fpgaVars
  <2>6. CASE Resume
    BY <1>1, <2>1, <2>6 DEF TypeOK, Resume, pinVars, fpgaVars, hostVars
  <2> QED
    BY <2>2, <2>3, <2>4, <2>5, <2>6
<1>4. Sound(inBuffer') /\ (mode' = "app" => on') /\ NoContention' /\ (mode' = "main" => pc' # "loop")
  BY <1>1, <1>2 DEF IInv, NoContention
<1>5. pc = "loop" => dir' = dir
  BY <1>2 DEF IInv
<1>6. OutsideOK'
  BY <1>1 DEF IInv, OutsideOK, Rest
<1>7. WritingOK' /\ SdrReadOK' /\ DdrReadOK'
  <2>1. CASE pc = "loop"
    <3>1. WritingOK'
      BY <1>1, <1>5, <2>1 DEF IInv, WritingOK, Rest, Writing
    <3>2. SdrReadOK'
      BY <1>1, <1>5, <2>1 DEF IInv, SdrReadOK, Rest
    <3>3. DdrReadOK'
      BY <1>1, <1>5, <2>1 DEF IInv, DdrReadOK, Rest
    <3> QED
      BY <3>1, <3>2, <3>3
  <2>2. CASE pc # "loop"
    BY <1>1, <2>2 DEF WritingOK, SdrReadOK, DdrReadOK
  <2> QED
    BY <2>1, <2>2
<1>8. PacketOK'
  BY <1>1 DEF IInv, PacketOK, Writing, Reading
<1> QED
  BY <1>3, <1>4, <1>6, <1>7, <1>8 DEF IInv
(***************************************************************************)
(* The invariant of the loop, and what follows from it.                    *)
(***************************************************************************)
LEMMA InitHolds == Init => IInv
<1> SUFFICES ASSUME Init PROVE IInv
  OBVIOUS
<1>1. Phantom \in Data /\ Size \in Nat \ {0}
  BY CodeAssumption, RingAssumption
<1>2. Sound(inBuffer) /\ inBuffer \in RingBuffers
  <2>1. [i \in 0 .. Size - 1 |-> Phantom] \in [0 .. Size - 1 -> Data]
    BY <1>1
  <2> QED
    BY <2>1, InitEmpty DEF Init, Sound
<1>3. todo = <<>> /\ todo \in Seq(Ops) /\ Len(todo) = 0
  BY DEF Init
<1>4. TypeOK
  <2>1. ep \in Seq(Data) /\ hostQ \in Seq(Data) /\ written \in Seq(Seq(Nat))
        /\ answers \in Seq({"echo", "register", "float"} \X Nat)
    BY DEF Init
  <2>2. left \in [packet : Nat, lost : Nat, drop : Nat]
    BY CodeAssumption DEF Init
  <2> QED
    BY <1>2, <1>3, <2>1, <2>2 DEF Init, TypeOK, Pin
<1>5. OutsideOK
  <2>1. Rest(BaseInit)
    BY <1>3, Sequences DEF Rest
  <2> QED
    BY <1>3, <2>1 DEF Init, OutsideOK
<1> QED
  BY <1>2, <1>4, <1>5 DEF Init, IInv, NoContention, WritingOK, SdrReadOK, DdrReadOK, PacketOK

LEMMA StepKeeps == IInv /\ [Next]_vars => IInv'
<1> SUFFICES ASSUME IInv, [Next]_vars PROVE IInv'
  OBVIOUS
<1>1. CASE Enter
  BY <1>1, EnterKeeps
<1>2. CASE Receive
  BY <1>2, ReceiveKeeps
<1>3. CASE InsertByte
  BY <1>3, InsertByteKeeps
<1>4. CASE PacketId
  BY <1>4, PacketIdKeeps
<1>5. CASE PacketSize
  BY <1>5, PacketSizeKeeps
<1>6. CASE Dispatch
  BY <1>6, DispatchKeeps
<1>7. CASE Return
  BY <1>7, ReturnKeeps
<1>8. CASE StartTransfer
  BY <1>8, StartTransferKeeps
<1>9. CASE NextUnit
  BY <1>9, NextUnitKeeps
<1>10. CASE PortOp
  BY <1>10, PortOpKeeps
<1>11. CASE CommandLine \/ HostRequest \/ HostSend \/ Suspend \/ Resume
  BY <1>11, OutsideKeeps
<1>12. CASE UNCHANGED vars
  BY <1>12 DEF vars, IInv, TypeOK, NoContention, OutsideOK, WritingOK, SdrReadOK, DdrReadOK,
    PacketOK, Rest, Writing, Reading
<1> QED
  BY <1>1, <1>2, <1>3, <1>4, <1>5, <1>6, <1>7, <1>8, <1>9, <1>10, <1>11, <1>12
     DEF Next, Loop, PortOp

(* The inductive invariant of the application loop. *)
THEOREM LoopInvariance == Spec => []IInv
<1> QED
  BY InitHolds, StepKeeps, PTL DEF Spec

(* Every variable keeps its type.  n and size never wrap below zero: the   *)
(* counts of the while loops go down only as far as the units they counted. *)
THEOREM LoopTypes == Spec => []TypeOK
<1>1. IInv => TypeOK
  BY DEF IInv
<1> QED
  BY <1>1, LoopInvariance, PTL

(* RingBuffer_Insert never meets a full buffer and RingBuffer_Remove never *)
(* an empty one, for every size of buffer, bank and packet.                *)
THEOREM RingSafe == Spec => []RingUsedInBounds
<1>1. IInv => RingUsedInBounds
  <2> SUFFICES ASSUME IInv PROVE RingUsedInBounds
    OBVIOUS
  <2>1. At("insert") => inBuffer.count + n <= Size
    BY DEF IInv, OutsideOK, At
  <2>2. Sound(inBuffer)
    BY DEF IInv
  <2> QED
    BY <2>1, <2>2, DataThere DEF RingUsedInBounds
<1> QED
  BY <1>1, LoopInvariance, PTL

(* AVR and FPGA never drive the data lines against each other. *)
THEOREM QuietLines == Spec => []NoContention
<1>1. IInv => NoContention
  BY DEF IInv
<1> QED
  BY <1>1, LoopInvariance, PTL

(* The logic writes only at the edges of a write unit; all other edges of  *)
(* E come with RW at 1, with E where it already is, or take an address.    *)
LEMMA EdgesWrite ==
  ASSUME IInv, Strobe, written' # written
  PROVE  /\ Writing /\ dir = "out"
         /\ \/ written' = Append(written, <<address, port>>)
            \/ written' = Append(written, <<port>>)
<1>1. PICK k \in Nat : k = Len(todo)
  BY DEF IInv, TypeOK
<1>2. (Doing("e1") /\ Edge(TRUE)) \/ (Doing("e0") /\ Edge(FALSE))
  BY DEF Strobe
<1>3. ASSUME NEW op, Doing(op)
      PROVE  \/ InBaseInit(op, k) \/ InEchoes(op, k) \/ InWriteSetup(op, k)
             \/ InWriteUnit(op, k) \/ InSdrReadUnit(op, k) \/ InDdrReadSetup(op, k)
             \/ InDdrReadUnit(op, k)
  <2>1. todo # <<>> /\ op = Head(todo)
    BY <1>3 DEF Doing
  <2> QED
    BY <1>1, <2>1, Places
<1>4. CASE Doing("e1") /\ Edge(TRUE)
  <2>1. /\ rw # 1 /\ ddr # 0
        /\ written' = Append(written, IF ddr = 0 THEN <<address, Bus>> ELSE <<Bus>>)
    BY <1>4, Zenon DEF Edge
  <2>2. ~InSdrReadUnit("e1", k)
    BY <2>1 DEF InSdrReadUnit, IInv, PacketOK
  <2>3. InWriteUnit("e1", k)
    BY <1>3, <1>4, <2>1, <2>2 DEF InBaseInit, InEchoes, InWriteSetup, InDdrReadSetup, InDdrReadUnit
  <2> QED
    BY <2>1, <2>3 DEF InWriteUnit, Bus
<1>5. CASE Doing("e0") /\ Edge(FALSE)
  <2>1. /\ rw # 1 /\ e # 0
        /\ written' = Append(written, IF ddr = 0 THEN <<address, Bus>> ELSE <<Bus>>)
    BY <1>5, Zenon DEF Edge
  <2>2. ~InBaseInit("e0", k)
    BY <2>1 DEF InBaseInit, IInv, OutsideOK
  <2>3. InWriteUnit("e0", k)
    <3>1. ~InSdrReadUnit("e0", k) /\ ~InDdrReadUnit("e0", k)
      BY <2>1 DEF InSdrReadUnit, InDdrReadUnit
    <3> QED
      BY <1>3, <1>5, <2>2, <3>1 DEF InEchoes, InWriteSetup, InDdrReadSetup
  <2> QED
    BY <2>1, <2>3 DEF InWriteUnit, Bus
<1> QED
  BY <1>2, <1>4, <1>5

(* Only the write packets write, and only what the AVR drives. *)
THEOREM WritesSafe == Spec => OnlyWritesWrite
<1>1. IInv /\ [Next]_vars => [written' # written =>
         /\ Writing /\ dir = "out"
         /\ written'[Len(written')][Len(written'[Len(written')])] = port]_vars
  <2> SUFFICES ASSUME IInv, Next, written' # written
      PROVE  /\ Writing /\ dir = "out"
             /\ written'[Len(written')][Len(written'[Len(written')])] = port
    OBVIOUS
  <2>1. Strobe
    BY DEF Next, Loop, Enter, Receive, InsertByte, PacketId, PacketSize, Dispatch, Return,
      StartTransfer, NextUnit, Direction, PutByte, Answer, CommandLine, HostRequest, HostSend,
      Suspend, Resume, fpgaVars
  <2>2. /\ Writing /\ dir = "out"
        /\ \/ written' = Append(written, <<address, port>>)
           \/ written' = Append(written, <<port>>)
    BY <2>1, EdgesWrite
  <2>3. written \in Seq(Seq(Nat)) /\ address \in Nat /\ port \in Nat
    BY DEF IInv, TypeOK
  <2>4. ASSUME NEW last \in Seq(Nat), written' = Append(written, last)
        PROVE  written'[Len(written')] = last
    BY <2>3, <2>4
  <2>5. CASE written' = Append(written, <<address, port>>)
    <3>1. <<address, port>> \in Seq(Nat) /\ <<address, port>>[Len(<<address, port>>)] = port
      BY <2>3
    <3> QED
      BY <2>2, <2>4, <2>5, <3>1
  <2>6. CASE written' = Append(written, <<port>>)
    <3>1. <<port>> \in Seq(Nat) /\ <<port>>[Len(<<port>>)] = port
      BY <2>3
    <3> QED
      BY <2>2, <2>4, <2>6, <3>1
  <2> QED
    BY <2>2, <2>5, <2>6
<1> QED
  BY <1>1, LoopInvariance, PTL DEF Spec, OnlyWritesWrite
=============================================================================
