-------------------------- MODULE RingBuffer_proof --------------------------
(***************************************************************************)
(* The pointers of the ring buffer implement a queue, for every size and   *)
(* every kind of data: as long as the caller asks for the free count       *)
(* before Insert and for the count before Remove, a buffer stays sound,    *)
(* Insert appends to its contents, and Peek and Remove take their head.    *)
(***************************************************************************)
EXTENDS RingBuffer, SequenceTheorems, TLAPS

(* RingBuffer_InitBuffer gives a sound, empty buffer, whatever the memory  *)
(* it is given contains.                                                   *)
THEOREM InitEmpty ==
  ASSUME NEW memory \in [0 .. Size - 1 -> Data]
  PROVE  Sound(InitBuffer(memory)) /\ Contents(InitBuffer(memory)) = <<>>
<1>1. InitBuffer(memory) \in RingBuffers
  BY RingAssumption, SMT DEF InitBuffer, RingBuffers
<1>2. Sound(InitBuffer(memory))
  BY <1>1, RingAssumption, SMT DEF InitBuffer, Sound, Cell
<1>3. Contents(InitBuffer(memory)) = <<>>
  BY SMT DEF InitBuffer, Contents
<1>. QED BY <1>2, <1>3

(* The cells of a buffer's contents are cells of its array, and two of     *)
(* them are never the same one.                                            *)
LEMMA CellInArray ==
  ASSUME NEW b \in RingBuffers, NEW i \in 0 .. Size - 1
  PROVE  Cell(b, i) \in 0 .. Size - 1
BY RingAssumption, SMT DEF RingBuffers, Cell

LEMMA CellsDistinct ==
  ASSUME NEW b \in RingBuffers, NEW i \in 0 .. Size - 1, NEW j \in 0 .. Size - 1,
         Cell(b, i) = Cell(b, j)
  PROVE  i = j
BY RingAssumption, SMT DEF RingBuffers, Cell

(* Advancing a pointer is the step from one cell of the contents to the    *)
(* next one; after Size steps it is back.                                  *)
LEMMA AdvanceCell ==
  ASSUME NEW b \in RingBuffers, NEW i \in 0 .. Size - 1
  PROVE  Advance(Cell(b, i)) = IF i + 1 = Size THEN b.out ELSE Cell(b, i + 1)
BY RingAssumption, SMT DEF RingBuffers, Cell, Advance

LEMMA ContentsSeq ==
  ASSUME NEW b, Sound(b)
  PROVE  /\ Contents(b) \in Seq(Data)
         /\ Len(Contents(b)) = b.count
         /\ \A i \in 1 .. b.count : Contents(b)[i] = b.data[Cell(b, i - 1)]
<1>1. b \in RingBuffers /\ b.count \in Nat /\ b.count <= Size
      /\ b.data \in [0 .. Size - 1 -> Data]
  BY SMT DEF Sound, RingBuffers
<1>2. ASSUME NEW i \in 1 .. b.count PROVE b.data[Cell(b, i - 1)] \in Data
  <2>1. i - 1 \in 0 .. Size - 1
    BY <1>1, RingAssumption, SMT
  <2>2. Cell(b, i - 1) \in 0 .. Size - 1
    BY <1>1, <2>1, CellInArray
  <2>. QED BY <1>1, <2>2
<1>3. Contents(b) \in Seq(Data) /\ Len(Contents(b)) = b.count
  BY <1>1, <1>2 DEF Contents
<1>4. \A i \in 1 .. b.count : Contents(b)[i] = b.data[Cell(b, i - 1)]
  BY <1>1 DEF Contents
<1>. QED BY <1>3, <1>4

(* RingBuffer_Insert, on a buffer that is not full, keeps the buffer sound *)
(* and appends to what it holds.                                           *)
THEOREM InsertAppends ==
  ASSUME NEW b, Sound(b), b.count < Size, NEW d \in Data
  PROVE  Sound(Insert(b, d)) /\ Contents(Insert(b, d)) = Append(Contents(b), d)
<1>. DEFINE c == Insert(b, d)
<1>1. /\ b \in RingBuffers /\ b.count \in 0 .. Size - 1
      /\ b.data \in [0 .. Size - 1 -> Data]
      /\ b.in \in 0 .. Size - 1 /\ b.out \in 0 .. Size - 1
      /\ b.in = Cell(b, b.count)
  BY RingAssumption, SMT DEF Sound, RingBuffers
<1>2. /\ c.data = [b.data EXCEPT ![b.in] = d] /\ c.in = Advance(b.in)
      /\ c.out = b.out /\ c.count = b.count + 1
  BY <1>1, SMT DEF Insert, RingBuffers
<1>3. c.in = IF b.count + 1 = Size THEN b.out ELSE Cell(b, b.count + 1)
  BY <1>1, <1>2, AdvanceCell
<1>4. c \in RingBuffers
  <2>1. Advance(b.in) \in 0 .. Size - 1
    BY <1>1, RingAssumption, SMT DEF Advance
  <2>2. [b.data EXCEPT ![b.in] = d] \in [0 .. Size - 1 -> Data]
    BY <1>1
  <2>3. b.count + 1 \in Nat
    BY <1>1, RingAssumption, SMT
  <2>. QED BY <1>1, <2>1, <2>2, <2>3 DEF Insert, RingBuffers
<1>. HIDE DEF c
<1>5. \A i : Cell(c, i) = Cell(b, i)
  BY <1>2 DEF Cell
<1>6. Sound(c)
  BY <1>1, <1>2, <1>3, <1>4, <1>5, RingAssumption, SMT DEF Sound
<1>7. /\ Contents(b) \in Seq(Data) /\ Len(Contents(b)) = b.count
      /\ \A i \in 1 .. b.count : Contents(b)[i] = b.data[Cell(b, i - 1)]
  BY ContentsSeq
<1>8. /\ Contents(c) \in Seq(Data) /\ Len(Contents(c)) = b.count + 1
      /\ \A i \in 1 .. b.count + 1 : Contents(c)[i] = c.data[Cell(b, i - 1)]
  <2>1. /\ Contents(c) \in Seq(Data) /\ Len(Contents(c)) = c.count
        /\ \A i \in 1 .. c.count : Contents(c)[i] = c.data[Cell(c, i - 1)]
    BY <1>6, ContentsSeq
  <2>. QED BY <1>2, <1>5, <2>1
<1>9. ASSUME NEW i \in 1 .. b.count
      PROVE  Contents(c)[i] = Contents(b)[i]
  <2>1. /\ i \in 1 .. b.count + 1 /\ i - 1 # b.count
        /\ i - 1 \in 0 .. Size - 1 /\ b.count \in 0 .. Size - 1
    BY <1>1, RingAssumption, SMT
  <2>2. Cell(b, i - 1) \in 0 .. Size - 1 /\ Cell(b, i - 1) # b.in
    BY <1>1, <2>1, CellInArray, CellsDistinct
  <2>3. c.data[Cell(b, i - 1)] = b.data[Cell(b, i - 1)]
    BY <1>1, <1>2, <2>2
  <2>. QED BY <1>7, <1>8, <2>1, <2>3
<1>10. ASSUME NEW i \in 1 .. b.count + 1, i = b.count + 1
       PROVE  Contents(c)[i] = d
  <2>1. i - 1 = b.count
    BY <1>1, <1>10, RingAssumption, SMT
  <2>2. Contents(c)[i] = c.data[Cell(b, i - 1)]
    BY <1>8
  <2>3. c.data[b.in] = d
    BY <1>1, <1>2
  <2>. QED BY <1>1, <2>1, <2>2, <2>3
<1>11. Contents(c) = Append(Contents(b), d)
  <2>1. /\ Append(Contents(b), d) \in Seq(Data)
        /\ Len(Append(Contents(b), d)) = b.count + 1
        /\ \A i \in 1 .. b.count : Append(Contents(b), d)[i] = Contents(b)[i]
        /\ Append(Contents(b), d)[b.count + 1] = d
    BY <1>7, AppendProperties
  <2>2. ASSUME NEW i \in 1 .. b.count + 1
        PROVE  Contents(c)[i] = Append(Contents(b), d)[i]
    <3>1. i \in 1 .. b.count \/ i = b.count + 1
      BY <1>1, RingAssumption, SMT
    <3>. QED BY <1>9, <1>10, <2>1, <3>1
  <2>. QED BY <1>8, <2>1, <2>2, SeqEqual
<1>. QED BY <1>6, <1>11 DEF c

(* RingBuffer_Peek and RingBuffer_Remove, on a buffer that is not empty,   *)
(* return and drop the oldest element and keep the buffer sound.           *)
THEOREM RemoveTakesHead ==
  ASSUME NEW b, Sound(b), b.count > 0
  PROVE  /\ Sound(Remove(b))
         /\ Peek(b) = Head(Contents(b))
         /\ Contents(Remove(b)) = Tail(Contents(b))
<1>. DEFINE c == Remove(b)
<1>1. /\ b \in RingBuffers /\ b.count \in 1 .. Size
      /\ b.data \in [0 .. Size - 1 -> Data]
      /\ b.in \in 0 .. Size - 1 /\ b.out \in 0 .. Size - 1
      /\ b.in = IF b.count = Size THEN b.out ELSE Cell(b, b.count)
  BY RingAssumption, SMT DEF Sound, RingBuffers
<1>2. /\ c.data = b.data /\ c.in = b.in
      /\ c.out = Advance(b.out) /\ c.count = b.count - 1
  BY <1>1, SMT DEF Remove, RingBuffers
<1>3. c.out \in 0 .. Size - 1
  BY <1>1, <1>2, RingAssumption, SMT DEF Advance
<1>4. c \in RingBuffers
  BY <1>1, <1>2, <1>3, RingAssumption, SMT DEF Remove, RingBuffers
<1>. HIDE DEF c
<1>5. ASSUME NEW i \in 0 .. Size - 1, i # Size - 1
      PROVE  Cell(c, i) = Cell(b, i + 1)
  <2>1. CASE b.out + 1 = Size
    BY <1>1, <1>2, <1>5, <2>1, RingAssumption, SMT DEF Cell, Advance
  <2>2. CASE b.out + 1 # Size
    <3>1. c.out = b.out + 1
      BY <1>2, <2>2 DEF Advance
    <3>2. c.out + i = b.out + (i + 1)
      BY <1>1, <3>1, RingAssumption, SMT
    <3>3. CASE c.out + i < Size
      BY <3>2, <3>3 DEF Cell
    <3>4. CASE ~(c.out + i < Size)
      BY <1>1, <3>1, <3>4, RingAssumption, SMT DEF Cell
    <3>. QED BY <3>3, <3>4
  <2>. QED BY <2>1, <2>2
<1>6. Sound(c)
  <2>1. c.count < Size /\ c.count <= Size
    BY <1>1, <1>2, RingAssumption, SMT
  <2>2. c.in = Cell(c, c.count)
    <3>1. CASE b.count = Size
      BY <1>1, <1>2, <3>1, RingAssumption, SMT DEF Cell, Advance
    <3>2. CASE b.count # Size
      BY <1>1, <1>2, <1>5, <3>2, RingAssumption, SMT
    <3>. QED BY <3>1, <3>2
  <2>. QED BY <1>1, <1>2, <1>4, <2>1, <2>2, SMT DEF Sound
<1>7. /\ Contents(b) \in Seq(Data) /\ Len(Contents(b)) = b.count
      /\ \A i \in 1 .. b.count : Contents(b)[i] = b.data[Cell(b, i - 1)]
  BY ContentsSeq
<1>8. /\ Contents(c) \in Seq(Data) /\ Len(Contents(c)) = b.count - 1
      /\ \A i \in 1 .. b.count - 1 : Contents(c)[i] = b.data[Cell(c, i - 1)]
  BY <1>2, <1>6, ContentsSeq
<1>9. Peek(b) = Head(Contents(b))
  <2>1. Cell(b, 0) = b.out
    BY <1>1, RingAssumption, SMT DEF Cell
  <2>. QED BY <1>1, <1>7, <2>1, SMT DEF Peek
<1>10. ASSUME NEW i \in 1 .. b.count - 1
       PROVE  Contents(c)[i] = Contents(b)[i + 1]
  <2>1. /\ i - 1 \in 0 .. Size - 1 /\ i - 1 # Size - 1
        /\ i - 1 + 1 = i /\ i + 1 \in 1 .. b.count /\ i + 1 - 1 = i
    BY <1>1, RingAssumption, SMT
  <2>2. Cell(c, i - 1) = Cell(b, i)
    BY <1>5, <2>1
  <2>3. Contents(c)[i] = b.data[Cell(c, i - 1)]
    BY <1>8
  <2>4. Contents(b)[i + 1] = b.data[Cell(b, i + 1 - 1)]
    BY <1>7, <2>1
  <2>. QED BY <2>1, <2>2, <2>3, <2>4, Zenon
<1>11. Contents(c) = Tail(Contents(b))
  <2>1. Contents(b) # <<>>
    BY <1>1, <1>7, EmptySeq, RingAssumption, SMT
  <2>2. /\ Tail(Contents(b)) \in Seq(Data)
        /\ Len(Tail(Contents(b))) = b.count - 1
        /\ \A i \in 1 .. b.count - 1 : Tail(Contents(b))[i] = Contents(b)[i + 1]
    BY <1>7, <2>1, HeadTailProperties
  <2>. QED BY <1>8, <1>10, <2>2, SeqEqual
<1>. QED BY <1>6, <1>9, <1>11 DEF c
=============================================================================
