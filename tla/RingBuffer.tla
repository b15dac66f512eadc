----------------------------- MODULE RingBuffer -----------------------------
(***************************************************************************)
(* LUFA's ring buffer as applicationLoop uses it: storage of Size cells,   *)
(* the offsets in and out of the pointers In and Out, and count.  Insert   *)
(* and Remove test nothing: whoever calls them must ask for the count, and *)
(* on a full or an empty buffer they do what the code does.                *)
(***************************************************************************)
EXTENDS Naturals, Sequences

CONSTANTS
  Size,    (* bytes of the underlying array, 2*CDC_TXRX_EPSIZE *)
  Data     (* the values of a byte                             *)

ASSUME RingAssumption == Size \in Nat \ {0}

RingBuffers == [data : [0 .. Size - 1 -> Data], in : 0 .. Size - 1,
                out : 0 .. Size - 1, count : Nat]

InitBuffer(memory) == [data |-> memory, in |-> 0, out |-> 0, count |-> 0]

GetCount(b) == b.count
GetFreeCountAll(b) == Size                      (* mutant of GetFreeCount *)
GetFreeCount(b) == Size - b.count

(* if (++Buffer->In == Buffer->End) Buffer->In = Buffer->Start, and the    *)
(* same with Out.                                                          *)
Advance(p) == IF p + 1 = Size THEN 0 ELSE p + 1

Insert(b, d) ==
  [data |-> [b.data EXCEPT ![b.in] = d], in |-> Advance(b.in),
   out |-> b.out, count |-> b.count + 1]

Peek(b) == b.data[b.out]
Remove(b) ==
  [data |-> b.data, in |-> b.in, out |-> Advance(b.out), count |-> b.count - 1]

(***************************************************************************)
(* What the buffer stands for: the bytes from out on.  A buffer is sound   *)
(* when in is count cells ahead of out.                                    *)
(***************************************************************************)
Cell(b, i) == IF b.out + i < Size THEN b.out + i ELSE b.out + i - Size

Contents(b) == [i \in 1 .. b.count |-> b.data[Cell(b, i - 1)]]

Sound(b) ==
  /\ b \in RingBuffers
  /\ b.count <= Size
  /\ b.in = IF b.count = Size THEN b.out ELSE Cell(b, b.count)
=============================================================================
