----------------------------- MODULE FlashCells -----------------------------
(***************************************************************************)
(* The cells of a serial flash and what erasing and programming does to    *)
(* them.                                                                   *)
(***************************************************************************)
EXTENDS Integers, Sequences

CONSTANTS
  FlashLen,  (* number of cells *)
  Byte,      (* what a cell holds *)
  Blank,     (* an erased one, 0xFF *)
  Garbage,   (* one programmed twice, or torn *)
  ChipId     (* what the chip answers when it is asked who it is *)

ASSUME CellAssumption ==
  FlashLen \in Nat \ {0} /\ {Blank, Garbage, ChipId} \subseteq Byte

Address == 0 .. FlashLen - 1
AllBlank == [a \in Address |-> Blank]

(* Programming only clears bits: an erased cell takes any byte. *)
Over(old, new) ==
  IF old = Blank THEN new ELSE IF new \in {old, Blank} THEN old ELSE Garbage

(* The bytes b programmed from address a on. *)
Programmed(c, a, b) ==
  [x \in Address |-> IF x - a + 1 \in 1 .. Len(b) THEN Over(c[x], b[x - a + 1])
                                                  ELSE c[x]]

(* c or d or garbage in each of the cells in which they differ. *)
Torn(c, d) ==
  {t \in [Address -> Byte] : \A x \in Address :
     t[x] = c[x] \/ t[x] = d[x] \/ (c[x] # d[x] /\ t[x] = Garbage)}

(* The first k elements of a sequence, and what follows them. *)
Take(s, k) == SubSeq(s, 1, IF k <= Len(s) THEN k ELSE Len(s))
Drop(s, k) == SubSeq(s, k + 1, Len(s))

=============================================================================
