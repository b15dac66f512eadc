----------------------------- MODULE FlashStore -----------------------------
(***************************************************************************)
(* What flash.c promises its callers, whatever commands it takes: an array *)
(* of cells that is read, erased as a whole and programmed in ascending    *)
(* order, a byte or a word at a time.  One call at a time.  A reset of the *)
(* microcontroller ends a call after some of its program commands; the     *)
(* store may then be deaf: until the power is cut it answers every read    *)
(* with erased bytes and no erase comes to an end.                         *)
(***************************************************************************)
EXTENDS FlashCells

VARIABLES
  cell,
  deaf,
  call,      (* "none", "identify", "read", "erase", "erased", "write" *)
  at, len,   (* the next address, bytes to read *)
  rest,      (* bytes still to program *)
  out        (* what the last read returned *)

vars == <<cell, deaf, call, at, len, rest, out>>

-----------------------------------------------------------------------------
Identify == call = "none" /\ call' = "identify" /\ out' = <<>>
            /\ UNCHANGED <<cell, deaf, at, len, rest>>

BeginRead ==
  /\ call = "none" /\ call' = "read"
  /\ at' \in Address /\ len' \in Nat /\ out' = <<>>
  /\ UNCHANGED <<cell, deaf, rest>>

BeginErase == call = "none" /\ call' = "erase" /\ out' = <<>>
              /\ UNCHANGED <<cell, deaf, at, len, rest>>

BeginWrite ==
  /\ call = "none" /\ ~deaf /\ call' = "write"
  /\ at' \in Address /\ rest' \in Seq(Byte) /\ rest' # <<>>
  /\ out' = <<>>
  /\ UNCHANGED <<cell, deaf, len>>

Read ==
  /\ call \in {"identify", "read"} /\ call' = "none"
  /\ out' = IF call = "identify"
            THEN [i \in 1 .. 1 |-> IF deaf THEN Blank ELSE ChipId]
            ELSE [i \in 1 .. len |-> IF deaf THEN Blank
                                     ELSE cell[(at + i - 1) % FlashLen]]
  /\ UNCHANGED <<cell, deaf, at, len, rest>>

Erase ==
  /\ call = "erase" /\ ~deaf
  /\ cell' = AllBlank /\ call' = "erased"
  /\ UNCHANGED <<deaf, at, len, rest, out>>

Program ==
  /\ call = "write" /\ ~deaf
  /\ \E k \in {1, 2} :
       /\ k <= Len(rest)
       /\ cell' = Programmed(cell, at, Take(rest, k))
       /\ at' = at + k /\ rest' = Drop(rest, k)
  /\ UNCHANGED <<deaf, call, len, out>>

Return ==
  /\ call = "erased" \/ (call = "write" /\ rest = <<>>)
  /\ call' = "none"
  /\ UNCHANGED <<cell, deaf, at, len, rest, out>>

(* The chip ends the command it is at. *)
Reset ==
  /\ \/ UNCHANGED cell
     \/ call = "erase" /\ ~deaf /\ cell' = AllBlank
     \/ call = "write" /\ \E k \in {1, 2} :
          k <= Len(rest) /\ cell' = Programmed(cell, at, Take(rest, k))
  /\ deaf' = deaf \/ (call = "write" /\ deaf')
  /\ deaf' \in BOOLEAN
  /\ call' = "none" /\ at' = 0 /\ len' = 0 /\ rest' = <<>> /\ out' = <<>>

PowerLoss ==
  /\ \/ UNCHANGED cell
     \/ call = "erase" /\ ~deaf /\ cell' \in Torn(cell, AllBlank)
     \/ call = "write" /\ \E k \in {1, 2} :
          k <= Len(rest) /\ cell' \in Torn(cell, Programmed(cell, at, Take(rest, k)))
  /\ deaf' = FALSE
  /\ call' = "none" /\ at' = 0 /\ len' = 0 /\ rest' = <<>> /\ out' = <<>>

-----------------------------------------------------------------------------
Init ==
  /\ cell \in [Address -> Byte] /\ deaf = FALSE
  /\ call = "none" /\ at = 0 /\ len = 0 /\ rest = <<>> /\ out = <<>>

(* What the driver must get done once it was called. *)
Serve == Read \/ Erase \/ Program \/ Return

Next ==
  \/ Identify \/ BeginRead \/ BeginErase \/ BeginWrite
  \/ Serve \/ Reset \/ PowerLoss

Spec == Init /\ [][Next]_vars

(* A call comes to an end unless the store is deaf. *)
FairSpec == Spec /\ WF_vars(Serve)

=============================================================================
