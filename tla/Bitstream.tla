----------------------------- MODULE Bitstream -----------------------------
(***************************************************************************)
(* The bytes the firmware moves, and what fpga.c reads out of them.        *)
(*                                                                         *)
(* A byte is known by where it comes from: <<f, i>> is byte i of the file  *)
(* f, <<c, 0>> is the character a user types for the command c, and Blank  *)
(* is 0xFF: an erased flash cell, and also what CDC_Device_ReceiveByte's   *)
(* -1 becomes when it is stored in a uint8_t.                              *)
(*                                                                         *)
(* A Xilinx .bit file is a header (preamble and fields), the size of the   *)
(* data, the data: HeaderLen, SizeLen and DataLen[f] bytes.  The last      *)
(* PadLen bytes of the data are the no-operations after the DESYNC command *)
(* which the FPGA does not need to start its design.                       *)
(***************************************************************************)
EXTENDS Naturals, Sequences

CONSTANTS
  File,       (* the files a host may send                                 *)
  BadFile,    (* those in which the header has no data field               *)
  Command,    (* the one-character commands of the CLI, and "recfg" (#R)   *)
  HeaderLen,  (* bytes in front of the size                                *)
  SizeLen,    (* XILINX_SIZE_OF_SIZE, fpga.h                               *)
  DataLen,    (* DataLen[f]: the size stored in the file                   *)
  PadLen,     (* trailing bytes of the data the FPGA can do without        *)
  MaxSize     (* largest value of fileSize, 2^32 - 1 in the firmware; also *)
              (* what a size read from erased flash is                     *)

ASSUME FileAssumption ==
  /\ BadFile \subseteq File
  /\ HeaderLen \in Nat \ {0}
  /\ SizeLen \in Nat \ {0}
  /\ PadLen \in Nat
  /\ MaxSize \in Nat
  /\ DataLen \in [File -> 0 .. MaxSize]

Byte == (File \cup Command \cup {"blank"}) \X Nat

Blank == <<"blank", 0>>

Typed(c) == <<c, 0>>

GoodFile == File \ BadFile

(* Where the data starts, and how long the file is. *)
DataStart == HeaderLen + SizeLen
FileLen(f) == DataStart + DataLen[f]

(***************************************************************************)
(* XilinxGetHeaderField(buffer, XILINX_FIELD_DATA) # 0: the preamble and   *)
(* the fields up to the data field are there.  buffer is a function on     *)
(* offsets from 0.  The pointer the code gets is buffer + HeaderLen.       *)
(***************************************************************************)
HeaderOf(f, buffer) == \A i \in 0 .. HeaderLen - 1 : buffer[i] = <<f, i>>

DataFieldFound(buffer) == \E f \in GoodFile : HeaderOf(f, buffer)

(***************************************************************************)
(* XilinxExtractBitstreamSize.  The size is stored most significant byte   *)
(* first; once a byte of it is 0xFF or from elsewhere the value is larger  *)
(* than any bitstream, which MaxSize stands for.                           *)
(***************************************************************************)
SizeOf(f, buffer) == \A i \in HeaderLen .. DataStart - 1 : buffer[i] = <<f, i>>

ExtractSize(buffer) ==
  IF \E f \in GoodFile : SizeOf(f, buffer)
  THEN DataLen[CHOOSE f \in GoodFile : SizeOf(f, buffer)]
  ELSE MaxSize

(* The data of f that the FPGA must have seen before it can raise DONE. *)
Essential(f) == IF DataLen[f] > PadLen THEN DataLen[f] - PadLen ELSE DataLen[f]

(* The bytes clocked into the FPGA hold a complete design. *)
DesignLoaded(bytes) ==
  \E f \in GoodFile :
    /\ Len(bytes) >= Essential(f)
    /\ \A i \in 1 .. Essential(f) : bytes[i] = <<f, DataStart + i - 1>>
=============================================================================
