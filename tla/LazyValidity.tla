---------------------------- MODULE LazyValidity ----------------------------
(***************************************************************************)
(* The validity bitmap every writer of geoarrow-c builds lazily.  No       *)
(* memory is allocated until the first null feature of a batch; at that    *)
(* moment the bits of the features before it are filled in as "valid".     *)
(* Whether the bitmap exists is decided by its data pointer, not by its    *)
(* size, so an emptied bitmap that kept its memory still counts.           *)
(*                                                                         *)
(* data stands for "validity.buffer.data != NULL", bits for the bits that  *)
(* were appended (nanoarrow's ArrowBitmap, an external library).           *)
(***************************************************************************)
EXTENDS Integers, Sequences, FiniteSets

Bit == {0, 1}

Bitmap == [data : BOOLEAN, bits : Seq(Bit)]

(* ArrowBitmapInit, and what ArrowArraySetValidityBitmap leaves behind. *)
NoBitmap == [data |-> FALSE, bits |-> << >>]

(* ArrowBitmapResize(bitmap, 0, 0): the size is reset, the memory kept. *)
Emptied(bitmap) == [bitmap EXCEPT !.bits = << >>]

(* ArrowBitmapAppend(bitmap, bit, 1) *)
AppendBit(bitmap, bit) == [data |-> TRUE, bits |-> Append(bitmap.bits, bit)]

(* Mutant: the features before the first null are filled in the wrong way. *)
MarkNull_SwappedBits(bitmap, length) ==
  IF bitmap.data
  THEN AppendBit(bitmap, 0)
  ELSE [data |-> TRUE,
        bits |-> [i \in 1 .. length |-> IF i = length THEN 1 ELSE 0]]

(* A null is recorded as the length-th feature of the batch. *)
MarkNull(bitmap, length) ==
  IF bitmap.data
  THEN AppendBit(bitmap, 0)
  ELSE [data |-> TRUE,
        bits |-> [i \in 1 .. length |-> IF i = length THEN 0 ELSE 1]]

(* Mutant: a valid feature never gets a bit. *)
MarkValid_NoBit(bitmap) == bitmap

(* A valid feature only needs a bit once the bitmap exists. *)
MarkValid(bitmap) == IF bitmap.data THEN AppendBit(bitmap, 1) ELSE bitmap

-----------------------------------------------------------------------------
(* Readings of a bitmap, used by the properties. *)

(* What an Arrow consumer sees of the i-th element. *)
IsValid(bitmap, i) == bitmap.bits = << >> \/ bitmap.bits[i] = 1

ZeroBits(bits) == {i \in DOMAIN bits : bits[i] = 0}

NullCount(bitmap) == Cardinality(ZeroBits(bitmap.bits))
=============================================================================
