----------------------------- MODULE ByteCodec ------------------------------
(***************************************************************************)
(* The size fields of sample streams (V3C.cpp) and the precision inferred  *)
(* for them (Sample_Stream.cpp): a size is written big-endian in as many   *)
(* bytes as the precision says.  A byte has ByteBits bits, eight in the    *)
(* code, and a precision is a number of bytes.                             *)
(***************************************************************************)
EXTENDS Integers, SequencesExt

CONSTANTS
  ByteBits,           \* SIZE_PREC_MULT, bits of a byte
  MAX_V3C_SIZE_PREC,  \* most bytes of a size field
  Thrown              \* result of a call that throws

ASSUME ByteAssumption ==
  /\ ByteBits \in Nat \ {0} /\ MAX_V3C_SIZE_PREC \in Nat \ {0}

Base == 2^ByteBits

combineBytes(bytes) == FoldLeft(LAMBDA acc, b : acc * Base + b, 0, bytes)

(* The bytes above the first n are cut off *)
convert_size_big_endian(in, n) == [i \in 1..n |-> (in \div Base^(n - i)) % Base]

-----------------------------------------------------------------------------
(* The header of a sample stream: precision - 1 in the upper three bits *)
parse_size_precision(byte) == ((byte \div 32) % 8) + 1
write_size_precision(precision) == ((precision + 7) % 8) * 32

parse_sample_stream_size(bytes, precision) ==
  IF precision \in 1..MAX_V3C_SIZE_PREC THEN combineBytes(SubSeq(bytes, 1, precision)) ELSE Thrown

(* With precision 0, the VPS payload's, no size is written *)
write_sample_stream_size(size, precision) ==
  IF precision > MAX_V3C_SIZE_PREC THEN Thrown ELSE convert_size_big_endian(size, precision)

-----------------------------------------------------------------------------
BelowOrEqual(size, precision) == size <= Base^precision   \* mutant: off by one at the boundary

Below(size, precision) == size < Base^precision

calc_min_size_precision(size) ==
  IF Below(size, 1) THEN 1
  ELSE IF Below(size, 4) THEN IF ~ Below(size, 3) THEN 4 ELSE IF Below(size, 2) THEN 2 ELSE 3
  ELSE IF Below(size, 6) THEN IF Below(size, 5) THEN 5 ELSE 6
  ELSE IF Below(size, 7) THEN 7 ELSE 8
=============================================================================
