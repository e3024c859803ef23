------------------------------- MODULE Base64 -------------------------------
(***************************************************************************)
(* enc_base64 and dec_base64 (V3C.cpp), with which payloads are put into   *)
(* session descriptions: three bytes become four digits of six bits, the   *)
(* last group is padded.  A letter of the alphabet is its index, 0 to 63.  *)
(***************************************************************************)
EXTENDS Integers, Sequences, SequencesExt

CONSTANT Pad   \* the character '='

(* The four digits, or the three bytes, of a 24-bit number *)
Digit(val, i) == (val \div 64^(4 - i)) % 64
Byte(val, i) == (val \div 256^(3 - i)) % 256

(* Byte i of the input, 0 past its end *)
At(in, i) == IF i <= Len(in) THEN in[i] ELSE 0
Group24(in, g) == At(in, 3 * g - 2) * 65536 + At(in, 3 * g - 1) * 256 + At(in, 3 * g)

Padding(len) == (3 - (len % 3)) % 3

(* Group g of the output; the last one has its padding *)
EncGroup(in, g) ==
  LET pad == IF 3 * g > Len(in) THEN Padding(Len(in)) ELSE 0
  IN [i \in 1..4 |-> IF i > 4 - pad THEN Pad ELSE Digit(Group24(in, g), i)]

enc_base64(in) == FlattenSeq([g \in 1..(Len(in) + 2) \div 3 |-> EncGroup(in, g)])

-----------------------------------------------------------------------------
(* dec_base64 throws on a length that is no multiple of four, and reads     *)
(* before the buffer when the length is 0.                                  *)
Pads(in) == Cardinality({i \in Len(in) - 1..Len(in) : in[i] = Pad})
Value(c) == IF c = Pad THEN 0 ELSE c

DecGroupPadded(in, g) ==   \* mutant: the bytes of the padding stay
  LET val == Value(in[4 * g - 3]) * 262144 + Value(in[4 * g - 2]) * 4096
               + Value(in[4 * g - 1]) * 64 + Value(in[4 * g])
  IN [i \in 1..3 |-> Byte(val, i)]

DecGroup(in, g) ==
  LET val == Value(in[4 * g - 3]) * 262144 + Value(in[4 * g - 2]) * 4096
               + Value(in[4 * g - 1]) * 64 + Value(in[4 * g])
      pad == IF 4 * g = Len(in) THEN Pads(in) ELSE 0
  IN [i \in 1..3 - pad |-> Byte(val, i)]

dec_base64(in) == FlattenSeq([g \in 1..Len(in) \div 4 |-> DecGroup(in, g)])
=============================================================================
