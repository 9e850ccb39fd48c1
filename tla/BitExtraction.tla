---------------------------- MODULE BitExtraction ----------------------------
(***************************************************************************)
(* The Extract operation of session_object_command computes its value byte *)
(* by byte, joining the tail of one byte of the base with the head of the  *)
(* next and wrapping around at the end.  The loop is compared with what it *)
(* is meant to compute: consecutive bits of the base, taken cyclically,    *)
(* most significant bit first.                                             *)
(***************************************************************************)
EXTENDS Integers, Sequences

CONSTANTS
  Width,     \* bits per byte, 8 in the code
  MaxBase    \* bound: bytes in the base

ASSUME ExtractionAssumption == Width \in Nat \ {0} /\ MaxBase \in Nat \ {0}

Bytes == 0 .. 2^Width - 1

\* (base[byte] << shift) | (base[byte + 1] >> (8 - shift)); the two parts have
\* no bit in common, and the left shift drops what leaves the byte.  The code
\* counts bytes from 0.
ExtractedByte(base, offset, index) ==
  LET bit   == (offset + index * Width) % (Len(base) * Width)
      byte  == bit \div Width
      shift == bit % Width
      next  == (byte + 1) % Len(base) IN
  IF shift = 0 THEN base[byte + 1]
  ELSE ((base[byte + 1] * 2^shift) % 2^Width)
         + (base[next + 1] \div 2^(Width - shift))

\* The loop: one byte for each index below output_length.
ExtractedBytes(base, offset, output_length) ==
  [i \in 1..output_length |-> ExtractedByte(base, offset, i - 1)]

\* Bit i of a byte string, from the most significant bit of its first byte.
BitOf(bytes, i) ==
  (bytes[(i \div Width) + 1] \div 2^(Width - 1 - (i % Width))) % 2

\* For every request that passes the checks before the loop (an offset inside
\* the base, no more output than base), bit i of the value is bit offset + i of
\* the base, around its end, and every byte of the value is a byte.
ExtractsConsecutiveBits ==
  \A n \in 1..MaxBase : \A base \in [1..n -> Bytes] :
    \A offset \in 0 .. n * Width - 1, output_length \in 1..n :
      LET value == ExtractedBytes(base, offset, output_length) IN
      /\ \A i \in 1..output_length : value[i] \in Bytes
      /\ \A i \in 0 .. output_length * Width - 1 :
           BitOf(value, i) = BitOf(base, (offset + i) % (n * Width))

=============================================================================
