------------------------------ MODULE Encoding ------------------------------
(***************************************************************************)
(* The two integer encodings of wire.rs at the level of bytes.  The radix  *)
(* of a byte and the width of a u64 are parameters: a byte has one bit     *)
(* more than a VARINT digit.                                               *)
(***************************************************************************)
EXTENDS Integers, SequencesExt

CONSTANTS
  Base,         \* 128: the values of a VARINT digit
  WordBytes     \* 8: the bytes of a u64

Radix == 2 * Base

(* The powers of the two, as products.                                     *)
RadixTo[k \in Nat] == IF k = 0 THEN 1 ELSE Radix * RadixTo[k - 1]
BaseTo[k \in Nat]  == IF k = 0 THEN 1 ELSE Base * BaseTo[k - 1]

MaxU64 == RadixTo[WordBytes] - 1

ASSUME EncodingAssumption ==
  Base \in Nat /\ Base > 1 /\ WordBytes \in Nat /\ WordBytes > 4

-----------------------------------------------------------------------------
(* to_le_bytes of a width-byte integer, and its inverse.                   *)
LeBytes(n, width) == [i \in 1..width |-> (n \div RadixTo[i - 1]) % Radix]

LeValue(bytes) ==
  LET sum[i \in 0..Len(bytes)] ==
        IF i = 0 THEN 0 ELSE sum[i - 1] + bytes[i] * RadixTo[i - 1]
  IN  sum[Len(bytes)]

(* A mutant gives the first two-byte value a single byte.                  *)
WriteCompactSizeOneByteMore(n) ==
  IF n <= Radix - 3 THEN <<n>>
  ELSE IF n < RadixTo[2] THEN <<Radix - 3>> \o LeBytes(n, 2)
  ELSE IF n < RadixTo[4] THEN <<Radix - 2>> \o LeBytes(n, 4)
  ELSE <<Radix - 1>> \o LeBytes(n, WordBytes)

WriteCompactSize(n) ==
  CASE n < Radix - 3                        -> <<n>>
    [] Radix - 3 <= n /\ n < RadixTo[2]      -> <<Radix - 3>> \o LeBytes(n, 2)
    [] RadixTo[2] <= n /\ n < RadixTo[4]      -> <<Radix - 2>> \o LeBytes(n, 4)
    [] OTHER                                -> <<Radix - 1>> \o LeBytes(n, WordBytes)

(* write_varint_u64: rest[k] is n after k turns of its loop, negative once *)
(* the loop has ended; tmp[k], written on turn k, is marked on every turn  *)
(* but the first, and is emitted from the last to the first.               *)
TmpSize == CHOOSE k \in 1..9 * WordBytes :
             /\ BaseTo[k] > MaxU64 /\ BaseTo[k - 1] <= MaxU64

WriteVarInt(n) ==
  LET rest[k \in 0..TmpSize] ==
        IF k = 0 THEN n ELSE rest[k - 1] \div Base - 1
      last == CHOOSE k \in 0..TmpSize : rest[k] >= 0 /\ rest[k] < Base
      tmp  == [k \in 0..last |-> (rest[k] % Base) + (IF k = 0 THEN 0 ELSE Base)]
  IN  [i \in 1..last + 1 |-> tmp[last + 1 - i]]

(* What read_varint_u64 makes of a VARINT's bytes, if a u64 has room.      *)
VarIntValue(bytes) ==
  LET n[i \in 0..Len(bytes)] ==
        IF i = 0 THEN 0
        ELSE n[i - 1] * Base + (bytes[i] % Base) + (IF bytes[i] >= Base THEN 1 ELSE 0)
  IN  n[Len(bytes)]

(* write_var_bytes                                                         *)
WriteVarBytes(bytes) == WriteCompactSize(Len(bytes)) \o bytes

-----------------------------------------------------------------------------
(* The bytes that follow a CompactSize tag, and the least value each form  *)
(* may carry.                                                              *)
Width(tag) ==
  CASE tag < Radix - 3 -> 0
    [] tag = Radix - 3 -> 2
    [] tag = Radix - 2 -> 4
    [] OTHER           -> WordBytes

LeastOf(tag) ==
  CASE tag < Radix - 3 -> 0
    [] tag = Radix - 3 -> Radix - 3
    [] tag = Radix - 2 -> RadixTo[2]
    [] OTHER           -> RadixTo[4]
=============================================================================
