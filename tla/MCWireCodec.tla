---------------------------- MODULE MCWireCodec ----------------------------
(***************************************************************************)
(* Bytes of three bits, VARINT digits of two, words of seven bytes: as in  *)
(* the code the last digit of the greatest word is not a full one.         *)
(***************************************************************************)
EXTENDS WireCodec

(* Both sides of every change of length, of MAX_SIZE and of the greatest   *)
(* word.                                                                   *)
CompactValues == {0, 4, 5, 63, 64, 1000, 1001, 4095, 4096, MaxU64}
VarIntValues  == {0, 3, 4, 19, 20, 83, 84, 1000, MaxU64 - 1, MaxU64}

MCFields ==
  [kind : {"compact"}, value : CompactValues]
    \cup [kind : {"varint"}, value : VarIntValues]
=============================================================================
