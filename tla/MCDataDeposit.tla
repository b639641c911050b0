---------------------------- MODULE MCDataDeposit ----------------------------
(***************************************************************************)
(* Lengths around every boundary of the split with the code's own limits:  *)
(* the threshold itself (a trial script of 5999, 6000, 6001 bytes), whole  *)
(* multiples of the chunk size, a last chunk around the CompactSize and    *)
(* push widths, and offsets around the VARINT widths.                      *)
(***************************************************************************)
EXTENDS DataDeposit

Around(n) == n - 2..n + 2

(* 164 bytes is the evidence of an empty payload, the shortest there is.   *)
MCEvidenceLens ==
     {164} \cup Around(MaxScript - 87)
  \cup UNION {Around(k * MaxChunk) : k \in {2, 3, 4, 12}}
  \cup UNION {Around(2 * MaxChunk + w) : w \in {76, 253, 255}}
  \cup UNION {Around(w) : w \in {16512, 65535}}
=============================================================================
