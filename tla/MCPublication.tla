---------------------------- MODULE MCPublication ----------------------------
(***************************************************************************)
(* One output, two, and three the last of which is as long as it can be,   *)
(* with the code's own limits.  Two calls of one length give chunks with   *)
(* equal totals and starts.                                                *)
(***************************************************************************)
EXTENDS Publication

MCEvidenceLens == {164, 6000, 3 * MaxChunk}
=============================================================================
