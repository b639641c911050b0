--------------------------- MODULE EvidenceChannel ---------------------------
(***************************************************************************)
(* What the data-deposit outputs promise, whatever their number: an        *)
(* evidence handed in is read back from them, all of it, before the next   *)
(* one is accepted.                                                        *)
(***************************************************************************)
EXTENDS Option

CONSTANT Evidence

VARIABLES
  accepted,    \* the evidence handed in last, or None
  readBack     \* what a reader gets from the outputs, or None before them

vars == <<accepted, readBack>>

Init == accepted = None /\ readBack = None

Accept ==
  /\ accepted = None \/ readBack # None
  /\ accepted' \in Evidence /\ readBack' = None

Deliver ==
  /\ accepted # None /\ readBack = None
  /\ readBack' = accepted
  /\ UNCHANGED accepted

Next == Accept \/ Deliver

Spec == Init /\ [][Next]_vars /\ WF_vars(Deliver)
=============================================================================
