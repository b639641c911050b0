------------------------------ MODULE SealedBox ------------------------------
(***************************************************************************)
(* What encrypt_public_decrypt promises, with no step of how: a request    *)
(* goes in, and what a reader gets from the result is the request's own    *)
(* payload and signature under their keys, with label and mime type; or an *)
(* error, for an oversized field or an unlucky search only.                *)
(***************************************************************************)
EXTENDS Descriptor

CONSTANT Requests

VARIABLES
  request,    \* the request handed in last, or None
  answer      \* what its result says to a reader, or None before it

vars == <<request, answer>>

Present(s) == IF NonEmpty(s) THEN s ELSE None

Item(key, text, label, mime) ==
  [key |-> key, text |-> text, label |-> label, mime |-> mime]

(* What the box holds: the signature's label and mime type are the         *)
(* daemon's.                                                               *)
Filled(r) ==
  [error |-> None,
   payload |-> Item(DATA_DESCRIPTOR_KEY, r.plaintext,
                    Present(r.label), Present(r.mime)),
   signature |->
     IF r.signature = None THEN None
     ELSE Item(SIGNATURE_DATA_KEY, r.signature,
               Bytes("signature", 9), Bytes("application/json", 16))]

Oversize(r) == TooLong(r.label, LabelCap) \/ TooLong(r.mime, MimeCap)

Answers(r) ==
  {[error |-> "DiversifierSearchExhausted"],
   IF Oversize(r) THEN [error |-> "Wire"] ELSE Filled(r)}

Init == request = None /\ answer = None

Submit ==
  /\ request = None \/ answer # None
  /\ request' \in Requests /\ answer' = None

Answer ==
  /\ request # None /\ answer = None
  /\ answer' \in Answers(request)
  /\ UNCHANGED request

Next == Submit \/ Answer

Safety == Init /\ [][Next]_vars

Spec == Safety /\ WF_vars(Answer)
=============================================================================
