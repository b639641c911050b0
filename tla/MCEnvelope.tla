----------------------------- MODULE MCEnvelope -----------------------------
(***************************************************************************)
(* Requests for the model checker, with the code's own limits and lengths. *)
(***************************************************************************)
EXTENDS EnvelopeRefinement

MCContents == {"plaintext", "signature bytes", "label", "mime", "signature",
               "application/json"}

Request(plaintext, signature, label, mime) ==
  [plaintext |-> plaintext, signature |-> signature,
   label |-> label, mime |-> mime, vout |-> 3, key |-> "outer_vdxf_key"]

Payload(n)  == Bytes("plaintext", n)
Sig(n)      == Bytes("signature bytes", n)
Label(n)    == Bytes("label", n)
Mime(n)     == Bytes("mime", n)

(* Empty, one script, a trial script of 5999 and 6000 bytes without a      *)
(* signature, two chunks, three chunks.                                    *)
PayloadLens == {0, 40, 5743, 5744, 5745, 11500}

(* One call: every optional field absent, empty, at and over its cap.      *)
OneCallRequests ==
  {Request(Payload(p), s, l, m) :
     p \in PayloadLens, s \in {None} \cup {Sig(n) : n \in {0, 300}},
     l \in {None} \cup {Label(n) : n \in {0, 64, 65}},
     m \in {None} \cup {Mime(n) : n \in {0, 128, 129}}}

(* Several calls: without and with a signature, and rejected for its label *)
(* after it was split.                                                     *)
ManyCallsRequests ==
  {Request(Payload(40), None, Label(8), None),
   Request(Payload(40), Sig(300), None, None),
   Request(Payload(5800), None, Label(65), None)}

(* A generator modulo the prime 23: its first 22 scalars are distinct.     *)
(* Stream11 lasts for two full calls with a signature behind one that      *)
(* fails early, or for more that fail.                                     *)
MCStream(n) == [i \in 1..n |-> (5 * i) % 23]
Stream5  == MCStream(5)
Stream11 == MCStream(11)
=============================================================================
