-------------------------- MODULE EnvelopeRefinement --------------------------
(***************************************************************************)
(* Envelope implements SealedBox: seen through a reader's eyes, the eleven *)
(* steps of a call are one, and every call is a box filled and handed out. *)
(***************************************************************************)
EXTENDS Envelope

(* A reader's way from one outer descriptor: open it, follow the pointer   *)
(* inside into the reassembled evidence, open the descriptor found there.  *)
(* Where a turn leads nowhere the reader has None.                         *)
Follow(inner) ==
  LET entry == evidence[inner.data.object.subObject + 1]
  IN  [key |-> entry.key, text |-> Open(outcome.ivk, entry.data),
       label |-> inner.data.label, mime |-> inner.data.mime]

ReadItem(descriptor) ==
  LET inner == Open(outcome.ivk, descriptor)
  IN  IF /\ inner # None
         /\ inner.data.object.vout = req.vout
         /\ inner.data.object.subObject + 1 \in DOMAIN evidence
      THEN Follow(inner) ELSE None

ReadResult ==
  IF Readable(outcome.scripts, EvidenceLen(evidence))
  THEN [error     |-> None,
        payload   |-> ReadItem(outcome.cmm[1]),
        signature |-> IF Len(outcome.cmm) = 2
                      THEN ReadItem(outcome.cmm[2]) ELSE None]
  ELSE None

ReadAnswer ==
  IF Succeeded THEN ReadResult ELSE IF Returned THEN outcome ELSE None

Box == INSTANCE SealedBox WITH request <- req, answer <- ReadAnswer

(* Requests, outcomes and answers can be told from none.                   *)
ASSUME AnswerAssumption ==
  /\ None \notin Requests /\ None \notin [error : Errors] \cup Results
  /\ \A r \in Requests : None \notin Box!Answers(r)

(* A call promises no less than the sealed box: its result reads as the    *)
(* request, key by key, nothing is answered twice or for another request,  *)
(* and it fails only as the box may (encrypt_public_decrypt as a whole).   *)
(* EveryCallReturns says that it answers.                                  *)
ImplementsSealedBox == Box!Safety
=============================================================================
