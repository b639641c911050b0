------------------------------ MODULE Envelope ------------------------------
(***************************************************************************)
(* encrypt_public_decrypt (api.rs): one call after the other, each a       *)
(* sequence of steps that draw from one random number generator.  A call   *)
(* samples an ephemeral recipient (ivk, diversifier, pk_d), encrypts the   *)
(* payload and the optional signature to it (pass 1), deposits the two as  *)
(* notary evidence, then encrypts to the same recipient one outer          *)
(* descriptor for each that points at its evidence and publishes the ivk.  *)
(***************************************************************************)
EXTENDS Sapling, Descriptor, BreakApart

CONSTANTS
  Requests,     \* the EncryptRequests callers make
  Stream,       \* the scalars Fr::random returns, in order
  RetryBudget   \* DIVERSIFIER_RETRY_BUDGET, 64 in the code

DrawsPerCall == 5

(* EncryptError's variants.                                                *)
Errors == {"Wire", "Crypto", "Ephemeral", "DiversifierSearchExhausted"}

(* The generator is a CSPRNG: no two of its 252-bit scalars coincide.      *)
ASSUME EnvelopeAssumption ==
  /\ Stream \in Seq(Scalars)
  /\ \A i, j \in DOMAIN Stream : i # j => Stream[i] # Stream[j]
  /\ RetryBudget \in Nat
  /\ None \notin ByteStrings /\ None \notin Errors
  /\ {"signature", "application/json"} \subseteq Contents
  /\ Requests \subseteq
       [plaintext : ByteStrings, signature : ByteStrings \cup {None},
        label : ByteStrings \cup {None}, mime : ByteStrings \cup {None},
        vout : Nat, key : STRING]

(* Nor is one of them zero, which would make every ivk open an encryption. *)
ASSUME NonzeroAssumption == \A k \in DOMAIN Stream : Stream[k] # 0

VARIABLES
  pc,           \* the step of the call under way, "idle" between calls
  req,          \* its request
  draws,        \* scalars drawn from Stream so far
  tries,        \* turns taken by find_valid_diversifier's loop
  ivk, diversifier, pkd,    \* the ephemeral recipient
  pass1,        \* the serialized pass-1 descriptors: payload, signature
  evidence,     \* the CVDXF_Data in each chain object of the CNotaryEvidence
  cmm,          \* the outer descriptors in the cmm value: payload, signature
  outcome,      \* what the last call returned
  encryptions   \* history: key and text of every aead_encrypt

recipient == <<ivk, diversifier, pkd>>
vars == <<pc, req, draws, tries, recipient, pass1, evidence, cmm, outcome,
          encryptions, depositVars>>

-----------------------------------------------------------------------------
Init ==
  /\ pc = "idle" /\ req = None /\ outcome = None
  /\ draws = 0 /\ tries = 0
  /\ ivk = None /\ diversifier = None /\ pkd = None
  /\ pass1 = <<>> /\ evidence = <<>> /\ cmm = <<>>
  /\ encryptions = <<>>
  /\ DepositInit

Goto(from, to) == pc = from /\ pc' = to

(* The Err arm of a step: the locals are dropped with the call.            *)
Fail(error) ==
  /\ pc' = "idle"
  /\ outcome' = [error |-> error]

(* A mutant gives the signature's pass 1 the payload's esk.                *)
NextDrawReused == Stream[IF pc = "pass1_signature" THEN draws ELSE draws + 1]

NextDraw == Stream[draws + 1]

Call(r) ==
  /\ draws + DrawsPerCall <= Len(Stream)          \* bounds the calls
  /\ Goto("idle", "sample_ivk")
  /\ req' = r /\ outcome' = None
  /\ tries' = 0
  /\ ivk' = None /\ diversifier' = None /\ pkd' = None
  /\ pass1' = <<>> /\ evidence' = <<>> /\ cmm' = <<>>
  /\ UNCHANGED <<draws, encryptions, depositVars>>

(* 1. Fr::random for the ivk.  A mutant keeps the first one for all calls. *)
SampleIvkOnce ==
  /\ Goto("sample_ivk", "find_diversifier")
  /\ ivk' = Stream[1] /\ draws' = draws + 1
  /\ UNCHANGED <<req, tries, diversifier, pkd, pass1, evidence, cmm, outcome,
                 encryptions, depositVars>>

SampleIvk ==
  /\ Goto("sample_ivk", "find_diversifier")
  /\ ivk' = NextDraw /\ draws' = draws + 1
  /\ UNCHANGED <<req, tries, diversifier, pkd, pass1, evidence, cmm, outcome,
                 encryptions, depositVars>>

(* A mutant takes one turn too many.                                       *)
TryDiversifierOverBudget ==
  /\ pc = "find_diversifier" /\ tries < RetryBudget + 1
  /\ \E d \in Diversifiers :
       \/ /\ IsPoint(DeriveGd(d))
          /\ pc' = "pass1_data"
          /\ diversifier' = d /\ pkd' = Mul(ivk, DeriveGd(d))
          /\ UNCHANGED tries
       \/ /\ ~IsPoint(DeriveGd(d))
          /\ tries' = tries + 1
          /\ UNCHANGED <<pc, diversifier, pkd>>
  /\ UNCHANGED <<req, draws, ivk, pass1, evidence, cmm, outcome, encryptions,
                 depositVars>>

(* One turn of find_valid_diversifier's loop, and pk_d when it succeeds.   *)
TryDiversifier ==
  /\ pc = "find_diversifier" /\ tries < RetryBudget
  /\ \E d \in Diversifiers :
       \/ /\ IsPoint(DeriveGd(d))
          /\ pc' = "pass1_data"
          /\ diversifier' = d /\ pkd' = Mul(ivk, DeriveGd(d))
          /\ UNCHANGED tries
       \/ /\ ~IsPoint(DeriveGd(d))
          /\ tries' = tries + 1
          /\ UNCHANGED <<pc, diversifier, pkd>>
  /\ UNCHANGED <<req, draws, ivk, pass1, evidence, cmm, outcome, encryptions,
                 depositVars>>

(* A mutant starts the search over.                                        *)
ExhaustDiversifiersStartOver ==
  /\ pc = "find_diversifier" /\ tries >= RetryBudget
  /\ tries' = 0
  /\ UNCHANGED <<pc, req, draws, recipient, pass1, evidence, cmm, outcome,
                 encryptions, depositVars>>

ExhaustDiversifiers ==
  /\ pc = "find_diversifier" /\ tries >= RetryBudget
  /\ Fail("DiversifierSearchExhausted")
  /\ UNCHANGED <<req, draws, tries, recipient, pass1, evidence, cmm,
                 encryptions, depositVars>>

-----------------------------------------------------------------------------
(* The key agreement both passes share: the esk is drawn, the epk derived  *)
(* from it and the diversifier, the key from both.                         *)
Epk(esk) == DeriveEpk(esk, diversifier)
Key(esk) == Kdf(KaAgree(esk, pkd), Epk(esk))

SealError(esk) ==
  CASE Epk(esk) = None -> "Ephemeral"
    [] Epk(esk) # None /\ KaAgree(esk, pkd) = None -> "Crypto"
    [] OTHER -> None

Record(esk, text) ==
  encryptions' = Append(encryptions, [key |-> Key(esk), text |-> text])

(* encrypt_pass1_cdd: a flags:5 descriptor of the encrypted text.          *)
Pass1Descriptor(esk, text) ==
  WriteDescriptor([NewDescriptor(AeadEncrypt(Key(esk), text))
                     EXCEPT !.encrypted = TRUE, !.epk = Epk(esk)])

EncryptPass1(text, next) ==
  LET esk == NextDraw IN
  /\ draws' = draws + 1
  /\ \/ /\ SealError(esk) # None
        /\ Fail(SealError(esk))
        /\ UNCHANGED <<pass1, encryptions>>
     \/ /\ SealError(esk) = None
        /\ pass1' = Append(pass1, Pass1Descriptor(esk, text))
        /\ Record(esk, text)
        /\ pc' = next
        /\ UNCHANGED outcome
  /\ UNCHANGED <<req, tries, recipient, evidence, cmm, depositVars>>

(* 2. Pass 1 over the payload.                                             *)
EncryptData ==
  /\ pc = "pass1_data"
  /\ EncryptPass1(req.plaintext,
       IF req.signature # None THEN "pass1_signature" ELSE "evidence")

(* 2b. Pass 1 over the signature, to the same pk_d.                        *)
EncryptSignature ==
  /\ pc = "pass1_signature"
  /\ EncryptPass1(req.signature, "evidence")

-----------------------------------------------------------------------------
(* 3 and 4. The descriptors in their CVDXF_Data wrappers become the chain  *)
(* objects of the evidence, payload first.  A mutant gives both entries    *)
(* the payload's key.                                                      *)
EvidenceKeyPayload(i) == DATA_DESCRIPTOR_KEY

EvidenceKey(i) == IF i = 1 THEN DATA_DESCRIPTOR_KEY ELSE SIGNATURE_DATA_KEY

EvidenceLen(entries) ==
  NotaryEvidenceLen(Len(entries),
    DataObjectLen(entries[1].len)
      + (IF Len(entries) > 1 THEN DataObjectLen(entries[2].len) ELSE 0))

BuildEvidence ==
  /\ Goto("evidence", "deposit")
  /\ evidence' = [i \in DOMAIN pass1 |-> CvdxfData(EvidenceKey(i), pass1[i])]
  /\ BuildTrial(EvidenceLen(evidence'))
  /\ UNCHANGED <<req, draws, tries, recipient, pass1, cmm, outcome,
                 encryptions>>

(* The threshold and break_apart, to their end.                            *)
DepositStep ==
  /\ pc = "deposit"
  /\ KeepTrial \/ BeginSplit \/ AppendChunk \/ FinishSplit
  /\ pc' = IF phase' = "done" THEN "outer_data" ELSE "deposit"
  /\ UNCHANGED <<req, draws, tries, recipient, pass1, evidence, cmm, outcome,
                 encryptions>>

-----------------------------------------------------------------------------
(* build_outer_wrapped_descriptor and the flags:13 descriptor around it:   *)
(* the inner descriptor carries the pointer, label and mime type, and is   *)
(* encrypted whole in a CVDXF_Data wrapper.  The esk is drawn before a cap *)
(* can reject the label.                                                   *)
InnerDescriptorPayload(sub_object, label, mime) ==     \* mutant: always 0
  [NewDescriptor(SelfRef(req.vout, 0, 0)) EXCEPT !.label = label, !.mime = mime]

InnerDescriptor(sub_object, label, mime) ==
  [NewDescriptor(SelfRef(req.vout, 0, sub_object))
     EXCEPT !.label = label, !.mime = mime]

OuterDescriptorLabelled(esk, text) ==       \* mutant: the label stays outside
  WriteDescriptor([NewDescriptor(AeadEncrypt(Key(esk), text))
                     EXCEPT !.encrypted = TRUE, !.epk = Epk(esk), !.ivk = ivk,
                            !.label = req.label])

OuterDescriptor(esk, text) ==
  WriteDescriptor([NewDescriptor(AeadEncrypt(Key(esk), text))
                     EXCEPT !.encrypted = TRUE, !.epk = Epk(esk), !.ivk = ivk])

OuterError(esk, inner) ==
  CASE SealError(esk) # None -> SealError(esk)
    [] SealError(esk) = None /\ LimitedStringError(inner) # None -> "Wire"
    [] OTHER -> None

WrapOuter(inner, next) ==
  LET esk  == NextDraw
      text == CvdxfData(DATA_DESCRIPTOR_KEY, WriteDescriptor(inner))
  IN
  /\ draws' = draws + 1
  /\ \/ /\ OuterError(esk, inner) # None
        /\ Fail(OuterError(esk, inner))
        /\ UNCHANGED <<cmm, encryptions>>
     \/ /\ OuterError(esk, inner) = None
        /\ cmm' = Append(cmm, OuterDescriptor(esk, text))
        /\ Record(esk, text)
        /\ pc' = next
        /\ UNCHANGED outcome
  /\ UNCHANGED <<req, tries, recipient, pass1, evidence, depositVars>>

(* 5. The payload's outer descriptor, with the caller's label and mime.    *)
WrapData ==
  /\ pc = "outer_data"
  /\ WrapOuter(InnerDescriptor(0, req.label, req.mime),
       IF req.signature # None THEN "outer_signature" ELSE "return")

(* 6. The signature's, with the label and mime type the daemon stamps.     *)
SIGNATURE_OUTER_LABEL     == Bytes("signature", 9)
SIGNATURE_OUTER_MIME_TYPE == Bytes("application/json", 16)

WrapSignature ==
  /\ pc = "outer_signature"
  /\ WrapOuter(InnerDescriptor(1, SIGNATURE_OUTER_LABEL,
                               SIGNATURE_OUTER_MIME_TYPE), "return")

Return ==
  /\ Goto("return", "idle")
  /\ outcome' = [error |-> None, key |-> req.key, cmm |-> cmm, scripts |-> out,
                 ivk |-> ivk, epk |-> cmm[1].epk,
                 diversifier |-> diversifier, pkd |-> pkd]
  /\ UNCHANGED <<req, draws, tries, recipient, pass1, evidence, cmm,
                 encryptions, depositVars>>

-----------------------------------------------------------------------------
Step ==
  \/ SampleIvk \/ TryDiversifier \/ ExhaustDiversifiers
  \/ EncryptData \/ EncryptSignature
  \/ BuildEvidence \/ DepositStep
  \/ WrapData \/ WrapSignature \/ Return

Next == Step \/ \E r \in Requests : Call(r)

(* The function is synchronous: the thread that entered it runs it to its  *)
(* end.                                                                    *)
Spec == Init /\ [][Next]_vars /\ WF_vars(Step)
-----------------------------------------------------------------------------
Optional(S) == S \cup {None}

FlagSets == SUBSET {FLAG_ENCRYPTED_DATA, FLAG_ENCRYPTION_PUBLIC_KEY_PRESENT,
                    FLAG_INCOMING_VIEWING_KEY_PRESENT, FLAG_LABEL_PRESENT,
                    FLAG_MIME_TYPE_PRESENT}

Ciphertexts(texts) == [key : Keys, text : texts, len : Nat]

Serialized(objects) ==
  [flags : FlagSets, object : objects, label : Optional(ByteStrings),
   mime : Optional(ByteStrings), epk : Optional(Points),
   ivk : Optional(Scalars), len : Nat]

Cvdxf(data) ==
  [key : {DATA_DESCRIPTOR_KEY, SIGNATURE_DATA_KEY}, data : data, len : Nat]

Pass1Descriptors == Serialized(Ciphertexts(ByteStrings))
InnerTexts ==
  Cvdxf(Serialized([vout : Nat, objectNum : {0}, subObject : {0, 1}, len : Nat]))
OuterDescriptors == Serialized(Ciphertexts(InnerTexts))

(* A text that decrypts is not a failure to decrypt.                       *)
ASSUME TextAssumption == None \notin InnerTexts

Results ==
  [error : {None}, key : STRING, cmm : Seq(OuterDescriptors),
   scripts : Seq(Output), ivk : Scalars, epk : Optional(Points),
   diversifier : ValidDiversifiers, pkd : Points]

TypeOK ==
  /\ pc \in {"idle", "sample_ivk", "find_diversifier", "pass1_data",
             "pass1_signature", "evidence", "deposit", "outer_data",
             "outer_signature", "return"}
  /\ req \in Optional(Requests)
  /\ draws \in 0..Len(Stream) /\ tries \in 0..RetryBudget
  /\ ivk \in Optional(Scalars) /\ pkd \in Optional(Points)
  /\ diversifier \in Optional(ValidDiversifiers)
  /\ pass1 \in Seq(Pass1Descriptors)
  /\ evidence \in Seq(Cvdxf(Pass1Descriptors))
  /\ cmm \in Seq(OuterDescriptors)
  /\ outcome \in Optional([error : Errors] \cup Results)
  /\ encryptions \in Seq([key : Keys, text : ByteStrings \cup InnerTexts])
  /\ DepositTypeOK

Returned  == pc = "idle" /\ outcome # None
Succeeded == Returned /\ outcome.error = None

(* What a reader of the transaction does with an outer descriptor: the     *)
(* ivk and epk published with it give the key of its object, and so do the *)
(* same ivk and the epk of a pass-1 descriptor (rust/tests/                *)
(* stage1_decrypt.rs walks the same path).                                 *)
Open(key_ivk, descriptor) ==
  AeadDecrypt(Kdf(KaAgree(key_ivk, descriptor.epk), descriptor.epk),
              descriptor.object)

Expected(s) == IF NonEmpty(s) THEN s ELSE None

RecoversFrom(o, key, text, label, mime) ==
  LET inner == Open(o.ivk, o) IN
  /\ inner # None
  /\ inner.data.label = Expected(label) /\ inner.data.mime = Expected(mime)
  /\ LET ref == inner.data.object IN
     /\ ref.vout = req.vout /\ ref.objectNum = 0
     /\ ref.subObject + 1 \in DOMAIN evidence
     /\ LET entry == evidence[ref.subObject + 1] IN
        /\ entry.key = key
        /\ Open(o.ivk, entry.data) = text

(* From the cmm value and the scripts alone, the published ivk recovers    *)
(* the payload with its label and mime type and, if there is one, the      *)
(* signature with the daemon's: the pointers pick the right chain object,  *)
(* the scripts give the evidence back, every layer opens                   *)
(* (encrypt_public_decrypt as a whole).                                    *)
RoundTrip ==
  Succeeded =>
    /\ Readable(outcome.scripts, EvidenceLen(evidence))
    /\ Len(outcome.cmm) = IF req.signature # None THEN 2 ELSE 1
    /\ RecoversFrom(outcome.cmm[1], DATA_DESCRIPTOR_KEY, req.plaintext,
                    req.label, req.mime)
    /\ req.signature # None =>
         RecoversFrom(outcome.cmm[2], SIGNATURE_DATA_KEY, req.signature,
                      SIGNATURE_OUTER_LABEL, SIGNATURE_OUTER_MIME_TYPE)

(* "The nonce is zero because we never reuse keys" (crypto.rs): no key     *)
(* encrypts twice, neither within a call, whose passes share ivk and pk_d, *)
(* nor across calls, failed ones included.                                 *)
KeyNeverReused ==
  \A i, j \in DOMAIN encryptions :
    i # j => encryptions[i].key # encryptions[j].key

(* The ivk a call publishes opens what that call encrypted, all of it, and *)
(* nothing another call encrypted (encrypt_public_decrypt steps 1 to 6).   *)
IvkOpensItsCallOnly ==
  Succeeded =>
    LET opened == {i \in DOMAIN encryptions :
                     LET k == encryptions[i].key
                     IN  k = Kdf(KaAgree(outcome.ivk, k.epk), k.epk)}
        own    == Len(encryptions) - (Len(pass1) + Len(cmm))
    IN  opened = own + 1..Len(encryptions)

(* A call fails for a label or a mime type over its cap, or because the    *)
(* diversifier search ran its budget, and for no other reason.  Crypto     *)
(* "indicates a bug" (EncryptError).  Ephemeral is documented as a sampled *)
(* diversifier that failed group_hash, but the search tries again on those *)
(* and derive_epk sees none it has not accepted.  A call with a field over *)
(* its cap never succeeds.                                                 *)
ErrorsExplained ==
  LET oversize == TooLong(req.label, LabelCap) \/ TooLong(req.mime, MimeCap) IN
  Returned =>
    /\ outcome.error \in {None, "Wire", "DiversifierSearchExhausted"}
    /\ outcome.error = "DiversifierSearchExhausted" => tries = RetryBudget
    /\ outcome.error = "Wire" => oversize
    /\ outcome.error = None => ~oversize

(* The caller's label and mime type, and the ivk, are not in the clear     *)
(* anywhere but where flags:13 and flags:5 allow: the ivk on the outer     *)
(* descriptors, label and mime type nowhere (api.rs steps 2 and 5).        *)
InTheClear ==
  /\ \A i \in DOMAIN pass1 : pass1[i].flags =
       {FLAG_ENCRYPTED_DATA, FLAG_ENCRYPTION_PUBLIC_KEY_PRESENT}
  /\ \A i \in DOMAIN cmm : cmm[i].flags =
       {FLAG_ENCRYPTED_DATA, FLAG_ENCRYPTION_PUBLIC_KEY_PRESENT,
        FLAG_INCOMING_VIEWING_KEY_PRESENT}

(* Every call returns: the retry budget "guarantees termination" of the    *)
(* diversifier search and break_apart's loop ends.                         *)
EveryCallReturns == pc = "sample_ivk" ~> Returned

-----------------------------------------------------------------------------
(* "the cofactor multiplication is a no-op on the encrypt side"            *)
(* (sapling_ka_agree's comment).                                           *)
CofactorIsNoOp == pkd # None => MulByCofactor(pkd) = pkd
=============================================================================
