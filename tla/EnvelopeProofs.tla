--------------------------- MODULE EnvelopeProofs ---------------------------
(***************************************************************************)
(* Envelope's types, and that no AEAD key encrypts twice, for every group  *)
(* order, every stream of distinct scalars, every set of requests and      *)
(* every number of calls.                                                  *)
(*                                                                         *)
(* The scalar of an ephemeral key can be read off its epk: epk = esk * g_d *)
(* and the multiple of that point is esk itself.  So two equal keys would  *)
(* be two encryptions under one scalar of the stream, and every encryption *)
(* consumes a scalar no earlier step has drawn.                            *)
(*                                                                         *)
(* Both sides of the key agreement meet, so what a call publishes opens to *)
(* its request.  A call is therefore a sealed box filled and handed out:   *)
(* its one visible step is the one that returns.                           *)
(***************************************************************************)
EXTENDS EnvelopeRefinement, BreakApartProofs

-----------------------------------------------------------------------------
(* A product is reduced into the scalars, and its point has the base it    *)
(* was multiplied from or is the identity.                                 *)
LEMMA MulType ==
  ASSUME NEW s \in Nat, NEW p \in Points
  PROVE  Mul(s, p) \in Points /\ Mul(s, p) # None
<1>1. PICK b \in ValidDiversifiers \cup {None}, m \in Scalars :
        p = [base |-> b, multiple |-> m]
  BY DEF Points
<1>2. s * m \in Nat
  BY DEF Scalars
<1>3. (s * m) % Q \in Scalars
  BY <1>2, SaplingAssumption DEF SaplingAssumption, Scalars
<1>4. Mul(s, p) \in Points
  <2>1. p.multiple = m /\ p.base = b
    BY <1>1
  <2>2. 0 \in Scalars
    BY SaplingAssumption DEF SaplingAssumption, Scalars
  <2> QED
    BY <2>1, <2>2, <1>3 DEF Mul, Identity, Point, Points
<1> QED
  BY <1>4, SaplingAssumption DEF SaplingAssumption

(* The epk of a valid diversifier is a point, and its scalar is the esk.   *)
LEMMA EpkScalar ==
  ASSUME NEW esk \in Scalars, NEW d \in ValidDiversifiers
  PROVE  /\ DeriveEpk(esk, d) \in Points /\ DeriveEpk(esk, d) # None
         /\ DeriveEpk(esk, d).multiple = esk
<1>1. DeriveEpk(esk, d).multiple = esk
  BY SaplingAssumption
     DEF SaplingAssumption, DeriveEpk, DeriveGd, IsPoint, Mul, Identity, Point,
         Scalars, Points
<1>2. 1 \in Scalars /\ esk \in Nat
  BY SaplingAssumption DEF SaplingAssumption, Scalars
<1>3. Point(d, 1) \in Points /\ DeriveGd(d) = Point(d, 1)
  BY <1>2 DEF Point, Points, DeriveGd
<1>4. Mul(esk, Point(d, 1)) \in Points /\ Mul(esk, Point(d, 1)) # None
  BY <1>2, <1>3, MulType
<1>5. DeriveEpk(esk, d) = Mul(esk, Point(d, 1))
  BY <1>3, SaplingAssumption DEF DeriveEpk, IsPoint, SaplingAssumption
<1> QED
  BY <1>1, <1>4, <1>5

(* Key agreement succeeds on every scalar and point.                       *)
LEMMA KaAgreeType ==
  ASSUME NEW s \in Scalars, NEW p \in Points
  PROVE  KaAgree(s, p) \in Points /\ KaAgree(s, p) # None
<1>1. s \in Nat
  BY SaplingAssumption DEF SaplingAssumption, Scalars
<1>2. MulByCofactor(p) \in Points
  BY MulType DEF MulByCofactor
<1>3. Mul(s, MulByCofactor(p)) \in Points /\ Mul(s, MulByCofactor(p)) # None
  BY <1>1, <1>2, MulType
<1>4. IsPoint(p)
  BY SaplingAssumption DEF IsPoint, SaplingAssumption
<1> QED
  BY <1>3, <1>4 DEF KaAgree

-----------------------------------------------------------------------------
LEMMA VarBytesLenType == ASSUME NEW n \in Nat PROVE VarBytesLen(n) \in Nat
BY CompactSizeLenBounds DEF VarBytesLen

LEMMA CvdxfDataType ==
  ASSUME NEW S, NEW key \in {DATA_DESCRIPTOR_KEY, SIGNATURE_DATA_KEY},
         NEW data \in S, data.len \in Nat
  PROVE  CvdxfData(key, data) \in Cvdxf(S)
<1>1. VarIntLen(1) \in Nat
  BY VarIntLenBounds
<1>2. VarBytesLen(data.len) \in Nat
  BY VarBytesLenType
<1> QED
  BY <1>1, <1>2 DEF CvdxfData, Cvdxf, CvdxfDataLen

Descriptors(objects) ==
  [encrypted : BOOLEAN, object : objects, label : Optional(ByteStrings),
   mime : Optional(ByteStrings), epk : Optional(Points), ivk : Optional(Scalars)]

(* Whatever fields are set, what is written is a serialized descriptor.    *)
LEMMA WriteDescriptorType ==
  ASSUME NEW S, NEW dd \in Descriptors(S), dd.object.len \in Nat
  PROVE  WriteDescriptor(dd) \in Serialized(S)
<1> DEFINE flags == CalcFlags(dd)
           FieldLen(f, n) == IF f \in flags THEN VarBytesLen(n) ELSE 0
           len == DescriptorLen(dd.object.len,
                      FieldLen(FLAG_LABEL_PRESENT, dd.label.len)
                    + FieldLen(FLAG_MIME_TYPE_PRESENT, dd.mime.len)
                    + FieldLen(FLAG_ENCRYPTION_PUBLIC_KEY_PRESENT, 32)
                    + FieldLen(FLAG_INCOMING_VIEWING_KEY_PRESENT, 32))
<1>1. flags \in FlagSets
  BY DEF CalcFlags, FlagSets
<1>2. FLAG_LABEL_PRESENT \in flags => NonEmpty(dd.label)
  BY DEF CalcFlags, FLAG_ENCRYPTED_DATA, FLAG_ENCRYPTION_PUBLIC_KEY_PRESENT,
         FLAG_INCOMING_VIEWING_KEY_PRESENT, FLAG_LABEL_PRESENT,
         FLAG_MIME_TYPE_PRESENT
<1>3. FLAG_MIME_TYPE_PRESENT \in flags => NonEmpty(dd.mime)
  BY DEF CalcFlags, FLAG_ENCRYPTED_DATA, FLAG_ENCRYPTION_PUBLIC_KEY_PRESENT,
         FLAG_INCOMING_VIEWING_KEY_PRESENT, FLAG_LABEL_PRESENT,
         FLAG_MIME_TYPE_PRESENT
<1>4. dd.label \in Optional(ByteStrings) /\ dd.mime \in Optional(ByteStrings)
  BY DEF Descriptors
<1> HIDE DEF flags
<1>5. FieldLen(FLAG_LABEL_PRESENT, dd.label.len) \in Nat
  <2>1. FLAG_LABEL_PRESENT \in flags => dd.label.len \in Nat
    BY <1>2, <1>4 DEF NonEmpty, Optional, ByteStrings
  <2> QED
    BY <2>1, VarBytesLenType
<1>6. FieldLen(FLAG_MIME_TYPE_PRESENT, dd.mime.len) \in Nat
  <2>1. FLAG_MIME_TYPE_PRESENT \in flags => dd.mime.len \in Nat
    BY <1>3, <1>4 DEF NonEmpty, Optional, ByteStrings
  <2> QED
    BY <2>1, VarBytesLenType
<1>7. /\ FieldLen(FLAG_ENCRYPTION_PUBLIC_KEY_PRESENT, 32) \in Nat
      /\ FieldLen(FLAG_INCOMING_VIEWING_KEY_PRESENT, 32) \in Nat
  <2>1. VarBytesLen(32) \in Nat
    BY VarBytesLenType
  <2> QED
    BY <2>1
<1>8. VarBytesLen(dd.object.len) \in Nat
  BY VarBytesLenType
<1> HIDE DEF FieldLen
<1>9. len \in Nat
  BY <1>5, <1>6, <1>7, <1>8 DEF DescriptorLen
<1> HIDE DEF len
<1>10. WriteDescriptor(dd) =
         [flags  |-> flags,
          object |-> dd.object,
          label  |-> IF FLAG_LABEL_PRESENT \in flags THEN dd.label ELSE None,
          mime   |-> IF FLAG_MIME_TYPE_PRESENT \in flags THEN dd.mime ELSE None,
          epk    |-> IF FLAG_ENCRYPTION_PUBLIC_KEY_PRESENT \in flags
                     THEN dd.epk ELSE None,
          ivk    |-> IF FLAG_INCOMING_VIEWING_KEY_PRESENT \in flags
                     THEN dd.ivk ELSE None,
          len    |-> len]
  BY DEF WriteDescriptor, flags, len, FieldLen
<1> QED
  BY <1>1, <1>9, <1>10 DEF Serialized, Descriptors, Optional

-----------------------------------------------------------------------------
(* Scalars a call may still draw: what Call reserves and no step oversteps *)
(* (api.rs: the ivk, two esks for pass 1, two for the outer descriptors).  *)
Reserve ==
  CASE pc = "sample_ivk" -> 5
    [] pc \in {"find_diversifier", "pass1_data"} -> 4
    [] pc = "pass1_signature" -> 3
    [] pc \in {"evidence", "deposit", "outer_data"} -> 2
    [] pc = "outer_signature" -> 1
    [] OTHER -> 0

AfterPass1 == {"evidence", "deposit", "outer_data", "outer_signature", "return"}

(* What each step of a call may rely on: the request, the recipient and    *)
(* the descriptors that earlier steps of the call have left behind.        *)
CallInv ==
  /\ draws + Reserve <= Len(Stream)
  /\ pc # "idle" => req \in Requests
  /\ pc \notin {"idle", "sample_ivk"} => ivk \in Scalars
  /\ pc \in {"pass1_data", "pass1_signature"} \cup AfterPass1 =>
       diversifier \in ValidDiversifiers /\ pkd \in Points
  /\ pc = "pass1_signature" => req.signature # None
  /\ pc \in AfterPass1 => Len(pass1) > 0
  /\ pc \in {"outer_signature", "return"} => Len(cmm) > 0

(* The scalar behind an encryption's ephemeral key.                        *)
ScalarOf(e) == e.key.epk.multiple

(* Every encryption so far used up a scalar of its own.                    *)
FreshInv ==
  /\ \A i \in DOMAIN encryptions :
       \E k \in 1..draws : ScalarOf(encryptions[i]) = Stream[k]
  /\ \A i, j \in DOMAIN encryptions :
       i # j => ScalarOf(encryptions[i]) # ScalarOf(encryptions[j])

Inv == TypeOK /\ CallInv /\ DepositInv /\ FreshInv

-----------------------------------------------------------------------------
LEMMA FreshStutter ==
  ASSUME TypeOK, FreshInv, encryptions' = encryptions, draws' \in {draws, draws + 1}
  PROVE  FreshInv'
<1>1. 1..draws \subseteq 1..draws'
  BY DEF TypeOK
<1> QED
  BY <1>1 DEF FreshInv

(* The key agreement of a step after the search succeeds, and its epk's    *)
(* scalar is the one drawn.                                                *)
LEMMA Sealed ==
  ASSUME TypeOK, diversifier \in ValidDiversifiers, pkd \in Points,
         draws + 1 <= Len(Stream)
  PROVE  /\ NextDraw \in Scalars
         /\ SealError(NextDraw) = None
         /\ Epk(NextDraw) \in Points /\ Key(NextDraw) \in Keys
         /\ Key(NextDraw).epk.multiple = NextDraw
<1>1. draws + 1 \in 1..Len(Stream)
  BY DEF TypeOK
<1>2. NextDraw \in Scalars
  BY <1>1, EnvelopeAssumption DEF EnvelopeAssumption, NextDraw
<1>3. Epk(NextDraw) \in Points /\ Epk(NextDraw) # None
      /\ Epk(NextDraw).multiple = NextDraw
  BY <1>2, EpkScalar DEF Epk
<1>4. KaAgree(NextDraw, pkd) \in Points /\ KaAgree(NextDraw, pkd) # None
  BY <1>2, KaAgreeType
<1>5. SealError(NextDraw) = None
  BY <1>3, <1>4 DEF SealError
<1> QED
  BY <1>2, <1>3, <1>4, <1>5 DEF Key, Kdf, Keys

(* An encryption under the scalar just drawn is a fresh one.               *)
LEMMA RecordFresh ==
  ASSUME TypeOK, FreshInv, NEW text \in ByteStrings \cup InnerTexts,
         diversifier \in ValidDiversifiers, pkd \in Points,
         draws + 1 <= Len(Stream), draws' = draws + 1, Record(NextDraw, text)
  PROVE  /\ encryptions' \in Seq([key : Keys, text : ByteStrings \cup InnerTexts])
         /\ FreshInv'
<1> DEFINE e == [key |-> Key(NextDraw), text |-> text]
           n == Len(encryptions)
<1>1. e \in [key : Keys, text : ByteStrings \cup InnerTexts]
      /\ ScalarOf(e) = NextDraw
  BY Sealed DEF ScalarOf
<1>2. encryptions \in Seq([key : Keys, text : ByteStrings \cup InnerTexts])
      /\ draws \in Nat /\ draws + 1 \in 1..Len(Stream)
      /\ encryptions' = Append(encryptions, e)
  BY DEF TypeOK, Record
<1> HIDE DEF e
<1>3. encryptions' \in Seq([key : Keys, text : ByteStrings \cup InnerTexts])
  BY <1>1, <1>2
<1>4. /\ DOMAIN encryptions' = 1..n + 1 /\ DOMAIN encryptions = 1..n /\ n \in Nat
      /\ \A i \in 1..n : encryptions'[i] = encryptions[i]
      /\ encryptions'[n + 1] = e
  BY <1>1, <1>2
<1> HIDE DEF n
<1>5. \A k \in 1..draws : Stream[k] # NextDraw
  <2>1. DOMAIN Stream = 1..Len(Stream)
    BY EnvelopeAssumption DEF EnvelopeAssumption
  <2> QED
    BY <2>1, <1>2, EnvelopeAssumption DEF EnvelopeAssumption, NextDraw
<1>6. \A i \in 1..n : ScalarOf(encryptions[i]) # NextDraw
  BY <1>4, <1>5 DEF FreshInv
<1>7. \A i \in DOMAIN encryptions' :
        \E k \in 1..draws' : ScalarOf(encryptions'[i]) = Stream[k]
  <2>1. 1..draws \subseteq 1..draws' /\ draws + 1 \in 1..draws'
    BY <1>2
  <2>2. ASSUME NEW i \in 1..n
        PROVE  \E k \in 1..draws' : ScalarOf(encryptions'[i]) = Stream[k]
    BY <2>1, <2>2, <1>4 DEF FreshInv
  <2>3. ScalarOf(encryptions'[n + 1]) = Stream[draws + 1]
    BY <1>1, <1>4 DEF NextDraw
  <2> QED
    BY <2>1, <2>2, <2>3, <1>4
<1>8. \A i, j \in DOMAIN encryptions' :
        i # j => ScalarOf(encryptions'[i]) # ScalarOf(encryptions'[j])
  BY <1>1, <1>4, <1>6 DEF FreshInv
<1> QED
  BY <1>3, <1>7, <1>8 DEF FreshInv

-----------------------------------------------------------------------------
LEMMA InitInv == Init => Inv
<1> SUFFICES ASSUME Init PROVE Inv
  OBVIOUS
<1>1. DepositInv /\ DepositTypeOK
  BY DepositInitInv DEF Init, DepositInv
<1>2. Len(Stream) \in Nat /\ RetryBudget \in Nat
  BY EnvelopeAssumption DEF EnvelopeAssumption
<1>3. TypeOK
  BY <1>1, <1>2 DEF Init, TypeOK, Optional
<1>4. CallInv
  BY <1>2 DEF Init, CallInv, Reserve, AfterPass1
<1>5. FreshInv
  BY DEF Init, FreshInv
<1> QED
  BY <1>1, <1>3, <1>4, <1>5 DEF Inv

LEMMA CallPreserves ==
  ASSUME Inv, NEW r \in Requests, Call(r)
  PROVE  Inv'
<1>1. DepositInv' /\ DepositTypeOK'
  BY DepositStutter DEF Inv, Call, DepositInv
<1>2. Len(Stream) \in Nat /\ RetryBudget \in Nat
  BY EnvelopeAssumption DEF EnvelopeAssumption
<1>3. TypeOK'
  BY <1>1, <1>2 DEF Inv, TypeOK, Call, Goto, Optional
<1>4. CallInv'
  BY <1>2 DEF Inv, TypeOK, Call, Goto, CallInv, Reserve, AfterPass1, DrawsPerCall
<1>5. FreshInv'
  BY FreshStutter DEF Inv, Call
<1> QED
  BY <1>1, <1>3, <1>4, <1>5 DEF Inv

LEMMA SampleIvkPreserves ==
  ASSUME Inv, SampleIvk
  PROVE  Inv'
<1>1. DepositInv' /\ DepositTypeOK'
  BY DepositStutter DEF Inv, SampleIvk, DepositInv
<1>2. draws + 5 <= Len(Stream) /\ draws \in Nat /\ Len(Stream) \in Nat
  BY EnvelopeAssumption DEF EnvelopeAssumption, Inv, TypeOK, CallInv, Reserve, SampleIvk, Goto
<1>3. NextDraw \in Scalars
  BY <1>2, EnvelopeAssumption DEF EnvelopeAssumption, NextDraw
<1>4. TypeOK'
  BY <1>1, <1>2, <1>3 DEF Inv, TypeOK, SampleIvk, Goto, Optional
<1>5. CallInv'
  BY <1>2, <1>3 DEF Inv, SampleIvk, Goto, CallInv, Reserve, AfterPass1
<1>6. FreshInv'
  BY FreshStutter DEF Inv, SampleIvk
<1> QED
  BY <1>1, <1>4, <1>5, <1>6 DEF Inv

LEMMA TryDiversifierPreserves ==
  ASSUME Inv, TryDiversifier
  PROVE  Inv'
<1>1. DepositInv' /\ DepositTypeOK'
  BY DepositStutter DEF Inv, TryDiversifier, DepositInv
<1>2. RetryBudget \in Nat /\ Len(Stream) \in Nat
  BY EnvelopeAssumption DEF EnvelopeAssumption
<1>3. PICK d \in Diversifiers :
        \/ /\ IsPoint(DeriveGd(d))
           /\ pc' = "pass1_data"
           /\ diversifier' = d /\ pkd' = Mul(ivk, DeriveGd(d))
           /\ UNCHANGED tries
        \/ /\ ~IsPoint(DeriveGd(d))
           /\ tries' = tries + 1
           /\ UNCHANGED <<pc, diversifier, pkd>>
  BY DEF TryDiversifier
<1>4. pc = "find_diversifier" /\ ivk \in Scalars
  BY DEF Inv, TryDiversifier, CallInv
<1>5. IsPoint(DeriveGd(d)) =>
        /\ d \in ValidDiversifiers
        /\ Mul(ivk, DeriveGd(d)) \in Points
  <2> SUFFICES ASSUME IsPoint(DeriveGd(d))
               PROVE  d \in ValidDiversifiers /\ Mul(ivk, DeriveGd(d)) \in Points
    OBVIOUS
  <2>1. d \in ValidDiversifiers
    BY DEF IsPoint, DeriveGd
  <2>2. 1 \in Scalars /\ ivk \in Nat
    BY <1>4, SaplingAssumption DEF SaplingAssumption, Scalars
  <2>3. DeriveGd(d) \in Points
    BY <2>1, <2>2 DEF DeriveGd, Point, Points
  <2> QED
    BY <2>1, <2>2, <2>3, MulType
<1>6. TypeOK'
  BY <1>1, <1>2, <1>3, <1>4, <1>5 DEF Inv, TypeOK, TryDiversifier, Optional
<1>7. CallInv'
  BY <1>3, <1>4, <1>5 DEF Inv, TryDiversifier, CallInv, Reserve, AfterPass1
<1>8. FreshInv'
  BY FreshStutter DEF Inv, TryDiversifier
<1> QED
  BY <1>1, <1>6, <1>7, <1>8 DEF Inv

LEMMA ExhaustDiversifiersPreserves ==
  ASSUME Inv, ExhaustDiversifiers
  PROVE  Inv'
<1>1. DepositInv' /\ DepositTypeOK'
  BY DepositStutter DEF Inv, ExhaustDiversifiers, DepositInv
<1>2. [error |-> "DiversifierSearchExhausted"] \in [error : Errors]
  BY DEF Errors
<1>3. TypeOK'
  BY <1>1, <1>2 DEF Inv, TypeOK, ExhaustDiversifiers, Fail, recipient, Optional
<1>4. CallInv'
  BY DEF Inv, TypeOK, ExhaustDiversifiers, Fail, CallInv, Reserve, AfterPass1
<1>5. FreshInv'
  BY FreshStutter DEF Inv, ExhaustDiversifiers
<1> QED
  BY <1>1, <1>3, <1>4, <1>5 DEF Inv

(* A descriptor built from NewDescriptor with an encrypted object and its  *)
(* keys is a descriptor to write.                                          *)
LEMMA Pass1DescriptorType ==
  ASSUME NEW esk, NEW text \in ByteStrings, Key(esk) \in Keys, Epk(esk) \in Points
  PROVE  Pass1Descriptor(esk, text) \in Pass1Descriptors
<1> DEFINE S  == Ciphertexts(ByteStrings)
           ct == AeadEncrypt(Key(esk), text)
           dd == [NewDescriptor(ct) EXCEPT !.encrypted = TRUE, !.epk = Epk(esk)]
<1>1. text.len \in Nat
  BY DEF ByteStrings
<1>2. ct \in S /\ ct.len \in Nat
  BY <1>1 DEF AeadEncrypt, Ciphertexts
<1> HIDE DEF ct, S
<1>3. dd \in Descriptors(S) /\ dd.object.len \in Nat
  <2>1. dd \in [encrypted : {TRUE}, object : S, label : {None}, mime : {None},
               epk : Points, ivk : {None}]
    BY <1>2 DEF NewDescriptor
  <2>2. dd.object = ct
    BY DEF NewDescriptor
  <2> HIDE DEF dd
  <2> QED
    BY <2>1, <2>2, <1>2 DEF Descriptors, Optional
<1> HIDE DEF dd
<1>4. WriteDescriptor(dd) \in Serialized(S)
  BY <1>3, WriteDescriptorType
<1> QED
  BY <1>4 DEF dd, ct, S, Pass1Descriptor, Pass1Descriptors

LEMMA EncryptPass1Preserves ==
  ASSUME Inv, NEW text \in ByteStrings, NEW next \in {"pass1_signature", "evidence"},
         next = "pass1_signature" => pc = "pass1_data" /\ req.signature # None,
         pc \in {"pass1_data", "pass1_signature"}, EncryptPass1(text, next)
  PROVE  Inv'
<1>1. DepositInv' /\ DepositTypeOK'
  BY DepositStutter DEF Inv, EncryptPass1, DepositInv
<1>2. /\ diversifier \in ValidDiversifiers /\ pkd \in Points /\ req \in Requests
      /\ draws + 3 <= Len(Stream) /\ draws \in Nat /\ Len(Stream) \in Nat
      /\ pc = "pass1_data" => draws + 4 <= Len(Stream)
      /\ TypeOK /\ FreshInv
  BY SMTT(20), EnvelopeAssumption DEF EnvelopeAssumption, Inv, TypeOK, CallInv, Reserve
<1>3. /\ NextDraw \in Scalars /\ SealError(NextDraw) = None
      /\ Epk(NextDraw) \in Points /\ Key(NextDraw) \in Keys
  BY <1>2, Sealed
<1>4. /\ draws' = draws + 1 /\ pc' = next
      /\ pass1' = Append(pass1, Pass1Descriptor(NextDraw, text))
      /\ Record(NextDraw, text)
      /\ UNCHANGED <<req, tries, recipient, evidence, cmm, outcome, depositVars>>
  BY <1>3 DEF EncryptPass1
<1>5. Pass1Descriptor(NextDraw, text) \in Pass1Descriptors
  BY <1>3, Pass1DescriptorType
<1>6. pass1' \in Seq(Pass1Descriptors) /\ Len(pass1') > 0
  BY <1>2, <1>4, <1>5 DEF TypeOK
<1>7. FreshInv' /\ encryptions' \in Seq([key : Keys, text : ByteStrings \cup InnerTexts])
  <2>1. draws + 1 <= Len(Stream) /\ text \in ByteStrings \cup InnerTexts
    BY <1>2
  <2> QED
    BY <1>2, <1>4, <2>1, RecordFresh
<1>8. TypeOK'
  BY <1>1, <1>2, <1>4, <1>6, <1>7 DEF TypeOK, recipient
<1>9. CallInv'
  BY <1>2, <1>4, <1>6 DEF Inv, CallInv, Reserve, AfterPass1, recipient
<1> QED
  BY <1>1, <1>7, <1>8, <1>9 DEF Inv

LEMMA RequestFields ==
  ASSUME NEW r \in Requests
  PROVE  /\ r.plaintext \in ByteStrings /\ r.signature \in Optional(ByteStrings)
         /\ r.label \in Optional(ByteStrings) /\ r.mime \in Optional(ByteStrings)
         /\ r.vout \in Nat /\ r.key \in STRING
BY EnvelopeAssumption DEF EnvelopeAssumption, Optional

LEMMA EncryptDataPreserves == ASSUME Inv, EncryptData PROVE Inv'
<1> DEFINE next == IF req.signature # None THEN "pass1_signature" ELSE "evidence"
<1>1. pc = "pass1_data" /\ EncryptPass1(req.plaintext, next)
  BY DEF EncryptData
<1>2. req \in Requests
  BY <1>1 DEF Inv, CallInv
<1>3. req.plaintext \in ByteStrings
  BY <1>2, RequestFields
<1>4. /\ next \in {"pass1_signature", "evidence"}
      /\ next = "pass1_signature" => pc = "pass1_data" /\ req.signature # None
  BY <1>1
<1> HIDE DEF next
<1> QED
  BY <1>1, <1>3, <1>4, EncryptPass1Preserves

LEMMA EncryptSignaturePreserves == ASSUME Inv, EncryptSignature PROVE Inv'
<1>1. pc = "pass1_signature" /\ EncryptPass1(req.signature, "evidence")
  BY DEF EncryptSignature
<1>2. req \in Requests /\ req.signature # None
  BY <1>1 DEF Inv, CallInv
<1>3. req.signature \in ByteStrings
  BY <1>2, RequestFields DEF Optional
<1> QED
  BY <1>1, <1>3, EncryptPass1Preserves

LEMMA EvidenceLenType ==
  ASSUME NEW S, NEW entries \in Seq(Cvdxf(S)), Len(entries) > 0
  PROVE  EvidenceLen(entries) \in Nat
<1>1. Len(entries) \in Nat /\ entries[1].len \in Nat
      /\ (Len(entries) > 1 => entries[2].len \in Nat)
  <2>1. Len(entries) \in Nat /\ 1 \in DOMAIN entries
        /\ (Len(entries) > 1 => 2 \in DOMAIN entries)
    OBVIOUS
  <2>2. \A i \in DOMAIN entries : entries[i] \in Cvdxf(S)
    OBVIOUS
  <2>3. \A e \in Cvdxf(S) : e.len \in Nat
    BY DEF Cvdxf
  <2> QED
    BY <2>1, <2>2, <2>3
<1>2. \A n \in Nat : DataObjectLen(n) \in Nat
  <2> TAKE n \in Nat
  <2>1. VarIntLen(1) \in Nat
    BY VarIntLenBounds
  <2>2. VarBytesLen(n) \in Nat
    BY VarBytesLenType
  <2> QED
    BY <2>1, <2>2 DEF DataObjectLen
<1>3. DataObjectLen(entries[1].len)
        + (IF Len(entries) > 1 THEN DataObjectLen(entries[2].len) ELSE 0) \in Nat
  <2>1. DataObjectLen(entries[1].len) \in Nat
    BY <1>1, <1>2
  <2>2. Len(entries) > 1 => DataObjectLen(entries[2].len) \in Nat
    BY <1>1, <1>2
  <2> QED
    BY <2>1, <2>2
<1>4. VarIntLen(Len(entries)) \in Nat
  BY <1>1, VarIntLenBounds
<1> QED
  BY <1>3, <1>4 DEF EvidenceLen, NotaryEvidenceLen

LEMMA BuildEvidencePreserves == ASSUME Inv, BuildEvidence PROVE Inv'
<1>1. /\ pc = "evidence" /\ pc' = "deposit"
      /\ evidence' = [i \in DOMAIN pass1 |-> CvdxfData(EvidenceKey(i), pass1[i])]
      /\ BuildTrial(EvidenceLen(evidence'))
      /\ UNCHANGED <<req, draws, tries, recipient, pass1, cmm, outcome, encryptions>>
  BY DEF BuildEvidence, Goto
<1>2. pass1 \in Seq(Pass1Descriptors) /\ Len(pass1) > 0
  BY <1>1 DEF Inv, TypeOK, CallInv, AfterPass1
<1>3. \A i \in DOMAIN pass1 :
        CvdxfData(EvidenceKey(i), pass1[i]) \in Cvdxf(Pass1Descriptors)
  <2> SUFFICES ASSUME NEW i \in DOMAIN pass1
               PROVE  CvdxfData(EvidenceKey(i), pass1[i]) \in Cvdxf(Pass1Descriptors)
    OBVIOUS
  <2>1. pass1[i] \in Pass1Descriptors
    BY <1>2
  <2>2. pass1[i].len \in Nat
    BY <2>1 DEF Pass1Descriptors, Serialized
  <2>3. EvidenceKey(i) \in {DATA_DESCRIPTOR_KEY, SIGNATURE_DATA_KEY}
    BY DEF EvidenceKey
  <2> QED
    BY <2>1, <2>2, <2>3, CvdxfDataType
<1>4. evidence' \in Seq(Cvdxf(Pass1Descriptors)) /\ Len(evidence') > 0
  BY <1>1, <1>2, <1>3
<1>5. EvidenceLen(evidence') \in Nat
  <2>1. \A S : \A entries \in Seq(Cvdxf(S)) :
           Len(entries) > 0 => EvidenceLen(entries) \in Nat
    BY EvidenceLenType
  <2> QED
    BY <2>1, <1>4
<1>6. DepositInv' /\ DepositTypeOK'
  BY <1>1, <1>5, BuildTrialInv DEF DepositInv
<1>7. TypeOK'
  BY <1>1, <1>4, <1>6 DEF Inv, TypeOK, recipient
<1>8. CallInv'
  BY <1>1 DEF Inv, CallInv, Reserve, AfterPass1, recipient
<1>9. FreshInv'
  BY <1>1, FreshStutter DEF Inv
<1> QED
  BY <1>6, <1>7, <1>8, <1>9 DEF Inv

LEMMA DepositStepPreserves == ASSUME Inv, DepositStep PROVE Inv'
<1>1. DepositInv' /\ DepositTypeOK'
  BY KeepTrialInv, BeginSplitInv, AppendChunkInv, FinishSplitInv
     DEF Inv, DepositStep, DepositInv
<1>2. /\ pc = "deposit" /\ pc' \in {"deposit", "outer_data"}
      /\ UNCHANGED <<req, draws, tries, recipient, pass1, evidence, cmm, outcome,
                     encryptions>>
  BY DEF DepositStep
<1>3. TypeOK'
  BY <1>1, <1>2 DEF Inv, TypeOK, recipient
<1>4. CallInv'
  BY <1>2 DEF Inv, CallInv, Reserve, AfterPass1, recipient
<1>5. FreshInv'
  BY <1>2, FreshStutter DEF Inv
<1> QED
  BY <1>1, <1>3, <1>4, <1>5 DEF Inv

-----------------------------------------------------------------------------
Pointers == [vout : Nat, objectNum : {0}, subObject : {0, 1}, len : Nat]

LEMMA InnerDescriptorType ==
  ASSUME NEW n \in {0, 1}, NEW label \in Optional(ByteStrings),
         NEW mime \in Optional(ByteStrings), req \in Requests
  PROVE  /\ InnerDescriptor(n, label, mime) \in Descriptors(Pointers)
         /\ InnerDescriptor(n, label, mime).object.len \in Nat
<1> DEFINE p  == SelfRef(req.vout, 0, n)
           dd == [NewDescriptor(p) EXCEPT !.label = label, !.mime = mime]
<1>1. p \in Pointers /\ p.len \in Nat
  <2>1. VarIntLen(1) \in Nat /\ VarIntLen(0) \in Nat /\ VarIntLen(n) \in Nat
    BY VarIntLenBounds
  <2>2. CvdxfDataLen(1 + 2 * VarIntLen(1) + 32 + 4 + VarIntLen(0) + VarIntLen(n)) \in Nat
    BY <2>1, VarBytesLenType DEF CvdxfDataLen
  <2>3. req.vout \in Nat
    BY RequestFields
  <2> QED
    BY <2>2, <2>3 DEF SelfRef, Pointers
<1> HIDE DEF p
<1>2. dd \in [encrypted : {FALSE}, object : Pointers, label : Optional(ByteStrings),
              mime : Optional(ByteStrings), epk : {None}, ivk : {None}]
  BY <1>1 DEF NewDescriptor
<1>3. dd.object = p
  BY DEF NewDescriptor
<1> HIDE DEF dd
<1>4. dd \in Descriptors(Pointers) /\ dd.object.len \in Nat
  BY <1>1, <1>2, <1>3 DEF Descriptors, Optional
<1> QED
  BY <1>4 DEF dd, p, InnerDescriptor

LEMMA OuterDescriptorType ==
  ASSUME NEW esk, NEW text \in InnerTexts, Key(esk) \in Keys, Epk(esk) \in Points,
         ivk \in Scalars
  PROVE  OuterDescriptor(esk, text) \in OuterDescriptors
<1> DEFINE S  == Ciphertexts(InnerTexts)
           ct == AeadEncrypt(Key(esk), text)
           dd == [NewDescriptor(ct)
                    EXCEPT !.encrypted = TRUE, !.epk = Epk(esk), !.ivk = ivk]
<1>1. text.len \in Nat
  BY DEF InnerTexts, Cvdxf
<1>2. ct \in S /\ ct.len \in Nat
  BY <1>1 DEF AeadEncrypt, Ciphertexts
<1> HIDE DEF ct, S
<1>3. dd \in Descriptors(S) /\ dd.object.len \in Nat
  <2>1. dd \in [encrypted : {TRUE}, object : S, label : {None}, mime : {None},
               epk : Points, ivk : Scalars]
    BY <1>2 DEF NewDescriptor
  <2>2. dd.object = ct
    BY DEF NewDescriptor
  <2> HIDE DEF dd
  <2> QED
    BY <2>1, <2>2, <1>2 DEF Descriptors, Optional
<1> HIDE DEF dd
<1>4. WriteDescriptor(dd) \in Serialized(S)
  BY <1>3, WriteDescriptorType
<1> QED
  BY <1>4 DEF dd, ct, S, OuterDescriptor, OuterDescriptors

LEMMA WrapOuterPreserves ==
  ASSUME Inv, NEW inner \in Descriptors(Pointers), inner.object.len \in Nat,
         NEW next \in {"outer_signature", "return"},
         next = "outer_signature" => pc = "outer_data",
         pc \in {"outer_data", "outer_signature"}, WrapOuter(inner, next)
  PROVE  Inv'
<1> DEFINE text == CvdxfData(DATA_DESCRIPTOR_KEY, WriteDescriptor(inner))
<1>1. DepositInv' /\ DepositTypeOK'
  BY DepositStutter DEF Inv, WrapOuter, DepositInv
<1>2. /\ diversifier \in ValidDiversifiers /\ pkd \in Points /\ ivk \in Scalars
      /\ req \in Requests
      /\ draws + 1 <= Len(Stream) /\ draws \in Nat /\ Len(Stream) \in Nat
      /\ pc = "outer_data" => draws + 2 <= Len(Stream)
      /\ TypeOK /\ FreshInv /\ Len(pass1) > 0
      /\ cmm \in Seq(OuterDescriptors)
  BY EnvelopeAssumption DEF EnvelopeAssumption, Inv, TypeOK, CallInv, Reserve, AfterPass1
<1>3. /\ NextDraw \in Scalars /\ SealError(NextDraw) = None
      /\ Epk(NextDraw) \in Points /\ Key(NextDraw) \in Keys
  BY <1>2, Sealed
<1>4. text \in InnerTexts
  <2>1. WriteDescriptor(inner) \in Serialized(Pointers)
    BY WriteDescriptorType
  <2>2. WriteDescriptor(inner).len \in Nat
    BY <2>1 DEF Serialized
  <2>3. CvdxfData(DATA_DESCRIPTOR_KEY, WriteDescriptor(inner))
          \in Cvdxf(Serialized(Pointers))
    BY <2>1, <2>2, CvdxfDataType
  <2> QED
    BY <2>3 DEF InnerTexts, Pointers
<1>5. /\ draws' = draws + 1
      /\ \/ /\ Fail(OuterError(NextDraw, inner)) /\ OuterError(NextDraw, inner) # None
            /\ UNCHANGED <<cmm, encryptions>>
         \/ /\ cmm' = Append(cmm, OuterDescriptor(NextDraw, text))
            /\ Record(NextDraw, text)
            /\ pc' = next
            /\ UNCHANGED outcome
      /\ UNCHANGED <<req, tries, recipient, pass1, evidence, depositVars>>
  BY DEF WrapOuter
<1> HIDE DEF text
<1>6. CASE /\ Fail(OuterError(NextDraw, inner)) /\ OuterError(NextDraw, inner) # None
           /\ UNCHANGED <<cmm, encryptions>>
  <2>1. OuterError(NextDraw, inner) \in Errors
    BY <1>3, <1>6 DEF OuterError, Errors
  <2>2. outcome' \in [error : Errors] /\ pc' = "idle"
    BY <2>1, <1>6 DEF Fail
  <2>3. TypeOK'
    BY <1>1, <1>2, <1>5, <1>6, <2>2 DEF TypeOK, Optional, recipient
  <2>4. CallInv'
    BY <1>2, <1>5, <2>2 DEF CallInv, Reserve, AfterPass1
  <2>5. FreshInv'
    BY <1>2, <1>5, <1>6, FreshStutter
  <2> QED
    BY <1>1, <2>3, <2>4, <2>5 DEF Inv
<1>7. CASE /\ cmm' = Append(cmm, OuterDescriptor(NextDraw, text))
           /\ Record(NextDraw, text)
           /\ pc' = next
           /\ UNCHANGED outcome
  <2>1. OuterDescriptor(NextDraw, text) \in OuterDescriptors
    BY <1>2, <1>3, <1>4, OuterDescriptorType
  <2>2. cmm' \in Seq(OuterDescriptors) /\ Len(cmm') > 0
    BY <1>2, <1>7, <2>1
  <2>3. FreshInv' /\ encryptions' \in Seq([key : Keys, text : ByteStrings \cup InnerTexts])
    <3>1. text \in ByteStrings \cup InnerTexts
      BY <1>4
    <3> QED
      BY <1>2, <1>5, <1>7, <3>1, RecordFresh
  <2>4. TypeOK'
    BY <1>1, <1>2, <1>5, <1>7, <2>2, <2>3 DEF TypeOK, recipient
  <2>5. CallInv'
    BY <1>2, <1>5, <1>7, <2>2 DEF CallInv, Reserve, AfterPass1, recipient
  <2> QED
    BY <1>1, <2>3, <2>4, <2>5 DEF Inv
<1> QED
  BY <1>5, <1>6, <1>7

LEMMA WrapDataPreserves == ASSUME Inv, WrapData PROVE Inv'
<1> DEFINE next  == IF req.signature # None THEN "outer_signature" ELSE "return"
           inner == InnerDescriptor(0, req.label, req.mime)
<1>1. pc = "outer_data" /\ WrapOuter(inner, next)
  BY DEF WrapData
<1>2. req \in Requests
  BY <1>1 DEF Inv, CallInv
<1>3. inner \in Descriptors(Pointers) /\ inner.object.len \in Nat
  <2>1. req.label \in Optional(ByteStrings) /\ req.mime \in Optional(ByteStrings)
    BY <1>2, RequestFields
  <2> QED
    BY <1>2, <2>1, InnerDescriptorType
<1>4. next \in {"outer_signature", "return"}
  OBVIOUS
<1> HIDE DEF next, inner
<1> QED
  BY <1>1, <1>3, <1>4, WrapOuterPreserves

LEMMA WrapSignaturePreserves == ASSUME Inv, WrapSignature PROVE Inv'
<1> DEFINE inner == InnerDescriptor(1, SIGNATURE_OUTER_LABEL,
                                    SIGNATURE_OUTER_MIME_TYPE)
<1>1. pc = "outer_signature" /\ WrapOuter(inner, "return")
  BY DEF WrapSignature
<1>2. req \in Requests
  BY <1>1 DEF Inv, CallInv
<1>3. inner \in Descriptors(Pointers) /\ inner.object.len \in Nat
  <2>1. /\ SIGNATURE_OUTER_LABEL \in Optional(ByteStrings)
        /\ SIGNATURE_OUTER_MIME_TYPE \in Optional(ByteStrings)
    <3>1. \A s \in Contents, n \in Nat : Bytes(s, n) \in ByteStrings
      BY DEF Bytes, ByteStrings
    <3>2. 9 \in Nat /\ 16 \in Nat
      OBVIOUS
    <3>3. "signature" \in Contents /\ "application/json" \in Contents
      BY EnvelopeAssumption DEF EnvelopeAssumption
    <3>4. Bytes("signature", 9) \in ByteStrings
          /\ Bytes("application/json", 16) \in ByteStrings
      BY <3>1, <3>2, <3>3
    <3> QED
      BY <3>4 DEF SIGNATURE_OUTER_LABEL, SIGNATURE_OUTER_MIME_TYPE, Optional
  <2> QED
    BY <1>2, <2>1, InnerDescriptorType
<1> HIDE DEF inner
<1> QED
  BY <1>1, <1>3, WrapOuterPreserves

LEMMA ReturnIsResult == ASSUME Inv, Return PROVE outcome' \in Results
<1>1. pc = "return"
  BY DEF Return, Goto
<1>2. /\ req \in Requests /\ ivk \in Scalars /\ diversifier \in ValidDiversifiers
      /\ pkd \in Points /\ cmm \in Seq(OuterDescriptors) /\ Len(cmm) > 0
      /\ out \in Seq(Output)
  BY <1>1 DEF Inv, TypeOK, CallInv, AfterPass1, DepositTypeOK
<1>3. cmm[1].epk \in Optional(Points)
  <2>1. 1 \in 1..Len(cmm)
    BY <1>2
  <2>2. cmm[1] \in OuterDescriptors
    BY <1>2, <2>1
  <2> QED
    BY <2>2 DEF OuterDescriptors, Serialized
<1>4. req.key \in STRING
  BY <1>2, RequestFields
<1> QED
  BY <1>2, <1>3, <1>4 DEF Return, Results

LEMMA ReturnPreserves == ASSUME Inv, Return PROVE Inv'
<1>1. DepositInv' /\ DepositTypeOK'
  BY DepositStutter DEF Inv, Return, DepositInv
<1>2. /\ pc = "return" /\ pc' = "idle"
      /\ UNCHANGED <<req, draws, tries, recipient, pass1, evidence, cmm,
                     encryptions, depositVars>>
  BY DEF Return, Goto
<1>3. TypeOK'
  BY <1>1, <1>2, ReturnIsResult DEF Inv, TypeOK, recipient, Optional
<1>4. CallInv'
  BY <1>2 DEF Inv, TypeOK, CallInv, Reserve, AfterPass1, recipient
<1>5. FreshInv'
  BY <1>2, FreshStutter DEF Inv
<1> QED
  BY <1>1, <1>3, <1>4, <1>5 DEF Inv

-----------------------------------------------------------------------------
LEMMA NextPreserves == Inv /\ [Next]_vars => Inv'
<1> SUFFICES ASSUME Inv, [Next]_vars PROVE Inv'
  OBVIOUS
<1>1. ASSUME NEW r \in Requests, Call(r) PROVE Inv'
  BY <1>1, CallPreserves
<1>2. CASE SampleIvk
  BY <1>2, SampleIvkPreserves
<1>3. CASE TryDiversifier
  BY <1>3, TryDiversifierPreserves
<1>4. CASE ExhaustDiversifiers
  BY <1>4, ExhaustDiversifiersPreserves
<1>5. CASE EncryptData
  BY <1>5, EncryptDataPreserves
<1>6. CASE EncryptSignature
  BY <1>6, EncryptSignaturePreserves
<1>7. CASE BuildEvidence
  BY <1>7, BuildEvidencePreserves
<1>8. CASE DepositStep
  BY <1>8, DepositStepPreserves
<1>9. CASE WrapData
  BY <1>9, WrapDataPreserves
<1>10. CASE WrapSignature
  BY <1>10, WrapSignaturePreserves
<1>11. CASE Return
  BY <1>11, ReturnPreserves
<1>12. CASE UNCHANGED vars
  <2>1. DepositInv' /\ DepositTypeOK'
    BY <1>12, DepositStutter DEF Inv, vars, DepositInv
  <2>2. TypeOK'
    BY <1>12, <2>1 DEF Inv, TypeOK, vars, recipient
  <2>3. CallInv'
    BY <1>12 DEF Inv, CallInv, Reserve, AfterPass1, vars, recipient
  <2>4. FreshInv'
    BY <1>12, FreshStutter DEF Inv, vars
  <2> QED
    BY <2>1, <2>2, <2>3, <2>4 DEF Inv
<1> QED
  BY <1>1, <1>2, <1>3, <1>4, <1>5, <1>6, <1>7, <1>8, <1>9, <1>10, <1>11, <1>12
     DEF Next, Step

THEOREM EnvelopeInvariant == Spec => []Inv
<1>1. Init => Inv
  BY InitInv
<1>2. Inv /\ [Next]_vars => Inv'
  BY NextPreserves
<1> QED
  BY <1>1, <1>2, PTL DEF Spec

(* Every variable of a call keeps its type: the descriptors it serializes, *)
(* the results and errors it returns (encrypt_public_decrypt).             *)
THEOREM EnvelopeTypeCorrect == Spec => []TypeOK
<1>1. Inv => TypeOK
  BY DEF Inv
<1> QED
  BY <1>1, EnvelopeInvariant, PTL

(* "The nonce is zero because we never reuse keys" (crypto.rs) holds for   *)
(* all passes of all calls, as long as the generator repeats no scalar.    *)
THEOREM ZeroNonceIsSafe == Spec => []KeyNeverReused
<1>1. Inv => KeyNeverReused
  BY DEF Inv, FreshInv, ScalarOf, KeyNeverReused
<1> QED
  BY <1>1, EnvelopeInvariant, PTL

(* Whatever a call encrypts, its deposits reassemble into its evidence and *)
(* none of their scripts reaches the limit (api.rs step 4).                *)
THEOREM EnvelopeDeposits == Spec => [](Reassembles /\ ScriptsFit /\ ChunksFull)
<1>1. Inv => Reassembles /\ ScriptsFit /\ ChunksFull
  BY DEF Inv, DepositInv
<1> QED
  BY <1>1, EnvelopeInvariant, PTL

-----------------------------------------------------------------------------
(* What a call shows to the outside: which errors it can return and when,  *)
(* and which fields its descriptors leave in the clear.  Both follow from   *)
(* Inv and a strengthening of their own.                                   *)

(* The flags of a descriptor that carries a ciphertext, its epk and no     *)
(* label or mime type.                                                     *)
LEMMA Flags5 ==
  ASSUME NEW ct, NEW epk \in Points
  PROVE  CalcFlags([NewDescriptor(ct) EXCEPT !.encrypted = TRUE, !.epk = epk])
           = {FLAG_ENCRYPTED_DATA, FLAG_ENCRYPTION_PUBLIC_KEY_PRESENT}
<1> DEFINE dd == [NewDescriptor(ct) EXCEPT !.encrypted = TRUE, !.epk = epk]
<1>1. /\ dd.encrypted = TRUE /\ dd.epk = epk
      /\ dd.label = None /\ dd.mime = None /\ dd.ivk = None
  BY DEF NewDescriptor
<1>2. dd.epk # None
  BY <1>1, SaplingAssumption DEF SaplingAssumption
<1> HIDE DEF dd
<1>3. CalcFlags(dd) = {FLAG_ENCRYPTED_DATA, FLAG_ENCRYPTION_PUBLIC_KEY_PRESENT}
  BY <1>1, <1>2 DEF CalcFlags, NonEmpty
<1> QED
  BY <1>3 DEF dd

(* The same with the ivk published.                                        *)
LEMMA Flags13 ==
  ASSUME NEW ct, NEW epk \in Points, NEW key \in Scalars
  PROVE  CalcFlags([NewDescriptor(ct)
                      EXCEPT !.encrypted = TRUE, !.epk = epk, !.ivk = key])
           = {FLAG_ENCRYPTED_DATA, FLAG_ENCRYPTION_PUBLIC_KEY_PRESENT,
              FLAG_INCOMING_VIEWING_KEY_PRESENT}
<1> DEFINE dd == [NewDescriptor(ct)
                    EXCEPT !.encrypted = TRUE, !.epk = epk, !.ivk = key]
<1>1. /\ dd.encrypted = TRUE /\ dd.epk = epk /\ dd.ivk = key
      /\ dd.label = None /\ dd.mime = None
  BY DEF NewDescriptor
<1>2. dd.epk # None /\ dd.ivk # None
  BY <1>1, SaplingAssumption DEF SaplingAssumption, Scalars
<1> HIDE DEF dd
<1>3. CalcFlags(dd) = {FLAG_ENCRYPTED_DATA, FLAG_ENCRYPTION_PUBLIC_KEY_PRESENT,
                       FLAG_INCOMING_VIEWING_KEY_PRESENT}
  BY <1>1, <1>2 DEF CalcFlags, NonEmpty
<1> QED
  BY <1>3 DEF dd

LEMMA WriteDescriptorFlags == ASSUME NEW dd PROVE WriteDescriptor(dd).flags = CalcFlags(dd)
BY DEF WriteDescriptor

-----------------------------------------------------------------------------
(* What the drawn scalar gives to a step that encrypts, from Inv.          *)
LEMMA Drawn ==
  ASSUME Inv, pc \in {"pass1_data", "pass1_signature", "outer_data", "outer_signature"}
  PROVE  /\ SealError(NextDraw) = None
         /\ Epk(NextDraw) \in Points /\ Key(NextDraw) \in Keys /\ ivk \in Scalars
<1>1. /\ diversifier \in ValidDiversifiers /\ pkd \in Points /\ ivk \in Scalars
      /\ draws + 1 <= Len(Stream) /\ TypeOK
  BY SMTT(30), EnvelopeAssumption
     DEF EnvelopeAssumption, Inv, TypeOK, CallInv, Reserve, AfterPass1
<1> QED
  BY <1>1, Sealed

LEMMA Pass1InTheClear ==
  ASSUME NEW esk, NEW text, Epk(esk) \in Points
  PROVE  Pass1Descriptor(esk, text).flags =
           {FLAG_ENCRYPTED_DATA, FLAG_ENCRYPTION_PUBLIC_KEY_PRESENT}
BY Flags5, WriteDescriptorFlags DEF Pass1Descriptor

LEMMA OuterInTheClear ==
  ASSUME NEW esk, NEW text, Epk(esk) \in Points, ivk \in Scalars
  PROVE  OuterDescriptor(esk, text).flags =
           {FLAG_ENCRYPTED_DATA, FLAG_ENCRYPTION_PUBLIC_KEY_PRESENT,
            FLAG_INCOMING_VIEWING_KEY_PRESENT}
BY Flags13, WriteDescriptorFlags DEF OuterDescriptor

LEMMA ClearStutter ==
  ASSUME InTheClear, UNCHANGED <<pass1, cmm>>
  PROVE  InTheClear'
BY DEF InTheClear

LEMMA ClearPreserved == Inv /\ InTheClear /\ [Next]_vars => InTheClear'
<1> SUFFICES ASSUME Inv, InTheClear, [Next]_vars PROVE InTheClear'
  OBVIOUS
<1> DEFINE five     == {FLAG_ENCRYPTED_DATA, FLAG_ENCRYPTION_PUBLIC_KEY_PRESENT}
           thirteen == five \cup {FLAG_INCOMING_VIEWING_KEY_PRESENT}
<1>1. pass1 \in Seq(Pass1Descriptors) /\ cmm \in Seq(OuterDescriptors)
  BY DEF Inv, TypeOK
<1>2. ASSUME NEW text, NEW next, EncryptPass1(text, next),
             pc \in {"pass1_data", "pass1_signature"}
      PROVE  InTheClear'
  <2> DEFINE d == Pass1Descriptor(NextDraw, text)
  <2>1. SealError(NextDraw) = None /\ Epk(NextDraw) \in Points
    BY <1>2, Drawn
  <2>2. d.flags = five
    BY <2>1, Pass1InTheClear
  <2>3. pass1' = Append(pass1, d) /\ cmm' = cmm
    BY <1>2, <2>1 DEF EncryptPass1
  <2> HIDE DEF d
  <2>4. /\ DOMAIN pass1' = 1..Len(pass1) + 1 /\ DOMAIN pass1 = 1..Len(pass1)
        /\ Len(pass1) \in Nat
        /\ \A i \in 1..Len(pass1) : pass1'[i] = pass1[i]
        /\ pass1'[Len(pass1) + 1] = d
    BY <1>1, <2>3
  <2> QED
    BY <2>2, <2>3, <2>4 DEF InTheClear
<1>3. ASSUME NEW inner, NEW next, WrapOuter(inner, next),
             pc \in {"outer_data", "outer_signature"}
      PROVE  InTheClear'
  <2> DEFINE text == CvdxfData(DATA_DESCRIPTOR_KEY, WriteDescriptor(inner))
             d == OuterDescriptor(NextDraw, text)
  <2>1. Epk(NextDraw) \in Points /\ ivk \in Scalars
    BY <1>3, Drawn
  <2>2. d.flags = thirteen
    BY <2>1, OuterInTheClear
  <2>3. pass1' = pass1 /\ cmm' \in {cmm, Append(cmm, d)}
    BY <1>3 DEF WrapOuter
  <2> HIDE DEF d
  <2>4. CASE cmm' = cmm
    BY <2>3, <2>4, ClearStutter
  <2>5. CASE cmm' = Append(cmm, d)
    <3>1. /\ DOMAIN cmm' = 1..Len(cmm) + 1 /\ DOMAIN cmm = 1..Len(cmm)
          /\ Len(cmm) \in Nat
          /\ \A i \in 1..Len(cmm) : cmm'[i] = cmm[i]
          /\ cmm'[Len(cmm) + 1] = d
      BY <1>1, <2>5
    <3> QED
      BY <2>2, <2>3, <3>1 DEF InTheClear
  <2> QED
    BY <2>3, <2>4, <2>5
<1>4. ASSUME NEW r \in Requests, Call(r) PROVE InTheClear'
  BY <1>4 DEF Call, InTheClear
<1>5. CASE EncryptData
  BY <1>2, <1>5 DEF EncryptData
<1>6. CASE EncryptSignature
  BY <1>2, <1>6 DEF EncryptSignature
<1>7. CASE WrapData
  BY <1>3, <1>7 DEF WrapData
<1>8. CASE WrapSignature
  BY <1>3, <1>8 DEF WrapSignature
<1>9. CASE SampleIvk \/ TryDiversifier \/ ExhaustDiversifiers \/ BuildEvidence
             \/ DepositStep \/ Return \/ UNCHANGED vars
  <2>1. UNCHANGED <<pass1, cmm>>
    BY <1>9 DEF SampleIvk, TryDiversifier, ExhaustDiversifiers, BuildEvidence,
                DepositStep, Return, vars
  <2> QED
    BY <2>1, ClearStutter
<1> QED
  BY <1>4, <1>5, <1>6, <1>7, <1>8, <1>9 DEF Next, Step

(* Labels and mime types stay inside ciphertexts, and the ivk is published *)
(* on outer descriptors only (api.rs steps 2 and 5).                       *)
THEOREM NothingElseInTheClear == Spec => []InTheClear
<1>1. Init => InTheClear
  BY DEF Init, InTheClear
<1>2. Inv /\ InTheClear /\ [Next]_vars => InTheClear'
  BY ClearPreserved
<1> QED
  BY <1>1, <1>2, EnvelopeInvariant, PTL DEF Spec

-----------------------------------------------------------------------------
Oversize == TooLong(req.label, LabelCap) \/ TooLong(req.mime, MimeCap)

(* A call past its payload's outer descriptor has met no oversized field.  *)
ErrorsInv ==
  /\ ErrorsExplained
  /\ pc \in {"outer_signature", "return"} => ~Oversize

(* A step inside a call returns nothing.                                   *)
LEMMA StillRunning ==
  ASSUME ErrorsInv, pc' \notin {"idle", "outer_signature", "return"}
  PROVE  ErrorsInv'
BY DEF ErrorsInv, ErrorsExplained, Returned

LEMMA CapsRejectOversize ==
  ASSUME NEW n, req \in Requests
  PROVE  LimitedStringError(InnerDescriptor(n, req.label, req.mime)) # None <=> Oversize
<1> DEFINE dd == InnerDescriptor(n, req.label, req.mime)
<1>1. dd.label = req.label /\ dd.mime = req.mime
  BY DEF InnerDescriptor, NewDescriptor
<1>2. LabelCap # None /\ MimeCap # None
  BY SaplingAssumption DEF SaplingAssumption, LabelCap, MimeCap
<1> HIDE DEF dd
<1>3. LimitedStringError(dd) # None <=> Oversize
  BY <1>1, <1>2 DEF LimitedStringError, Oversize
<1> QED
  BY <1>3 DEF dd

LEMMA DaemonLabelsFit ==
  LimitedStringError(InnerDescriptor(1, SIGNATURE_OUTER_LABEL,
                                     SIGNATURE_OUTER_MIME_TYPE)) = None
<1> DEFINE dd == InnerDescriptor(1, SIGNATURE_OUTER_LABEL,
                                 SIGNATURE_OUTER_MIME_TYPE)
<1>1. dd.label = SIGNATURE_OUTER_LABEL /\ dd.mime = SIGNATURE_OUTER_MIME_TYPE
  BY DEF InnerDescriptor, NewDescriptor
<1>2. SIGNATURE_OUTER_LABEL.len = 9 /\ SIGNATURE_OUTER_MIME_TYPE.len = 16
  BY DEF SIGNATURE_OUTER_LABEL, SIGNATURE_OUTER_MIME_TYPE, Bytes
<1> HIDE DEF dd
<1>3. ~TooLong(dd.label, LabelCap) /\ ~TooLong(dd.mime, MimeCap)
  BY <1>1, <1>2 DEF TooLong, LabelCap, MimeCap
<1> QED
  BY <1>3 DEF LimitedStringError, dd

LEMMA ErrorsPreserved == Inv /\ ErrorsInv /\ [Next]_vars => ErrorsInv'
<1> SUFFICES ASSUME Inv, ErrorsInv, [Next]_vars PROVE ErrorsInv'
  OBVIOUS
<1>1. ASSUME NEW r \in Requests, Call(r) PROVE ErrorsInv'
  BY <1>1, StillRunning DEF Call, Goto
<1>2. CASE SampleIvk
  BY <1>2, StillRunning DEF SampleIvk, Goto
<1>3. CASE TryDiversifier
  BY <1>3, StillRunning DEF TryDiversifier
<1>4. CASE ExhaustDiversifiers
  <2>1. tries \in 0..RetryBudget /\ tries >= RetryBudget /\ RetryBudget \in Nat
    BY <1>4, EnvelopeAssumption
       DEF EnvelopeAssumption, ExhaustDiversifiers, Inv, TypeOK
  <2>2. /\ tries' = RetryBudget /\ pc' = "idle" /\ req' = req
        /\ outcome' = [error |-> "DiversifierSearchExhausted"]
    BY <1>4, <2>1 DEF ExhaustDiversifiers, Fail
  <2>3. outcome'.error = "DiversifierSearchExhausted" /\ outcome'.error # None
    BY <2>2, EnvelopeAssumption DEF EnvelopeAssumption, Errors
  <2> QED
    BY <2>2, <2>3 DEF ErrorsInv, ErrorsExplained
<1>5. CASE EncryptData \/ EncryptSignature
  <2>1. pc \in {"pass1_data", "pass1_signature"}
    BY <1>5 DEF EncryptData, EncryptSignature
  <2>2. SealError(NextDraw) = None
    BY <2>1, Drawn
  <2>3. pc' \in {"pass1_signature", "evidence"}
    BY <1>5, <2>2 DEF EncryptData, EncryptSignature, EncryptPass1
  <2> QED
    BY <2>3, StillRunning
<1>6. CASE BuildEvidence
  BY <1>6, StillRunning DEF BuildEvidence, Goto
<1>7. CASE DepositStep
  <2>1. pc' \in {"deposit", "outer_data"}
    BY <1>7 DEF DepositStep
  <2> QED
    BY <2>1, StillRunning
<1>8. CASE WrapData
  <2> DEFINE inner == InnerDescriptor(0, req.label, req.mime)
             next  == IF req.signature # None THEN "outer_signature" ELSE "return"
  <2>1. pc = "outer_data" /\ WrapOuter(inner, next) /\ req' = req
    BY <1>8 DEF WrapData, WrapOuter
  <2>2. SealError(NextDraw) = None /\ req \in Requests
    BY <2>1, Drawn DEF Inv, CallInv
  <2>3. LimitedStringError(inner) # None <=> Oversize
    BY <2>2, CapsRejectOversize
  <2>4. next \in {"outer_signature", "return"}
    OBVIOUS
  <2> HIDE DEF inner, next
  <2>5. CASE Oversize
    <3>1. OuterError(NextDraw, inner) = "Wire"
      BY <2>2, <2>3, <2>5 DEF OuterError
    <3>2. pc' = "idle" /\ outcome' = [error |-> "Wire"]
      BY <2>1, <3>1, EnvelopeAssumption
         DEF EnvelopeAssumption, Errors, WrapOuter, Fail
    <3>3. Oversize'
      BY <2>1, <2>5 DEF Oversize, TooLong
    <3> QED
      BY <3>2, <3>3, EnvelopeAssumption
         DEF EnvelopeAssumption, Errors, ErrorsInv, ErrorsExplained, Oversize
  <2>6. CASE ~Oversize
    <3>1. OuterError(NextDraw, inner) = None
      BY <2>2, <2>3, <2>6 DEF OuterError
    <3>2. pc' = next
      BY <2>1, <3>1 DEF WrapOuter
    <3>3. ~Oversize'
      BY <2>1, <2>6 DEF Oversize, TooLong
    <3> QED
      BY <2>4, <3>2, <3>3 DEF ErrorsInv, ErrorsExplained, Returned
  <2> QED
    BY <2>5, <2>6
<1>9. CASE WrapSignature
  <2> DEFINE inner == InnerDescriptor(1, SIGNATURE_OUTER_LABEL,
                                      SIGNATURE_OUTER_MIME_TYPE)
  <2>1. pc = "outer_signature" /\ WrapOuter(inner, "return") /\ req' = req
    BY <1>9 DEF WrapSignature, WrapOuter
  <2>2. SealError(NextDraw) = None
    BY <2>1, Drawn
  <2>3. OuterError(NextDraw, inner) = None
    BY <2>2, DaemonLabelsFit DEF OuterError
  <2> HIDE DEF inner
  <2>4. pc' = "return"
    BY <2>1, <2>3 DEF WrapOuter
  <2>5. ~Oversize'
    BY <2>1 DEF ErrorsInv, Oversize, TooLong
  <2> QED
    BY <2>4, <2>5 DEF ErrorsInv, ErrorsExplained, Returned
<1>10. CASE Return
  <2>1. pc = "return" /\ pc' = "idle" /\ req' = req /\ outcome'.error = None
    BY <1>10 DEF Return, Goto
  <2>2. ~Oversize'
    BY <2>1 DEF ErrorsInv, Oversize, TooLong
  <2>3. None # "Wire" /\ None # "DiversifierSearchExhausted"
    BY EnvelopeAssumption DEF EnvelopeAssumption, Errors
  <2> QED
    BY <2>1, <2>2, <2>3 DEF ErrorsInv, ErrorsExplained, Oversize
<1>11. CASE UNCHANGED vars
  BY <1>11 DEF vars, ErrorsInv, ErrorsExplained, Returned, Oversize, TooLong
<1> QED
  BY <1>1, <1>2, <1>3, <1>4, <1>5, <1>6, <1>7, <1>8, <1>9, <1>10, <1>11
     DEF Next, Step

(* A call returns an error for an oversized label or mime type, or when    *)
(* the search has run its whole budget, and for no other reason            *)
(* (EncryptError).                                                         *)
THEOREM OnlyExplainedErrors == Spec => []ErrorsExplained
<1>1. Init => ErrorsInv
  BY DEF Init, ErrorsInv, ErrorsExplained, Returned
<1>2. Inv /\ ErrorsInv /\ [Next]_vars => ErrorsInv'
  BY ErrorsPreserved
<1>3. ErrorsInv => ErrorsExplained
  BY DEF ErrorsInv
<1> QED
  BY <1>1, <1>2, <1>3, EnvelopeInvariant, PTL DEF Spec

-----------------------------------------------------------------------------
LEMMA ModUnique ==
  ASSUME NEW n \in Nat, n > 0, NEW k \in Int, NEW r \in 0..n - 1
  PROVE  (k * n + r) % n = r
OBVIOUS

LEMMA DivMod ==
  ASSUME NEW n \in Nat, n > 0, NEW x \in Nat
  PROVE  /\ x = ((x \div n) * n) + (x % n)
         /\ x % n \in 0..n - 1 /\ x \div n \in Nat
OBVIOUS

(* A factor may be reduced before or after the multiplication.             *)
LEMMA MulMod ==
  ASSUME NEW n \in Nat, n > 0, NEW a \in Nat, NEW x \in Nat
  PROVE  (a * (x % n)) % n = (a * x) % n
<1> DEFINE k == x \div n
           r == x % n
           j == (a * r) \div n
           s == (a * r) % n
<1>1. x = (k * n) + r /\ r \in 0..n - 1 /\ k \in Nat
  BY DivMod
<1>2. a * r \in Nat
  BY <1>1
<1>3. a * r = (j * n) + s /\ s \in 0..n - 1 /\ j \in Nat
  BY <1>2, DivMod
<1> HIDE DEF k, r, j, s
<1>4. a * x = ((a * k + j) * n) + s
  BY <1>1, <1>3
<1>5. a * k + j \in Int
  BY <1>1, <1>3
<1>6. (a * x) % n = s
  BY <1>3, <1>4, <1>5, ModUnique
<1> QED
  BY <1>6 DEF s, r

-----------------------------------------------------------------------------
(* The multiple n of d's base point; the multiple 0 has no base.           *)
Multiple(d, n) == IF n = 0 THEN Identity ELSE Point(d, n)

LEMMA MulMultiple ==
  ASSUME NEW s \in Nat, NEW d, NEW n \in Scalars
  PROVE  /\ Mul(s, Multiple(d, n)) = Multiple(d, (s * n) % Q)
         /\ (s * n) % Q \in Scalars
<1>1. n \in Nat /\ Q \in Nat /\ Q > 0
  BY SaplingAssumption DEF SaplingAssumption, Scalars
<1>2. s * n \in Nat
  BY <1>1
<1>3. (s * n) % Q \in Scalars
  BY <1>1, <1>2, DivMod DEF Scalars
<1>4. CASE n = 0
  <2>1. (s * n) % Q = 0
    BY <1>1, <1>4
  <2>2. Multiple(d, n) = Identity /\ Identity.multiple = 0
    BY <1>4 DEF Multiple, Identity, Point
  <2>3. (s * Identity.multiple) % Q = 0
    BY <2>1, <2>2, <1>4
  <2> QED
    BY <1>3, <2>1, <2>2, <2>3 DEF Mul, Multiple
<1>5. CASE n # 0
  <2>1. Multiple(d, n) = Point(d, n)
    BY <1>5 DEF Multiple
  <2>2. Point(d, n).multiple = n /\ Point(d, n).base = d
    BY DEF Point
  <2> QED
    BY <1>3, <2>1, <2>2 DEF Mul, Multiple
<1> QED
  BY <1>4, <1>5

LEMMA MultipleIsPoint ==
  ASSUME NEW d \in ValidDiversifiers, NEW n \in Scalars
  PROVE  Multiple(d, n) \in Points /\ IsPoint(Multiple(d, n))
<1>1. 0 \in Scalars
  BY SaplingAssumption DEF SaplingAssumption, Scalars
<1>2. Multiple(d, n) \in Points
  BY <1>1 DEF Multiple, Identity, Point, Points
<1> QED
  BY <1>2, SaplingAssumption DEF SaplingAssumption, IsPoint

(* One side's secret: the other side's scalar times the cofactor times     *)
(* one's own.                                                              *)
LEMMA Secret ==
  ASSUME NEW s \in Scalars, NEW n \in Scalars, NEW d \in ValidDiversifiers
  PROVE  KaAgree(s, Multiple(d, n)) = Multiple(d, (s * (8 * n)) % Q)
<1>1. s \in Nat /\ n \in Nat /\ Q \in Nat /\ Q > 0 /\ 8 * n \in Nat
  BY SaplingAssumption DEF SaplingAssumption, Scalars
<1>2. /\ MulByCofactor(Multiple(d, n)) = Multiple(d, (8 * n) % Q)
      /\ (8 * n) % Q \in Scalars
  BY <1>1, MulMultiple DEF MulByCofactor
<1>3. Mul(s, Multiple(d, (8 * n) % Q)) = Multiple(d, (s * ((8 * n) % Q)) % Q)
  BY <1>1, <1>2, MulMultiple
<1>4. (s * ((8 * n) % Q)) % Q = (s * (8 * n)) % Q
  BY <1>1, MulMod
<1> QED
  BY <1>2, <1>3, <1>4, MultipleIsPoint DEF KaAgree

(* The public values of the two sides.                                     *)
LEMMA PublicValue ==
  ASSUME NEW s \in Scalars, NEW d \in ValidDiversifiers
  PROVE  /\ Mul(s, DeriveGd(d)) = Multiple(d, s)
         /\ DeriveEpk(s, d) = Multiple(d, s)
<1>1. s \in Nat /\ 1 \in Scalars /\ Q \in Nat /\ Q > 1 /\ s \in 0..Q - 1
  BY SaplingAssumption DEF SaplingAssumption, Scalars
<1>2. (s * 1) % Q = s
  <2>1. s * 1 = 0 * Q + s
    BY <1>1
  <2> QED
    BY <1>1, <2>1, ModUnique
<1>3. DeriveGd(d) = Multiple(d, 1)
  BY DEF DeriveGd, Multiple
<1>4. Mul(s, DeriveGd(d)) = Multiple(d, s)
  <2>1. Mul(s, Multiple(d, 1)) = Multiple(d, (s * 1) % Q)
    BY <1>1, MulMultiple
  <2> QED
    BY <1>2, <1>3, <2>1
<1>5. IsPoint(DeriveGd(d))
  BY <1>1, <1>3, MultipleIsPoint
<1> QED
  BY <1>4, <1>5 DEF DeriveEpk

(* A reader with the ivk and the epk gets the writer's secret, which the   *)
(* writer computed from the esk and pk_d.                                  *)
LEMMA SecretsMeet ==
  ASSUME NEW i \in Scalars, NEW esk \in Scalars, NEW d \in ValidDiversifiers
  PROVE  KaAgree(i, DeriveEpk(esk, d)) = KaAgree(esk, Mul(i, DeriveGd(d)))
<1>1. i * (8 * esk) = esk * (8 * i)
  BY SaplingAssumption DEF SaplingAssumption, Scalars
<1> QED
  BY <1>1, Secret, PublicValue

-----------------------------------------------------------------------------
Recipient == pkd = Mul(ivk, DeriveGd(diversifier))

(* What a step seals to the recipient opens with the ivk.                  *)
LEMMA SealedOpens ==
  ASSUME NEW esk \in Scalars, ivk \in Scalars, diversifier \in ValidDiversifiers,
         Recipient, NEW descriptor, NEW text,
         descriptor.epk = Epk(esk), descriptor.object = AeadEncrypt(Key(esk), text)
  PROVE  Open(ivk, descriptor) = text
<1>1. Kdf(KaAgree(ivk, Epk(esk)), Epk(esk)) = Key(esk)
  BY SecretsMeet DEF Epk, Key, Recipient
<1> QED
  BY <1>1 DEF Open, AeadDecrypt, AeadEncrypt

(* The fields of a descriptor whose flags are set are written.             *)
LEMMA WrittenFields ==
  ASSUME NEW dd
  PROVE  /\ WriteDescriptor(dd).object = dd.object
         /\ dd.epk # None => WriteDescriptor(dd).epk = dd.epk
         /\ dd.ivk # None => WriteDescriptor(dd).ivk = dd.ivk
         /\ WriteDescriptor(dd).label = Expected(dd.label)
         /\ WriteDescriptor(dd).mime = Expected(dd.mime)
<1>1. /\ dd.epk # None => FLAG_ENCRYPTION_PUBLIC_KEY_PRESENT \in CalcFlags(dd)
      /\ dd.ivk # None => FLAG_INCOMING_VIEWING_KEY_PRESENT \in CalcFlags(dd)
      /\ FLAG_LABEL_PRESENT \in CalcFlags(dd) <=> NonEmpty(dd.label)
      /\ FLAG_MIME_TYPE_PRESENT \in CalcFlags(dd) <=> NonEmpty(dd.mime)
  BY DEF CalcFlags, FLAG_ENCRYPTED_DATA, FLAG_ENCRYPTION_PUBLIC_KEY_PRESENT,
         FLAG_INCOMING_VIEWING_KEY_PRESENT, FLAG_LABEL_PRESENT,
         FLAG_MIME_TYPE_PRESENT
<1> QED
  BY <1>1 DEF WriteDescriptor, Expected

LEMMA Pass1Opens ==
  ASSUME NEW esk \in Scalars, ivk \in Scalars, diversifier \in ValidDiversifiers,
         Recipient, NEW text
  PROVE  Open(ivk, Pass1Descriptor(esk, text)) = text
<1> DEFINE ct == AeadEncrypt(Key(esk), text)
           dd == [NewDescriptor(ct) EXCEPT !.encrypted = TRUE, !.epk = Epk(esk)]
<1>1. dd.object = ct /\ dd.epk = Epk(esk)
  BY DEF NewDescriptor
<1>2. Epk(esk) # None
  BY EpkScalar DEF Epk
<1> HIDE DEF dd
<1>3. WriteDescriptor(dd).object = ct /\ WriteDescriptor(dd).epk = Epk(esk)
  BY <1>1, <1>2, WrittenFields
<1>4. Open(ivk, WriteDescriptor(dd)) = text
  BY <1>3, SealedOpens
<1> QED
  BY <1>4 DEF dd, Pass1Descriptor

LEMMA OuterOpens ==
  ASSUME NEW esk \in Scalars, ivk \in Scalars, diversifier \in ValidDiversifiers,
         Recipient, NEW text
  PROVE  /\ Open(ivk, OuterDescriptor(esk, text)) = text
         /\ OuterDescriptor(esk, text).ivk = ivk
<1> DEFINE ct == AeadEncrypt(Key(esk), text)
           dd == [NewDescriptor(ct)
                    EXCEPT !.encrypted = TRUE, !.epk = Epk(esk), !.ivk = ivk]
<1>1. dd.object = ct /\ dd.epk = Epk(esk) /\ dd.ivk = ivk
  BY DEF NewDescriptor
<1>2. Epk(esk) # None /\ ivk # None
  BY EpkScalar, SaplingAssumption DEF Epk, SaplingAssumption, Scalars
<1> HIDE DEF dd
<1>3. /\ WriteDescriptor(dd).object = ct /\ WriteDescriptor(dd).epk = Epk(esk)
      /\ WriteDescriptor(dd).ivk = ivk
  BY <1>1, <1>2, WrittenFields
<1>4. Open(ivk, WriteDescriptor(dd)) = text
  BY <1>3, SealedOpens
<1> QED
  BY <1>3, <1>4 DEF dd, OuterDescriptor

InnerText(n, label, mime) ==
  CvdxfData(DATA_DESCRIPTOR_KEY, WriteDescriptor(InnerDescriptor(n, label, mime)))

(* What is inside an outer descriptor: the pointer, label and mime type.   *)
LEMMA InnerTextFields ==
  ASSUME NEW n, NEW label, NEW mime
  PROVE  /\ InnerText(n, label, mime).data.object = SelfRef(req.vout, 0, n)
         /\ InnerText(n, label, mime).data.label = Expected(label)
         /\ InnerText(n, label, mime).data.mime = Expected(mime)
<1> DEFINE dd == InnerDescriptor(n, label, mime)
<1>1. /\ dd.object = SelfRef(req.vout, 0, n)
      /\ dd.label = label /\ dd.mime = mime
  BY DEF InnerDescriptor, NewDescriptor
<1> HIDE DEF dd
<1>2. /\ WriteDescriptor(dd).object = SelfRef(req.vout, 0, n)
      /\ WriteDescriptor(dd).label = Expected(label)
      /\ WriteDescriptor(dd).mime = Expected(mime)
  BY <1>1, WrittenFields
<1>3. InnerText(n, label, mime).data = WriteDescriptor(dd)
  BY DEF InnerText, CvdxfData, dd
<1> QED
  BY <1>2, <1>3

-----------------------------------------------------------------------------
(* How many texts a call seals, and which, in pass 1 and outside.          *)
Wanted  == IF req.signature # None THEN 2 ELSE 1
Text(i) == IF i = 1 THEN req.plaintext ELSE req.signature
Inner(i) ==
  IF i = 1 THEN InnerText(0, req.label, req.mime)
  ELSE InnerText(1, SIGNATURE_OUTER_LABEL, SIGNATURE_OUTER_MIME_TYPE)

Pass1Done(n) == Len(pass1) = n /\ \A i \in 1..n : Open(ivk, pass1[i]) = Text(i)

CmmDone(n) ==
  /\ Len(cmm) = n
  /\ \A i \in 1..n : Open(ivk, cmm[i]) = Inner(i) /\ cmm[i].ivk = ivk

EvidenceDone ==
  /\ evidence = [i \in 1..Wanted |-> CvdxfData(EvidenceKey(i), pass1[i])]
  /\ total = EvidenceLen(evidence)

Deposited == {"deposit", "outer_data", "outer_signature", "return"}

(* What the steps before this one have sealed opens with the ivk.          *)
ProgressInv ==
  /\ pc \in {"pass1_data", "pass1_signature"} \cup AfterPass1 => Recipient
  /\ pc \in {"sample_ivk", "find_diversifier", "pass1_data"} => Pass1Done(0)
  /\ pc = "pass1_signature" => Pass1Done(1)
  /\ pc \in AfterPass1 => Pass1Done(Wanted)
  /\ pc \in Deposited => EvidenceDone
  /\ pc \in Deposited \ {"deposit"} => phase = "done"
  /\ pc \notin {"idle", "outer_signature", "return"} => CmmDone(0)
  /\ pc = "outer_signature" => CmmDone(1) /\ req.signature # None
  /\ pc = "return" => CmmDone(Wanted)

OpensInv == ProgressInv /\ RoundTrip

-----------------------------------------------------------------------------
LEMMA NotReturned ==
  ASSUME pc' # "idle"
  PROVE  RoundTrip'
BY DEF RoundTrip, Succeeded, Returned

(* A call that fails promises nothing.                                     *)
LEMMA Failed ==
  ASSUME NEW error \in Errors, Fail(error)
  PROVE  OpensInv'
<1>1. error # None
  BY EnvelopeAssumption DEF EnvelopeAssumption
<1>2. RoundTrip'
  BY <1>1 DEF Fail, RoundTrip, Succeeded
<1>3. ProgressInv'
  BY DEF Fail, ProgressInv, AfterPass1, Deposited
<1> QED
  BY <1>2, <1>3 DEF OpensInv

LEMMA BeforePass1 ==
  ASSUME Inv, OpensInv,
         \/ \E r \in Requests : Call(r)
         \/ SampleIvk \/ TryDiversifier \/ ExhaustDiversifiers
  PROVE  OpensInv'
<1>1. CASE \E r \in Requests : Call(r)
  <2>1. /\ pc' = "sample_ivk" /\ pass1' = <<>> /\ cmm' = <<>>
    BY <1>1 DEF Call, Goto
  <2>2. ProgressInv'
    BY <2>1 DEF ProgressInv, AfterPass1, Deposited, Pass1Done, CmmDone
  <2> QED
    BY <2>1, <2>2, NotReturned DEF OpensInv
<1>2. CASE SampleIvk
  <2>1. /\ pc = "sample_ivk" /\ pc' = "find_diversifier"
        /\ pass1' = pass1 /\ cmm' = cmm
    BY <1>2 DEF SampleIvk, Goto
  <2>2. ProgressInv'
    BY <2>1 DEF OpensInv, ProgressInv, AfterPass1, Deposited, Pass1Done, CmmDone
  <2> QED
    BY <2>1, <2>2, NotReturned DEF OpensInv
<1>3. CASE TryDiversifier
  <2>1. /\ pc = "find_diversifier" /\ pass1' = pass1 /\ cmm' = cmm /\ ivk' = ivk
        /\ \/ pc' = "find_diversifier"
           \/ /\ pc' = "pass1_data"
              /\ pkd' = Mul(ivk, DeriveGd(diversifier'))
    BY <1>3 DEF TryDiversifier
  <2>2. pc' = "pass1_data" => Recipient'
    BY <2>1 DEF Recipient, Mul, DeriveGd
  <2>3. ProgressInv'
    BY <2>1, <2>2 DEF OpensInv, ProgressInv, AfterPass1, Deposited, Pass1Done, CmmDone
  <2> QED
    BY <2>1, <2>3, NotReturned DEF OpensInv
<1>4. CASE ExhaustDiversifiers
  BY <1>4, Failed DEF ExhaustDiversifiers, Errors
<1> QED
  BY <1>1, <1>2, <1>3, <1>4

(* What the scalar just drawn seals opens.                                 *)
LEMMA DrawnOpens ==
  ASSUME Inv, OpensInv, NEW text,
         pc \in {"pass1_data", "pass1_signature", "outer_data", "outer_signature"}
  PROVE  /\ SealError(NextDraw) = None
         /\ Open(ivk, Pass1Descriptor(NextDraw, text)) = text
         /\ Open(ivk, OuterDescriptor(NextDraw, text)) = text
         /\ OuterDescriptor(NextDraw, text).ivk = ivk
<1>1. /\ diversifier \in ValidDiversifiers /\ pkd \in Points /\ ivk \in Scalars
      /\ draws + 1 <= Len(Stream) /\ TypeOK
  BY EnvelopeAssumption
     DEF EnvelopeAssumption, Inv, TypeOK, CallInv, Reserve, AfterPass1
<1>2. NextDraw \in Scalars /\ SealError(NextDraw) = None
  BY <1>1, Sealed
<1>3. Recipient
  BY DEF OpensInv, ProgressInv, AfterPass1
<1> QED
  BY <1>1, <1>2, <1>3, Pass1Opens, OuterOpens

LEMMA Appended ==
  ASSUME NEW S, NEW s \in Seq(S), NEW e
  PROVE  /\ Len(Append(s, e)) = Len(s) + 1
         /\ \A i \in 1..Len(s) : Append(s, e)[i] = s[i]
         /\ Append(s, e)[Len(s) + 1] = e
OBVIOUS

LEMMA EncryptPass1Opens ==
  ASSUME Inv, OpensInv, pc \in {"pass1_data", "pass1_signature"},
         NEW next \in {"pass1_signature", "evidence"},
         NEW n \in {0, 1}, Pass1Done(n), EncryptPass1(Text(n + 1), next),
         IF next = "evidence" THEN n + 1 = Wanted ELSE n = 0
  PROVE  OpensInv'
<1> DEFINE d == Pass1Descriptor(NextDraw, Text(n + 1))
<1>1. SealError(NextDraw) = None /\ Open(ivk, d) = Text(n + 1)
  BY DrawnOpens
<1>2. /\ pass1' = Append(pass1, d) /\ pc' = next
      /\ UNCHANGED <<req, ivk, diversifier, pkd, cmm>>
  BY <1>1 DEF EncryptPass1, recipient
<1>3. pass1 \in Seq(Pass1Descriptors) /\ Len(pass1) = n
  BY DEF Inv, TypeOK, Pass1Done
<1> HIDE DEF d
<1>4. /\ Len(pass1') = n + 1 /\ pass1'[n + 1] = d
      /\ \A i \in 1..n : pass1'[i] = pass1[i]
  BY <1>2, <1>3, Appended
<1>5. \A i \in 1..n + 1 : Open(ivk, pass1'[i]) = Text(i)
  <2>1. \A i \in 1..n : Open(ivk, pass1[i]) = Text(i)
    BY DEF Pass1Done
  <2> QED
    BY <1>1, <1>4, <2>1
<1>6. \A i \in 1..n + 1 : Text(i)' = Text(i)
  BY <1>2 DEF Text
<1>7. Pass1Done(n + 1)'
  BY <1>2, <1>4, <1>5, <1>6 DEF Pass1Done
<1>8. Recipient' /\ CmmDone(0)' /\ Wanted' = Wanted
  BY <1>2 DEF OpensInv, ProgressInv, Recipient, CmmDone, Wanted, AfterPass1,
              Mul, DeriveGd
<1>9. ProgressInv'
  <2>1. CASE next = "evidence"
    <3>1. Pass1Done(Wanted)'
      BY <1>7, <1>8, <2>1
    <3> QED
      BY <1>2, <1>8, <2>1, <3>1 DEF ProgressInv, AfterPass1, Deposited
  <2>2. CASE next = "pass1_signature"
    <3>1. Pass1Done(1)'
      BY <1>7, <2>2
    <3> QED
      BY <1>2, <1>8, <2>2, <3>1 DEF ProgressInv, AfterPass1, Deposited
  <2> QED
    BY <2>1, <2>2
<1> QED
  BY <1>2, <1>9, NotReturned DEF OpensInv

LEMMA Pass1StepsOpen ==
  ASSUME Inv, OpensInv, EncryptData \/ EncryptSignature
  PROVE  OpensInv'
<1>1. CASE EncryptData
  <2> DEFINE next == IF req.signature # None THEN "pass1_signature" ELSE "evidence"
  <2>1. pc = "pass1_data" /\ EncryptPass1(Text(0 + 1), next)
    BY <1>1 DEF EncryptData, Text
  <2>2. Pass1Done(0)
    BY <2>1 DEF OpensInv, ProgressInv
  <2>3. /\ next \in {"pass1_signature", "evidence"}
        /\ IF next = "evidence" THEN 0 + 1 = Wanted ELSE 0 = 0
    BY DEF Wanted
  <2> HIDE DEF next
  <2> QED
    BY <2>1, <2>2, <2>3, EncryptPass1Opens
<1>2. CASE EncryptSignature
  <2>1. pc = "pass1_signature" /\ EncryptPass1(Text(1 + 1), "evidence")
    BY <1>2 DEF EncryptSignature, Text
  <2>2. Pass1Done(1) /\ 1 + 1 = Wanted
    BY <2>1 DEF Inv, CallInv, OpensInv, ProgressInv, Wanted
  <2> QED
    BY <2>1, <2>2, EncryptPass1Opens
<1> QED
  BY <1>1, <1>2

LEMMA BuildEvidenceOpens ==
  ASSUME Inv, OpensInv, BuildEvidence
  PROVE  OpensInv'
<1>1. /\ pc = "evidence" /\ pc' = "deposit"
      /\ evidence' = [i \in DOMAIN pass1 |-> CvdxfData(EvidenceKey(i), pass1[i])]
      /\ BuildTrial(EvidenceLen(evidence'))
      /\ UNCHANGED <<req, ivk, diversifier, pkd, pass1, cmm>>
  BY DEF BuildEvidence, Goto, recipient
<1>2. Recipient /\ Pass1Done(Wanted) /\ CmmDone(0)
  BY <1>1 DEF OpensInv, ProgressInv, AfterPass1
<1>3. DOMAIN pass1 = 1..Wanted
  <2>1. pass1 \in Seq(Pass1Descriptors)
    BY DEF Inv, TypeOK
  <2> QED
    BY <1>2, <2>1 DEF Pass1Done
<1>4. Wanted' = Wanted /\ \A i : Text(i)' = Text(i)
  BY <1>1 DEF Wanted, Text
<1>5. Recipient' /\ Pass1Done(Wanted)' /\ CmmDone(0)'
  BY <1>1, <1>2, <1>4 DEF Recipient, Pass1Done, CmmDone, Mul, DeriveGd
<1>6. EvidenceDone'
  <2>1. total' = EvidenceLen(evidence')
    BY <1>1 DEF BuildTrial
  <2> QED
    BY <1>1, <1>3, <1>4, <2>1 DEF EvidenceDone
<1>7. ProgressInv'
  BY <1>1, <1>5, <1>6 DEF ProgressInv, AfterPass1, Deposited
<1> QED
  BY <1>1, <1>7, NotReturned DEF OpensInv

LEMMA DepositStepOpens ==
  ASSUME Inv, OpensInv, DepositStep
  PROVE  OpensInv'
<1>1. /\ pc = "deposit"
      /\ pc' = IF phase' = "done" THEN "outer_data" ELSE "deposit"
      /\ total' = total
      /\ UNCHANGED <<req, ivk, diversifier, pkd, pass1, evidence, cmm>>
  BY DEF DepositStep, recipient, KeepTrial, BeginSplit, AppendChunk, FinishSplit
<1>2. Recipient /\ Pass1Done(Wanted) /\ EvidenceDone /\ CmmDone(0)
  BY <1>1 DEF OpensInv, ProgressInv, AfterPass1, Deposited
<1>3. Wanted' = Wanted /\ \A i : Text(i)' = Text(i)
  BY <1>1 DEF Wanted, Text
<1>4. Recipient' /\ Pass1Done(Wanted)' /\ EvidenceDone' /\ CmmDone(0)'
  BY <1>1, <1>2, <1>3
     DEF Recipient, Pass1Done, EvidenceDone, CmmDone, Mul, DeriveGd
<1>5. ProgressInv'
  BY <1>1, <1>4 DEF ProgressInv, AfterPass1, Deposited
<1> QED
  BY <1>1, <1>5, NotReturned DEF OpensInv

-----------------------------------------------------------------------------
LEMMA WrapOuterOpens ==
  ASSUME Inv, OpensInv, pc \in {"outer_data", "outer_signature"},
         NEW next \in {"outer_signature", "return"}, NEW inner,
         NEW n \in {0, 1}, CmmDone(n), WrapOuter(inner, next),
         CvdxfData(DATA_DESCRIPTOR_KEY, WriteDescriptor(inner)) = Inner(n + 1),
         IF next = "return" THEN n + 1 = Wanted
         ELSE n = 0 /\ req.signature # None
  PROVE  OpensInv'
<1> DEFINE d == OuterDescriptor(NextDraw, Inner(n + 1))
<1>1. SealError(NextDraw) = None /\ Open(ivk, d) = Inner(n + 1) /\ d.ivk = ivk
  BY DrawnOpens
<1>2. UNCHANGED <<req, ivk, diversifier, pkd, pass1, evidence, phase, total>>
  BY DEF WrapOuter, recipient, depositVars
<1>3. CASE Fail(OuterError(NextDraw, inner)) /\ OuterError(NextDraw, inner) # None
  <2>1. OuterError(NextDraw, inner) \in Errors
    BY <1>1, <1>3 DEF OuterError, Errors
  <2> QED
    BY <1>3, <2>1, Failed
<1>4. CASE cmm' = Append(cmm, d) /\ pc' = next
  <2>1. cmm \in Seq(OuterDescriptors) /\ Len(cmm) = n
    BY DEF Inv, TypeOK, CmmDone
  <2> HIDE DEF d
  <2>2. /\ Len(cmm') = n + 1 /\ cmm'[n + 1] = d
        /\ \A i \in 1..n : cmm'[i] = cmm[i]
    BY <1>4, <2>1, Appended
  <2>3. \A i \in 1..n + 1 : Open(ivk, cmm'[i]) = Inner(i) /\ cmm'[i].ivk = ivk
    <3>1. \A i \in 1..n : Open(ivk, cmm[i]) = Inner(i) /\ cmm[i].ivk = ivk
      BY DEF CmmDone
    <3> QED
      BY <1>1, <2>2, <3>1
  <2>4. /\ Wanted' = Wanted
        /\ \A i : Text(i)' = Text(i)
        /\ \A i : Inner(i)' = Inner(i)
    BY <1>2 DEF Wanted, Text, Inner, InnerText, InnerDescriptor
  <2>5. CmmDone(n + 1)'
    BY <1>2, <2>2, <2>3, <2>4 DEF CmmDone
  <2>6. Recipient /\ Pass1Done(Wanted) /\ EvidenceDone /\ phase = "done"
    BY DEF OpensInv, ProgressInv, AfterPass1, Deposited
  <2>7. Recipient' /\ Pass1Done(Wanted)' /\ EvidenceDone' /\ phase' = "done"
    BY <1>2, <2>4, <2>6 DEF Recipient, Pass1Done, EvidenceDone, Mul, DeriveGd
  <2>8. ProgressInv'
    <3>1. CASE next = "return"
      <4>1. CmmDone(Wanted)'
        BY <2>4, <2>5, <3>1
      <4> QED
        BY <1>4, <2>7, <3>1, <4>1 DEF ProgressInv, AfterPass1, Deposited
    <3>2. CASE next = "outer_signature"
      <4>1. CmmDone(1)' /\ req' = req /\ req.signature # None
        BY <1>2, <2>5, <3>2
      <4> QED
        BY <1>4, <2>7, <3>2, <4>1 DEF ProgressInv, AfterPass1, Deposited
    <3> QED
      BY <3>1, <3>2
  <2> QED
    BY <1>4, <2>8, NotReturned DEF OpensInv
<1> QED
  BY <1>3, <1>4 DEF WrapOuter

LEMMA OuterStepsOpen ==
  ASSUME Inv, OpensInv, WrapData \/ WrapSignature
  PROVE  OpensInv'
<1>1. CASE WrapData
  <2> DEFINE next  == IF req.signature # None THEN "outer_signature" ELSE "return"
             inner == InnerDescriptor(0, req.label, req.mime)
  <2>1. pc = "outer_data" /\ WrapOuter(inner, next)
    BY <1>1 DEF WrapData
  <2>2. CmmDone(0)
    BY <2>1 DEF OpensInv, ProgressInv
  <2>3. /\ next \in {"outer_signature", "return"}
        /\ IF next = "return" THEN 0 + 1 = Wanted
           ELSE 0 = 0 /\ req.signature # None
    BY DEF Wanted
  <2>4. CvdxfData(DATA_DESCRIPTOR_KEY, WriteDescriptor(inner)) = Inner(0 + 1)
    BY DEF Inner, InnerText
  <2> HIDE DEF next, inner
  <2> QED
    BY <2>1, <2>2, <2>3, <2>4, WrapOuterOpens
<1>2. CASE WrapSignature
  <2> DEFINE inner == InnerDescriptor(1, SIGNATURE_OUTER_LABEL,
                                      SIGNATURE_OUTER_MIME_TYPE)
  <2>1. pc = "outer_signature" /\ WrapOuter(inner, "return")
    BY <1>2 DEF WrapSignature
  <2>2. CmmDone(1) /\ 1 + 1 = Wanted
    BY <2>1 DEF OpensInv, ProgressInv, Wanted
  <2>3. CvdxfData(DATA_DESCRIPTOR_KEY, WriteDescriptor(inner)) = Inner(1 + 1)
    BY DEF Inner, InnerText
  <2> HIDE DEF inner
  <2> QED
    BY <2>1, <2>2, <2>3, WrapOuterOpens
<1> QED
  BY <1>1, <1>2

SignatureLabels ==
  /\ SIGNATURE_OUTER_LABEL \in Optional(ByteStrings)
  /\ SIGNATURE_OUTER_MIME_TYPE \in Optional(ByteStrings)

LEMMA InnerIsText ==
  ASSUME NEW n \in {1, 2}, req \in Requests
  PROVE  Inner(n) \in InnerTexts
<1>1. SignatureLabels
  <2>1. \A s \in Contents, k \in Nat : Bytes(s, k) \in ByteStrings
    BY DEF Bytes, ByteStrings
  <2>2. 9 \in Nat /\ 16 \in Nat
    OBVIOUS
  <2>3. "signature" \in Contents /\ "application/json" \in Contents
    BY EnvelopeAssumption DEF EnvelopeAssumption
  <2>4. /\ Bytes("signature", 9) \in ByteStrings
        /\ Bytes("application/json", 16) \in ByteStrings
    BY <2>1, <2>2, <2>3
  <2> QED
    BY <2>4 DEF SignatureLabels, SIGNATURE_OUTER_LABEL,
                SIGNATURE_OUTER_MIME_TYPE, Optional
<1>2. ASSUME NEW k \in {0, 1}, NEW label \in Optional(ByteStrings),
             NEW mime \in Optional(ByteStrings)
      PROVE  InnerText(k, label, mime) \in InnerTexts
  <2> DEFINE inner == InnerDescriptor(k, label, mime)
  <2>1. inner \in Descriptors(Pointers) /\ inner.object.len \in Nat
    BY InnerDescriptorType
  <2> HIDE DEF inner
  <2>2. WriteDescriptor(inner) \in Serialized(Pointers)
    BY <2>1, WriteDescriptorType
  <2>3. WriteDescriptor(inner).len \in Nat
    BY <2>2 DEF Serialized
  <2>4. CvdxfData(DATA_DESCRIPTOR_KEY, WriteDescriptor(inner))
          \in Cvdxf(Serialized(Pointers))
    BY <2>2, <2>3, CvdxfDataType
  <2> QED
    BY <2>4 DEF InnerText, InnerTexts, Pointers, inner
<1>3. req.label \in Optional(ByteStrings) /\ req.mime \in Optional(ByteStrings)
  BY RequestFields
<1> QED
  BY <1>1, <1>2, <1>3 DEF Inner, SignatureLabels

(* The pointer of the n-th outer descriptor leads to the n-th text.        *)
LEMMA RecoversNth ==
  ASSUME NEW n \in {1, 2}, n <= Wanted, req \in Requests,
         Pass1Done(Wanted), EvidenceDone, NEW o,
         Open(o.ivk, o) = Inner(n), o.ivk = ivk
  PROVE  RecoversFrom(o, EvidenceKey(n), Text(n),
           IF n = 1 THEN req.label ELSE SIGNATURE_OUTER_LABEL,
           IF n = 1 THEN req.mime ELSE SIGNATURE_OUTER_MIME_TYPE)
<1>1. /\ Inner(n).data.object = SelfRef(req.vout, 0, n - 1)
      /\ Inner(n).data.label =
           Expected(IF n = 1 THEN req.label ELSE SIGNATURE_OUTER_LABEL)
      /\ Inner(n).data.mime =
           Expected(IF n = 1 THEN req.mime ELSE SIGNATURE_OUTER_MIME_TYPE)
  BY InnerTextFields DEF Inner
<1>2. Inner(n) # None
  BY InnerIsText, TextAssumption
<1>3. /\ SelfRef(req.vout, 0, n - 1).vout = req.vout
      /\ SelfRef(req.vout, 0, n - 1).objectNum = 0
      /\ SelfRef(req.vout, 0, n - 1).subObject + 1 = n
  BY DEF SelfRef
<1>4. n \in DOMAIN evidence /\ evidence[n] = CvdxfData(EvidenceKey(n), pass1[n])
  BY DEF EvidenceDone, Wanted
<1>5. evidence[n].key = EvidenceKey(n) /\ evidence[n].data = pass1[n]
  BY <1>4 DEF CvdxfData
<1>6. Open(o.ivk, evidence[n].data) = Text(n)
  BY <1>5 DEF Pass1Done, Wanted
<1> QED
  BY <1>1, <1>2, <1>3, <1>4, <1>5, <1>6 DEF RecoversFrom

LEMMA ReturnOpens ==
  ASSUME Inv, OpensInv, Return
  PROVE  OpensInv'
<1>1. /\ pc = "return" /\ pc' = "idle"
      /\ UNCHANGED <<req, ivk, evidence, cmm, pass1>>
      /\ outcome'.cmm = cmm /\ outcome'.scripts = out
  BY DEF Return, Goto, recipient
<1>2. /\ Pass1Done(Wanted) /\ EvidenceDone /\ CmmDone(Wanted)
      /\ phase = "done" /\ req \in Requests
  BY <1>1 DEF Inv, CallInv, OpensInv, ProgressInv, AfterPass1, Deposited
<1>3. Readable(out, EvidenceLen(evidence))
  BY <1>2 DEF Inv, DepositInv, Reassembles, EvidenceDone
<1>4. \A n \in 1..Wanted :
        RecoversFrom(cmm[n], EvidenceKey(n), Text(n),
           IF n = 1 THEN req.label ELSE SIGNATURE_OUTER_LABEL,
           IF n = 1 THEN req.mime ELSE SIGNATURE_OUTER_MIME_TYPE)
  <2> TAKE n \in 1..Wanted
  <2>1. n \in {1, 2} /\ n <= Wanted
    BY DEF Wanted
  <2>2. Open(cmm[n].ivk, cmm[n]) = Inner(n) /\ cmm[n].ivk = ivk
    BY <1>2 DEF CmmDone
  <2> QED
    BY <1>2, <2>1, <2>2, RecoversNth
<1>5. /\ Len(cmm) = Wanted
      /\ RecoversFrom(cmm[1], DATA_DESCRIPTOR_KEY, req.plaintext, req.label, req.mime)
      /\ req.signature # None =>
           RecoversFrom(cmm[2], SIGNATURE_DATA_KEY, req.signature,
                        SIGNATURE_OUTER_LABEL, SIGNATURE_OUTER_MIME_TYPE)
  <2>1. Wanted \in Nat /\ 1 \in 1..Wanted /\ (req.signature # None => 2 \in 1..Wanted)
    BY DEF Wanted
  <2>2. /\ EvidenceKey(1) = DATA_DESCRIPTOR_KEY /\ EvidenceKey(2) = SIGNATURE_DATA_KEY
        /\ Text(1) = req.plaintext /\ Text(2) = req.signature
    BY DEF EvidenceKey, Text
  <2>3. RecoversFrom(cmm[1], EvidenceKey(1), Text(1), req.label, req.mime)
    BY <1>4, <2>1
  <2>4. req.signature # None =>
          RecoversFrom(cmm[2], EvidenceKey(2), Text(2),
                       SIGNATURE_OUTER_LABEL, SIGNATURE_OUTER_MIME_TYPE)
    BY <1>4, <2>1
  <2> QED
    BY <1>2, <2>2, <2>3, <2>4 DEF CmmDone
<1>6. RoundTrip'
  <2>1. \A o, key, text, label, mime :
          RecoversFrom(o, key, text, label, mime) =>
            RecoversFrom(o, key, text, label, mime)'
    BY <1>1 DEF RecoversFrom
  <2> QED
    BY <1>1, <1>3, <1>5, <2>1 DEF RoundTrip, Wanted
<1>7. ProgressInv'
  BY <1>1 DEF ProgressInv, AfterPass1, Deposited
<1> QED
  BY <1>6, <1>7 DEF OpensInv

LEMMA OpensStutter ==
  ASSUME OpensInv, UNCHANGED vars
  PROVE  OpensInv'
<1>1. /\ UNCHANGED <<pc, req, ivk, diversifier, pkd, pass1, evidence, cmm, outcome>>
      /\ UNCHANGED <<phase, total, out>>
  BY DEF vars, recipient, depositVars
<1>2. ProgressInv'
  <2>1. \A i : Text(i)' = Text(i) /\ Inner(i)' = Inner(i)
    BY <1>1 DEF Text, Inner, InnerText, InnerDescriptor
  <2>2. Wanted' = Wanted
    BY <1>1 DEF Wanted
  <2>3. /\ Recipient' = Recipient /\ EvidenceDone' = EvidenceDone
        /\ \A n : Pass1Done(n) => Pass1Done(n)'
        /\ \A n : CmmDone(n) => CmmDone(n)'
    BY <1>1, <2>1, <2>2 DEF Recipient, EvidenceDone, Pass1Done, CmmDone, Mul, DeriveGd
  <2> QED
    BY <1>1, <2>2, <2>3 DEF OpensInv, ProgressInv, AfterPass1, Deposited
<1>3. RoundTrip'
  <2>1. \A o, key, text, label, mime :
          RecoversFrom(o, key, text, label, mime) =>
            RecoversFrom(o, key, text, label, mime)'
    BY <1>1 DEF RecoversFrom
  <2> QED
    BY <1>1, <2>1 DEF OpensInv, RoundTrip, Succeeded, Returned
<1> QED
  BY <1>2, <1>3 DEF OpensInv

LEMMA OpensPreserved == Inv /\ OpensInv /\ [Next]_vars => OpensInv'
<1> SUFFICES ASSUME Inv, OpensInv, [Next]_vars PROVE OpensInv'
  OBVIOUS
<1>1. CASE UNCHANGED vars
  BY <1>1, OpensStutter
<1>2. CASE Next
  BY <1>2, BeforePass1, Pass1StepsOpen, BuildEvidenceOpens, DepositStepOpens,
     OuterStepsOpen, ReturnOpens DEF Next, Step
<1> QED
  BY <1>1, <1>2

LEMMA OpensInit == Init => OpensInv
<1> SUFFICES ASSUME Init PROVE OpensInv
  OBVIOUS
<1> QED
  BY DEF Init, OpensInv, ProgressInv, AfterPass1, Deposited, RoundTrip, Succeeded, Returned

(* Whatever a call is asked to encrypt, what it publishes opens to it: the *)
(* keys of both sides agree although each multiplies by the cofactor on    *)
(* its own, the pointers lead to their texts and the scripts reassemble    *)
(* (encrypt_public_decrypt as a whole).                                    *)
THEOREM PublishedOpens == Spec => []RoundTrip
<1>1. Init => OpensInv
  BY OpensInit
<1>2. Inv /\ OpensInv /\ [Next]_vars => OpensInv'
  BY OpensPreserved
<1>3. OpensInv => RoundTrip
  BY DEF OpensInv
<1> QED
  BY <1>1, <1>2, <1>3, EnvelopeInvariant, PTL DEF Spec

-----------------------------------------------------------------------------
(* In a group of prime order a factor other than zero can be cancelled.    *)
LEMMA Cancel ==
  ASSUME NEW a \in Scalars, NEW b \in Scalars, NEW c \in 1..Q - 1,
         (a * c) % Q = (b * c) % Q
  PROVE  a = b
<1> DEFINE r == (a * c) % Q
<1>1. /\ Q \in Nat /\ Q > 0 /\ a \in Nat /\ b \in Nat /\ c \in Nat
      /\ a < Q /\ b < Q
  BY SaplingAssumption DEF SaplingAssumption, Scalars
<1>2. a * c \in Nat /\ b * c \in Nat
  BY <1>1
<1>3. /\ a * c = ((a * c) \div Q) * Q + r /\ (a * c) \div Q \in Nat
      /\ b * c = ((b * c) \div Q) * Q + r /\ (b * c) \div Q \in Nat
      /\ r \in 0..Q - 1
  BY <1>1, <1>2, DivMod
<1> DEFINE j == (a * c) \div Q
           k == (b * c) \div Q
<1> HIDE DEF r, j, k
<1>4. ASSUME NEW x \in Nat, NEW y \in Nat, NEW i \in Nat, NEW l \in Nat,
             x < Q, x > y, x * c = (i * Q) + r, y * c = (l * Q) + r
      PROVE  FALSE
  <2>1. x - y \in 1..Q - 1
    BY <1>1, <1>4
  <2>2. (x - y) * c = ((i - l) * Q) + 0
    BY <1>1, <1>3, <1>4
  <2>3. ((x - y) * c) % Q = 0
    <3>1. i - l \in Int /\ 0 \in 0..Q - 1
      BY <1>1
    <3>2. (((i - l) * Q) + 0) % Q = 0
      BY <1>1, <3>1, ModUnique
    <3> QED
      BY <2>2, <3>2
  <2> QED
    BY <2>1, <2>3, PrimeOrderAssumption DEF PrimeOrderAssumption
<1>5. ~(a > b)
  BY <1>1, <1>3, <1>4 DEF j, k
<1>6. ~(b > a)
  BY <1>1, <1>3, <1>4 DEF j, k
<1> QED
  BY <1>1, <1>5, <1>6

(* Two ivks that agree on a secret are one.                                *)
LEMMA SecretTellsIvk ==
  ASSUME NEW a \in Scalars, NEW b \in Scalars, NEW d \in ValidDiversifiers,
         NEW esk \in Scalars, esk # 0,
         KaAgree(a, DeriveEpk(esk, d)) = KaAgree(b, DeriveEpk(esk, d))
  PROVE  a = b
<1> DEFINE c == (8 * esk) % Q
<1>1. /\ Q \in Nat /\ Q > 0 /\ a \in Nat /\ b \in Nat /\ esk \in Nat
      /\ 8 * esk \in Nat /\ esk \in 1..Q - 1 /\ 8 \in 1..Q - 1
  BY SaplingAssumption, PrimeOrderAssumption
     DEF SaplingAssumption, PrimeOrderAssumption, Scalars
<1>2. c \in 1..Q - 1
  <2>1. c \in 0..Q - 1
    BY <1>1, DivMod
  <2>2. c # 0
    BY <1>1, PrimeOrderAssumption DEF PrimeOrderAssumption
  <2> QED
    BY <1>1, <2>1, <2>2
<1>3. /\ (a * c) % Q = (a * (8 * esk)) % Q
      /\ (b * c) % Q = (b * (8 * esk)) % Q
  BY <1>1, MulMod
<1>4. Multiple(d, (a * (8 * esk)) % Q) = Multiple(d, (b * (8 * esk)) % Q)
  BY PublicValue, Secret
<1>5. \A n : Multiple(d, n).multiple = n
  BY DEF Multiple, Identity, Point
<1>6. (a * c) % Q = (b * c) % Q
  BY <1>3, <1>4, <1>5
<1> HIDE DEF c
<1> QED
  BY <1>2, <1>6, Cancel

-----------------------------------------------------------------------------
Used(s) == \E k \in 1..draws : s = Stream[k]

(* The encryptions of earlier calls.                                       *)
Earlier == Len(encryptions) - (Len(pass1) + Len(cmm))

(* The key of an encryption is the one an ivk gets from its epk.           *)
SealedUnder(key, v, esk, d) ==
  LET epk == DeriveEpk(esk, d) IN key = Kdf(KaAgree(v, epk), epk)

(* Every encryption was made for one ivk; the call under way, or the last  *)
(* one, has made those made for its own.                                   *)
HistoryInv ==
  /\ Earlier \in Nat
  /\ pc \notin {"idle", "sample_ivk"} => Used(ivk)
  /\ pc = "sample_ivk" => ivk = None
  /\ Succeeded => outcome.ivk = ivk /\ ivk \in Scalars
  /\ \A i \in DOMAIN encryptions :
       \E v \in Scalars, esk \in Scalars, d \in ValidDiversifiers :
         /\ esk # 0 /\ Used(v)
         /\ SealedUnder(encryptions[i].key, v, esk, d)
         /\ v = ivk <=> i > Earlier

LEMMA HistoryOpens ==
  ASSUME Inv, HistoryInv
  PROVE  IvkOpensItsCallOnly
<1> SUFFICES ASSUME Succeeded PROVE IvkOpensItsCallOnly
  BY DEF IvkOpensItsCallOnly
<1> DEFINE Opened(i) ==
             encryptions[i].key = Kdf(KaAgree(outcome.ivk, encryptions[i].key.epk),
                                      encryptions[i].key.epk)
<1>1. outcome.ivk = ivk /\ ivk \in Scalars /\ Earlier \in Nat
  BY DEF HistoryInv
<1>2. /\ DOMAIN encryptions = 1..Len(encryptions) /\ Len(encryptions) \in Nat
  BY DEF Inv, TypeOK
<1>3. \A i \in DOMAIN encryptions : Opened(i) <=> i > Earlier
  <2> TAKE i \in DOMAIN encryptions
  <2>1. PICK v \in Scalars, esk \in Scalars, d \in ValidDiversifiers :
          /\ esk # 0 /\ SealedUnder(encryptions[i].key, v, esk, d)
          /\ v = ivk <=> i > Earlier
    BY DEF HistoryInv
  <2> DEFINE epk == DeriveEpk(esk, d)
  <2>2. encryptions[i].key = [dhsecret |-> KaAgree(v, epk), epk |-> epk]
    BY <2>1 DEF SealedUnder, Kdf
  <2>3. Opened(i) <=> KaAgree(v, epk) = KaAgree(ivk, epk)
    BY <1>1, <2>2 DEF Kdf
  <2>4. KaAgree(v, epk) = KaAgree(ivk, epk) <=> v = ivk
    BY <1>1, <2>1, SecretTellsIvk
  <2> HIDE DEF Opened, epk
  <2> QED
    BY <2>1, <2>3, <2>4
<1>4. {i \in DOMAIN encryptions : Opened(i)} = Earlier + 1..Len(encryptions)
  BY <1>1, <1>2, <1>3
<1> QED
  BY <1>4 DEF IvkOpensItsCallOnly, Earlier

LEMMA UsedKept ==
  ASSUME Inv, draws' \in {draws, draws + 1}, NEW s
  PROVE  Used(s) => Used(s)'
<1>1. 1..draws \subseteq 1..draws'
  BY DEF Inv, TypeOK
<1> QED
  BY <1>1 DEF Used

(* A step that encrypts nothing.                                           *)
LEMMA HistoryKept ==
  ASSUME Inv, HistoryInv, UNCHANGED <<pass1, cmm, encryptions, ivk>>,
         draws' \in {draws, draws + 1},
         pc' = "sample_ivk" => pc = "sample_ivk",
         pc' \notin {"idle", "sample_ivk"} => pc \notin {"idle", "sample_ivk"},
         Succeeded' => outcome'.ivk = ivk /\ ivk \in Scalars
  PROVE  HistoryInv'
<1>1. \A s : Used(s) => Used(s)'
  BY UsedKept
<1>2. Earlier' = Earlier
  BY DEF Earlier
<1> QED
  BY <1>1, <1>2 DEF HistoryInv, SealedUnder

(* A step that encrypts one text to the call's recipient.                  *)
LEMMA HistoryGrows ==
  ASSUME Inv, OpensInv, HistoryInv,
         pc \in {"pass1_data", "pass1_signature", "outer_data", "outer_signature"},
         NEW text, Record(NextDraw, text), draws' = draws + 1, ivk' = ivk,
         Len(pass1') + Len(cmm') = Len(pass1) + Len(cmm) + 1,
         pc' \notin {"idle", "sample_ivk"}
  PROVE  HistoryInv'
<1> DEFINE n == Len(encryptions)
           e == [key |-> Key(NextDraw), text |-> text]
<1>1. /\ diversifier \in ValidDiversifiers /\ pkd \in Points /\ ivk \in Scalars
      /\ draws + 1 \in DOMAIN Stream /\ draws + 1 <= Len(Stream)
      /\ draws \in Nat /\ TypeOK
  <2>1. TypeOK /\ CallInv
    BY DEF Inv
  <2>2. draws \in Nat
    BY <2>1 DEF TypeOK
  <2>3. diversifier \in ValidDiversifiers /\ pkd \in Points /\ ivk \in Scalars
    BY <2>1 DEF TypeOK, CallInv, AfterPass1
  <2>4. draws + 1 <= Len(Stream) /\ draws + 1 \in DOMAIN Stream
    BY <2>1, <2>2, EnvelopeAssumption DEF EnvelopeAssumption, CallInv, Reserve
  <2> QED
    BY <2>1, <2>2, <2>3, <2>4
<1>2. NextDraw \in Scalars /\ NextDraw # 0
  BY <1>1, Sealed, NonzeroAssumption DEF NonzeroAssumption, NextDraw
<1>3. SealedUnder(Key(NextDraw), ivk, NextDraw, diversifier)
  <2>1. Recipient
    BY DEF OpensInv, ProgressInv, AfterPass1
  <2> QED
    BY <1>1, <1>2, <2>1, SecretsMeet DEF SealedUnder, Recipient, Key, Epk
<1>4. /\ encryptions \in Seq([key : Keys, text : ByteStrings \cup InnerTexts])
      /\ Len(pass1) \in Nat /\ Len(cmm) \in Nat
      /\ encryptions' = Append(encryptions, e)
  BY DEF Inv, TypeOK, Record
<1> HIDE DEF e
<1>5. /\ Len(encryptions') = n + 1 /\ DOMAIN encryptions' = 1..n + 1
      /\ DOMAIN encryptions = 1..n /\ n \in Nat
      /\ encryptions'[n + 1] = e /\ \A i \in 1..n : encryptions'[i] = encryptions[i]
  BY <1>4
<1> HIDE DEF n
<1>6. Earlier' = Earlier /\ Earlier \in Nat /\ Earlier <= n
  <2>1. /\ Earlier = n - (Len(pass1) + Len(cmm))
        /\ Earlier' = Len(encryptions') - (Len(pass1') + Len(cmm'))
    BY DEF Earlier, n
  <2>2. Earlier' = (n + 1) - (Len(pass1) + Len(cmm) + 1)
    BY <1>5, <2>1
  <2>3. Earlier \in Nat
    BY DEF HistoryInv
  <2> DEFINE k == Len(pass1)
             l == Len(cmm)
             x == Earlier
             y == Earlier'
  <2>4. /\ x = n - (k + l) /\ y = (n + 1) - (k + l + 1)
        /\ k \in Nat /\ l \in Nat /\ n \in Nat
    BY <1>4, <1>5, <2>1, <2>2
  <2> HIDE DEF k, l, x, y
  <2>5. y = x /\ x <= n
    BY <2>4
  <2> QED
    BY <2>3, <2>5 DEF x, y
<1>7. (\A s : Used(s) => Used(s)') /\ Used(ivk)
  BY UsedKept DEF HistoryInv
<1>8. ASSUME NEW i \in 1..n + 1
      PROVE  \E v \in Scalars, esk \in Scalars, d \in ValidDiversifiers :
               /\ esk # 0 /\ Used(v)'
               /\ SealedUnder(encryptions'[i].key, v, esk, d)
               /\ v = ivk <=> i > Earlier
  <2>1. CASE i = n + 1
    <3>1. encryptions'[i].key = Key(NextDraw)
      BY <1>5, <2>1 DEF e
    <3>2. i > Earlier
      BY <1>5, <1>6, <2>1
    <3> QED
      BY <1>1, <1>2, <1>3, <1>7, <3>1, <3>2
  <2>2. CASE i \in 1..n
    <3>1. encryptions'[i] = encryptions[i] /\ i \in DOMAIN encryptions
      BY <1>5, <2>2
    <3> QED
      BY <1>7, <3>1 DEF HistoryInv
  <2> QED
    BY <1>5, <2>1, <2>2
<1>9. ~Succeeded'
  BY DEF Succeeded, Returned
<1> QED
  BY <1>5, <1>6, <1>7, <1>8, <1>9 DEF HistoryInv, SealedUnder

LEMMA HistoryPreserved == Inv /\ OpensInv /\ HistoryInv /\ [Next]_vars => HistoryInv'
<1> SUFFICES ASSUME Inv, OpensInv, HistoryInv, [Next]_vars PROVE HistoryInv'
  OBVIOUS
<1>0. /\ pass1 \in Seq(Pass1Descriptors) /\ cmm \in Seq(OuterDescriptors)
      /\ Len(encryptions) \in Nat /\ DOMAIN encryptions = 1..Len(encryptions)
      /\ Len(pass1) \in Nat /\ Len(cmm) \in Nat
  BY DEF Inv, TypeOK
<1>1. ASSUME NEW r \in Requests, Call(r) PROVE HistoryInv'
  <2>1. /\ pc' = "sample_ivk" /\ ivk' = None /\ pass1' = <<>> /\ cmm' = <<>>
        /\ encryptions' = encryptions /\ draws' = draws
    BY <1>1 DEF Call, Goto
  <2>2. Earlier' = Len(encryptions)
    BY <1>0, <2>1 DEF Earlier
  <2>3. \A s : Used(s) => Used(s)'
    BY <2>1, UsedKept
  <2>4. ~Succeeded' /\ None \notin Scalars
    BY <2>1, SaplingAssumption DEF SaplingAssumption, Scalars, Succeeded, Returned
  <2>5. \A i \in DOMAIN encryptions : ~(i > Earlier')
    BY <1>0, <2>2
  <2> QED
    BY <1>0, <2>1, <2>2, <2>3, <2>4, <2>5 DEF HistoryInv, SealedUnder
<1>2. CASE SampleIvk
  <2>1. /\ pc = "sample_ivk" /\ pc' = "find_diversifier" /\ ivk' = Stream[draws + 1]
        /\ pass1' = pass1 /\ cmm' = cmm /\ encryptions' = encryptions
        /\ draws' = draws + 1
    BY <1>2 DEF SampleIvk, Goto, NextDraw
  <2>2. Earlier = Len(encryptions) /\ Earlier' = Earlier
    <3>1. Len(pass1) = 0 /\ Len(cmm) = 0
      BY <2>1 DEF OpensInv, ProgressInv, Pass1Done, CmmDone
    <3> QED
      BY <1>0, <2>1, <3>1 DEF Earlier
  <2>3. draws \in Nat /\ draws + 1 \in DOMAIN Stream /\ Len(Stream) \in Nat
        /\ DOMAIN Stream = 1..Len(Stream)
    BY <2>1, EnvelopeAssumption DEF EnvelopeAssumption, Inv, TypeOK, CallInv, Reserve
  <2>4. \A s : Used(s) => Used(s)' /\ s # ivk'
    <3> TAKE s
    <3> HAVE Used(s)
    <3>1. PICK k \in 1..draws : s = Stream[k]
      BY DEF Used
    <3>2. k \in DOMAIN Stream /\ k # draws + 1
      BY <2>3
    <3> QED
      BY <2>1, <2>3, <3>1, <3>2, UsedKept, EnvelopeAssumption DEF EnvelopeAssumption
  <2>5. Used(ivk)'
    BY <2>1, <2>3 DEF Used
  <2>6. ~Succeeded'
    BY <2>1 DEF Succeeded, Returned
  <2>7. \A i \in DOMAIN encryptions : ~(i > Earlier)
    BY <1>0, <2>2
  <2> QED
    BY <2>1, <2>2, <2>4, <2>5, <2>6, <2>7 DEF HistoryInv, SealedUnder
<1>3. CASE TryDiversifier
  BY <1>3, HistoryKept DEF TryDiversifier, Succeeded, Returned
<1>4. CASE ExhaustDiversifiers
  <2>1. ~Succeeded'
    BY <1>4, EnvelopeAssumption
       DEF EnvelopeAssumption, Errors, ExhaustDiversifiers, Fail, Succeeded
  <2> QED
    BY <1>4, <2>1, HistoryKept DEF ExhaustDiversifiers, Fail, recipient
<1>5. ASSUME NEW text, NEW next, EncryptPass1(text, next),
             pc \in {"pass1_data", "pass1_signature"}, next \notin {"idle", "sample_ivk"}
      PROVE  HistoryInv'
  <2>1. SealError(NextDraw) = None
    BY <1>5, DrawnOpens
  <2>2. /\ pass1' = Append(pass1, Pass1Descriptor(NextDraw, text)) /\ cmm' = cmm
        /\ ivk' = ivk /\ Record(NextDraw, text) /\ draws' = draws + 1 /\ pc' = next
    BY <1>5, <2>1 DEF EncryptPass1, recipient
  <2>3. Len(pass1') + Len(cmm') = Len(pass1) + Len(cmm) + 1
    BY <1>0, <2>2, Appended
  <2> QED
    BY <1>5, <2>2, <2>3, HistoryGrows
<1>6. ASSUME NEW inner, NEW next, WrapOuter(inner, next),
             pc \in {"outer_data", "outer_signature"}, next \notin {"idle", "sample_ivk"}
      PROVE  HistoryInv'
  <2> DEFINE text == CvdxfData(DATA_DESCRIPTOR_KEY, WriteDescriptor(inner))
  <2>1. SealError(NextDraw) = None
    BY <1>6, DrawnOpens
  <2>2. pass1' = pass1 /\ ivk' = ivk /\ draws' = draws + 1
    BY <1>6 DEF WrapOuter, recipient
  <2>3. CASE /\ Fail(OuterError(NextDraw, inner)) /\ OuterError(NextDraw, inner) # None
             /\ UNCHANGED <<cmm, encryptions>>
    <3>1. ~Succeeded'
      BY <2>3 DEF Fail, Succeeded
    <3> QED
      BY <2>2, <2>3, <3>1, HistoryKept DEF Fail
  <2>4. CASE /\ cmm' = Append(cmm, OuterDescriptor(NextDraw, text))
             /\ Record(NextDraw, text) /\ pc' = next
    <3>1. Len(pass1') + Len(cmm') = Len(pass1) + Len(cmm) + 1
      BY <1>0, <2>2, <2>4, Appended
    <3> QED
      BY <1>6, <2>2, <2>4, <3>1, HistoryGrows
  <2> QED
    BY <1>6, <2>3, <2>4 DEF WrapOuter
<1>7. CASE EncryptData
  BY <1>5, <1>7 DEF EncryptData
<1>8. CASE EncryptSignature
  BY <1>5, <1>8 DEF EncryptSignature
<1>9. CASE WrapData
  BY <1>6, <1>9 DEF WrapData
<1>10. CASE WrapSignature
  BY <1>6, <1>10 DEF WrapSignature
<1>11. CASE BuildEvidence
  BY <1>11, HistoryKept DEF BuildEvidence, Goto, recipient, Succeeded, Returned
<1>12. CASE DepositStep
  BY <1>12, HistoryKept DEF DepositStep, recipient, Succeeded, Returned
<1>13. CASE Return
  <2>1. pc = "return" /\ outcome'.ivk = ivk /\ ivk \in Scalars
    BY <1>13 DEF Return, Goto, Inv, CallInv
  <2> QED
    BY <1>13, <2>1, HistoryKept DEF Return, Goto, recipient
<1>14. CASE UNCHANGED vars
  BY <1>14, HistoryKept DEF vars, recipient, HistoryInv, Succeeded, Returned
<1> QED
  BY <1>1, <1>2, <1>3, <1>4, <1>7, <1>8, <1>9, <1>10, <1>11, <1>12, <1>13, <1>14
     DEF Next, Step

(* A published ivk opens all its call encrypted and nothing of any other   *)
(* call, whichever diversifiers the calls used, as long as the generator   *)
(* repeats no scalar (encrypt_public_decrypt steps 1 to 6).                *)
THEOREM IvkOpensNoOtherCall == Spec => []IvkOpensItsCallOnly
<1>1. Init => OpensInv /\ HistoryInv
  <2>1. Init => HistoryInv
    BY DEF Init, HistoryInv, Earlier, Succeeded, Returned
  <2> QED
    BY <2>1, OpensInit
<1>2. Inv /\ (OpensInv /\ HistoryInv) /\ [Next]_vars => (OpensInv /\ HistoryInv)'
  BY OpensPreserved, HistoryPreserved
<1>3. Inv /\ HistoryInv => IvkOpensItsCallOnly
  BY HistoryOpens
<1> QED
  BY <1>1, <1>2, <1>3, EnvelopeInvariant, PTL DEF Spec

-----------------------------------------------------------------------------
(* The refinement.                                                         *)

(* A call answers before the next one begins, and the outer descriptors it *)
(* returns carry the ivk it returns.                                       *)
AnswerInv ==
  /\ pc = "idle" => req = None \/ outcome # None
  /\ Succeeded => \A i \in DOMAIN outcome.cmm : outcome.cmm[i].ivk = outcome.ivk

SameFields ==
  /\ Box!DATA_DESCRIPTOR_KEY = DATA_DESCRIPTOR_KEY
  /\ Box!SIGNATURE_DATA_KEY = SIGNATURE_DATA_KEY
  /\ \A s : Box!Present(s) = Expected(s)
  /\ Box!Bytes("signature", 9) = Expected(SIGNATURE_OUTER_LABEL)
  /\ Box!Bytes("application/json", 16) = Expected(SIGNATURE_OUTER_MIME_TYPE)

LEMMA BoxFields == SameFields
<1>1. /\ Box!DATA_DESCRIPTOR_KEY = DATA_DESCRIPTOR_KEY
      /\ Box!SIGNATURE_DATA_KEY = SIGNATURE_DATA_KEY
  BY DEF Box!DATA_DESCRIPTOR_KEY, DATA_DESCRIPTOR_KEY, Box!SIGNATURE_DATA_KEY,
         SIGNATURE_DATA_KEY
<1>2. \A s : Box!Present(s) = Expected(s)
  BY DEF Box!Present, Box!NonEmpty, Expected, NonEmpty
<1>3. \A s, n : Box!Bytes(s, n) = Bytes(s, n) /\ Bytes(s, n).len = n
  BY DEF Box!Bytes, Bytes
<1>4. /\ SIGNATURE_OUTER_LABEL = Bytes("signature", 9)
      /\ SIGNATURE_OUTER_MIME_TYPE = Bytes("application/json", 16)
  BY DEF SIGNATURE_OUTER_LABEL, SIGNATURE_OUTER_MIME_TYPE
<1>5. SIGNATURE_OUTER_LABEL # None /\ SIGNATURE_OUTER_MIME_TYPE # None
  <2>1. \A s \in Contents, k \in Nat : Bytes(s, k) \in ByteStrings
    BY DEF Bytes, ByteStrings
  <2>2. 9 \in Nat /\ 16 \in Nat
    OBVIOUS
  <2>3. "signature" \in Contents /\ "application/json" \in Contents
    BY EnvelopeAssumption DEF EnvelopeAssumption
  <2> QED
    BY <2>1, <2>2, <2>3, <1>4, EnvelopeAssumption DEF EnvelopeAssumption
<1>6. /\ Expected(SIGNATURE_OUTER_LABEL) = SIGNATURE_OUTER_LABEL
      /\ Expected(SIGNATURE_OUTER_MIME_TYPE) = SIGNATURE_OUTER_MIME_TYPE
  <2>1. SIGNATURE_OUTER_LABEL.len = 9 /\ SIGNATURE_OUTER_MIME_TYPE.len = 16
    BY <1>3, <1>4
  <2>2. 9 > 0 /\ 16 > 0
    OBVIOUS
  <2> QED
    BY <1>5, <2>1, <2>2 DEF Expected, NonEmpty
<1> QED
  BY <1>1, <1>2, <1>3, <1>4, <1>6 DEF SameFields

(* What an outer descriptor leads to, by either way of following it.       *)
LEMMA ReadsItem ==
  ASSUME NEW o, NEW key, NEW text, NEW label, NEW mime,
         o.ivk = outcome.ivk, RecoversFrom(o, key, text, label, mime)
  PROVE  ReadItem(o) = [key |-> key, text |-> text,
                        label |-> Expected(label), mime |-> Expected(mime)]
BY DEF RecoversFrom, ReadItem, Follow

LEMMA ReadsTheRequest ==
  ASSUME Inv, AnswerInv, RoundTrip, Succeeded
  PROVE  ReadResult = Box!Filled(req)
<1>1. /\ Readable(outcome.scripts, EvidenceLen(evidence))
      /\ Len(outcome.cmm) = IF req.signature # None THEN 2 ELSE 1
      /\ RecoversFrom(outcome.cmm[1], DATA_DESCRIPTOR_KEY, req.plaintext,
                      req.label, req.mime)
      /\ req.signature # None =>
           RecoversFrom(outcome.cmm[2], SIGNATURE_DATA_KEY, req.signature,
                        SIGNATURE_OUTER_LABEL, SIGNATURE_OUTER_MIME_TYPE)
  BY DEF RoundTrip
<1>2. outcome.cmm \in Seq(OuterDescriptors)
  <2>1. outcome \in [error : Errors] \cup Results
    BY DEF Inv, TypeOK, Optional, Succeeded, Returned
  <2>2. outcome \notin [error : Errors]
    BY EnvelopeAssumption DEF EnvelopeAssumption, Succeeded
  <2>3. outcome \in Results
    BY <2>1, <2>2
  <2> QED
    BY <2>3 DEF Results
<1>3. /\ outcome.cmm[1].ivk = outcome.ivk
      /\ req.signature # None => outcome.cmm[2].ivk = outcome.ivk
  BY <1>1, <1>2 DEF AnswerInv
<1>4. ReadItem(outcome.cmm[1]) =
        [key |-> DATA_DESCRIPTOR_KEY, text |-> req.plaintext,
         label |-> Expected(req.label), mime |-> Expected(req.mime)]
  BY <1>1, <1>3, ReadsItem
<1>5. req.signature # None =>
        ReadItem(outcome.cmm[2]) =
          [key |-> SIGNATURE_DATA_KEY, text |-> req.signature,
           label |-> Expected(SIGNATURE_OUTER_LABEL),
           mime |-> Expected(SIGNATURE_OUTER_MIME_TYPE)]
  BY <1>1, <1>3, ReadsItem
<1>6. /\ DATA_DESCRIPTOR_KEY = Box!DATA_DESCRIPTOR_KEY
      /\ SIGNATURE_DATA_KEY = Box!SIGNATURE_DATA_KEY
      /\ Box!Present(req.label) = Expected(req.label)
      /\ Box!Present(req.mime) = Expected(req.mime)
      /\ Box!Bytes("signature", 9) = Expected(SIGNATURE_OUTER_LABEL)
      /\ Box!Bytes("application/json", 16) = Expected(SIGNATURE_OUTER_MIME_TYPE)
  BY BoxFields DEF SameFields
<1>7. Len(outcome.cmm) = 2 <=> req.signature # None
  BY <1>1
<1> QED
  BY <1>1, <1>4, <1>5, <1>6, <1>7 DEF ReadResult, Box!Filled, Box!Item

-----------------------------------------------------------------------------
LEMMA AnswerStutter == ASSUME AnswerInv, UNCHANGED vars PROVE AnswerInv'
BY DEF AnswerInv, Succeeded, Returned, vars

LEMMA StepsRun == ASSUME Step PROVE pc # "idle" /\ req' = req
<1>1. CASE SampleIvk \/ TryDiversifier \/ ExhaustDiversifiers
  BY <1>1 DEF SampleIvk, TryDiversifier, ExhaustDiversifiers, Goto
<1>2. CASE EncryptData \/ EncryptSignature
  BY <1>2 DEF EncryptData, EncryptSignature, EncryptPass1
<1>3. CASE BuildEvidence \/ DepositStep \/ Return
  BY <1>3 DEF BuildEvidence, DepositStep, Return, Goto
<1>4. CASE WrapData \/ WrapSignature
  BY <1>4 DEF WrapData, WrapSignature, WrapOuter
<1> QED
  BY <1>1, <1>2, <1>3, <1>4 DEF Step

LEMMA FailAnswers == ASSUME NEW error \in Errors, Fail(error) PROVE AnswerInv'
<1>1. outcome'.error = error /\ error # None
  BY EnvelopeAssumption DEF EnvelopeAssumption, Fail
<1>2. outcome' # None
  BY AnswerAssumption DEF AnswerAssumption, Fail
<1> QED
  BY <1>1, <1>2 DEF AnswerInv, Succeeded

(* A call that returns has sealed all it was asked to, to one ivk.         *)
LEMMA ReturnAnswers == ASSUME Inv, ProgressInv, Return PROVE AnswerInv'
<1>1. /\ pc = "return" /\ outcome'.cmm = cmm /\ outcome'.ivk = ivk
      /\ outcome'.error = None /\ pc' = "idle"
  BY DEF Return, Goto
<1>2. CmmDone(Wanted)
  BY <1>1 DEF ProgressInv
<1>3. cmm \in Seq(OuterDescriptors)
  BY DEF Inv, TypeOK
<1>4. \A i \in DOMAIN cmm : cmm[i].ivk = ivk
  BY <1>2, <1>3 DEF CmmDone
<1>5. outcome' # None
  BY ReturnIsResult, AnswerAssumption DEF AnswerAssumption
<1> QED
  BY <1>1, <1>4, <1>5 DEF AnswerInv

LEMMA AnswerPreserved ==
  Inv /\ ProgressInv /\ AnswerInv /\ [Next]_vars => AnswerInv'
<1> SUFFICES ASSUME Inv, ProgressInv, AnswerInv, [Next]_vars PROVE AnswerInv'
  OBVIOUS
<1>1. ASSUME pc' # "idle" PROVE AnswerInv'
  BY <1>1 DEF AnswerInv, Succeeded, Returned
<1>2. ASSUME NEW error \in Errors, Fail(error) PROVE AnswerInv'
  BY <1>2, FailAnswers
<1>3. ASSUME NEW r \in Requests, Call(r) PROVE AnswerInv'
  BY <1>3, <1>1 DEF Call, Goto
<1>4. CASE SampleIvk \/ TryDiversifier \/ BuildEvidence \/ DepositStep
  <2>1. pc' # "idle"
    BY <1>4 DEF SampleIvk, TryDiversifier, BuildEvidence, DepositStep, Goto
  <2> QED
    BY <2>1, <1>1
<1>5. CASE ExhaustDiversifiers
  <2>1. Fail("DiversifierSearchExhausted")
    BY <1>5 DEF ExhaustDiversifiers
  <2> QED
    BY <2>1, <1>2 DEF Errors
<1>6. CASE EncryptData \/ EncryptSignature
  <2>1. pc \in {"pass1_data", "pass1_signature"}
    BY <1>6 DEF EncryptData, EncryptSignature
  <2>2. SealError(NextDraw) = None
    BY <2>1, Drawn
  <2>3. pc' \in {"pass1_signature", "evidence"}
    BY <1>6, <2>2 DEF EncryptData, EncryptSignature, EncryptPass1
  <2> QED
    BY <2>3, <1>1
<1>7. ASSUME NEW inner, NEW next, WrapOuter(inner, next), next # "idle",
             pc \in {"outer_data", "outer_signature"}
      PROVE  AnswerInv'
  <2>1. SealError(NextDraw) = None
    BY <1>7, Drawn
  <2>2. OuterError(NextDraw, inner) \in {None, "Wire"}
    BY <2>1 DEF OuterError
  <2>3. CASE OuterError(NextDraw, inner) = None
    <3>1. pc' = next
      BY <1>7, <2>3 DEF WrapOuter
    <3> QED
      BY <3>1, <1>1, <1>7
  <2>4. CASE OuterError(NextDraw, inner) = "Wire"
    <3>1. Fail("Wire")
      BY <1>7, <2>4, EnvelopeAssumption DEF WrapOuter, EnvelopeAssumption, Errors
    <3> QED
      BY <3>1, <1>2 DEF Errors
  <2> QED
    BY <2>2, <2>3, <2>4
<1>8. CASE WrapData \/ WrapSignature
  BY <1>8, <1>7 DEF WrapData, WrapSignature
<1>9. CASE Return
  BY <1>9, ReturnAnswers
<1>10. CASE UNCHANGED vars
  BY <1>10, AnswerStutter
<1> QED
  BY <1>3, <1>4, <1>5, <1>6, <1>8, <1>9, <1>10 DEF Next, Step

-----------------------------------------------------------------------------
(* A call that has returned answers its request as the box may.            *)
Answered == Returned => ReadAnswer \in Box!Answers(req)

LEMMA ReturnedAnswers ==
  Inv /\ AnswerInv /\ RoundTrip /\ ErrorsExplained => Answered
<1> SUFFICES ASSUME Inv, AnswerInv, RoundTrip, ErrorsExplained, Returned
             PROVE  ReadAnswer \in Box!Answers(req)
  BY DEF Answered
<1>1. Box!Oversize(req) <=>
        TooLong(req.label, LabelCap) \/ TooLong(req.mime, MimeCap)
  BY DEF Box!Oversize, Box!TooLong, Box!LabelCap, Box!MimeCap, TooLong,
         LabelCap, MimeCap
<1>2. CASE Succeeded
  <2>1. ReadAnswer = Box!Filled(req)
    BY <1>2, ReadsTheRequest DEF ReadAnswer
  <2>2. ~Box!Oversize(req)
    BY <1>1, <1>2 DEF ErrorsExplained, Succeeded
  <2> QED
    BY <2>1, <2>2 DEF Box!Answers
<1>3. CASE ~Succeeded
  <2>1. ReadAnswer = outcome /\ outcome.error # None
    BY <1>3 DEF ReadAnswer, Succeeded
  <2>2. outcome \in [error : Errors] \cup Results
    BY DEF Inv, TypeOK, Optional, Returned
  <2>3. outcome \in [error : Errors]
    BY <2>1, <2>2 DEF Results
  <2>4. outcome = [error |-> outcome.error]
    BY <2>3
  <2>5. outcome.error \in {"Wire", "DiversifierSearchExhausted"}
    BY <2>1 DEF ErrorsExplained
  <2>6. outcome.error = "Wire" => Box!Oversize(req)
    BY <1>1 DEF ErrorsExplained
  <2> QED
    BY <2>1, <2>4, <2>5, <2>6 DEF Box!Answers
<1> QED
  BY <1>2, <1>3

LEMMA StepIsBoxStep ==
  /\ Inv /\ AnswerInv /\ Answered /\ AnswerInv' /\ Answered'
  /\ [Next]_vars
  => [Box!Next]_(Box!vars)
<1> SUFFICES ASSUME Inv, AnswerInv, Answered, AnswerInv', Answered', [Next]_vars
             PROVE  Box!Next \/ UNCHANGED Box!vars
  BY DEF Box!vars
<1>1. /\ pc # "idle" => ReadAnswer = None
      /\ pc' # "idle" => ReadAnswer' = None
  BY DEF ReadAnswer, Succeeded, Returned
<1>2. CASE UNCHANGED vars
  <2>1. req' = req /\ ReadAnswer' = ReadAnswer
    BY <1>2 DEF vars, ReadAnswer, ReadResult, Succeeded, Returned, ReadItem,
                Follow, Open, Readable, EvidenceLen, depositVars
  <2> QED
    BY <2>1 DEF Box!vars
<1>3. ASSUME NEW r \in Requests, Call(r) PROVE Box!Submit
  <2>1. pc = "idle" /\ pc' # "idle" /\ req' \in Requests
    BY <1>3 DEF Call, Goto
  <2>2. req # None => ReadAnswer # None
    <3>1. SUFFICES ASSUME req # None PROVE ReadAnswer # None
      OBVIOUS
    <3>2. req \in Requests
      BY <3>1 DEF Inv, TypeOK, Optional
    <3>3. ReadAnswer \in Box!Answers(req)
      BY <2>1, <3>1 DEF AnswerInv, Returned, Answered
    <3> QED
      BY <3>2, <3>3, AnswerAssumption DEF AnswerAssumption
  <2> QED
    BY <1>1, <2>1, <2>2 DEF Box!Submit
<1>4. CASE Step
  <2>1. pc # "idle" /\ req' = req
    BY <1>4, StepsRun
  <2>2. req # None
    BY <2>1, AnswerAssumption DEF Inv, CallInv, AnswerAssumption
  <2>3. CASE pc' # "idle"
    BY <1>1, <2>1, <2>3 DEF Box!vars
  <2>4. CASE pc' = "idle"
    <3>1. Returned'
      BY <2>1, <2>2, <2>4 DEF AnswerInv, Returned
    <3>2. ReadAnswer' \in Box!Answers(req)
      <4>1. ReadAnswer' \in Box!Answers(req')
        BY <3>1 DEF Answered
      <4> QED
        BY <4>1, <2>1
    <3> QED
      BY <1>1, <2>1, <2>2, <3>2 DEF Box!Answer, Box!Next
  <2> QED
    BY <2>3, <2>4
<1> QED
  BY <1>2, <1>3, <1>4 DEF Next, Box!Next

LEMMA InitIsBoxInit == Init => AnswerInv /\ Box!Init
BY DEF Init, AnswerInv, Box!Init, ReadAnswer, Succeeded, Returned

(* What a reader gets from a call is what the box promises, whatever is    *)
(* asked: the request's own texts, or one of the two errors it allows      *)
(* (encrypt_public_decrypt as a whole).                                    *)
THEOREM EnvelopeIsSealedBox == Spec => ImplementsSealedBox
<1>1. Init => OpensInv /\ AnswerInv /\ ErrorsInv /\ Box!Init
  BY OpensInit, InitIsBoxInit DEF Init, ErrorsInv, ErrorsExplained, Returned
<1>2. Inv /\ OpensInv /\ [Next]_vars => OpensInv'
  BY OpensPreserved
<1>3. Inv /\ ErrorsInv /\ [Next]_vars => ErrorsInv'
  BY ErrorsPreserved
<1>4. Inv /\ OpensInv /\ AnswerInv /\ [Next]_vars => AnswerInv'
  BY AnswerPreserved DEF OpensInv
<1>5. Inv /\ OpensInv /\ AnswerInv /\ ErrorsInv => Answered
  BY ReturnedAnswers DEF OpensInv, ErrorsInv
<1>6. /\ Inv /\ AnswerInv /\ Answered /\ AnswerInv' /\ Answered'
      /\ [Next]_vars
      => [Box!Next]_(Box!vars)
  BY StepIsBoxStep
<1> QED
  BY <1>1, <1>2, <1>3, <1>4, <1>5, <1>6, EnvelopeInvariant, PTL
     DEF Spec, ImplementsSealedBox, Box!Safety
===============================================================================
