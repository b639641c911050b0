----------------------- MODULE DescriptorBytesProofs -----------------------
(***************************************************************************)
(* What the reader of DescriptorBytes gets back, for all descriptors.  The *)
(* buffer is, but for an end it may have lost, the codes of the            *)
(* descriptors behind one another, and the reader, until it is past one    *)
(* whose write failed, stands at the start of a code or of a field of it.  *)
(***************************************************************************)
EXTENDS DescriptorBytes, EncodingProofs, SequenceTheorems

-----------------------------------------------------------------------------
(* The descriptors that left something in the buffer, and what.            *)
Expected == IF form = "wrapped" THEN Accepted(written) ELSE written

Preamble(dd) ==
  IF form = "wrapped"
  THEN DATA_DESCRIPTOR_KEY \o WriteVarInt(1) \o WriteCompactSize(Len(Appended(dd)))
  ELSE <<>>

HeadCode(dd) == WriteVarInt(Version(dd)) \o WriteVarInt(CalcFlags(dd))

Code(dd) == Preamble(dd) \o Appended(dd)

Codes == [k \in DOMAIN Expected |-> Code(Expected[k])]

Whole == FlattenSeq(Codes)

Start(k) == Len(Joined(Codes)[k])

(* How far into the code of dd its first j pieces reach.                   *)
FieldAt(dd, j) == Len(Preamble(dd)) + Len(HeadCode(dd)) + Len(Joined(Pieces(dd))[j])

(* No write failed that left something, or only the last one.              *)
Clean     == form = "wrapped" \/ FirstFailure = 0
FailsLast == Clean \/ FirstFailure = Len(written)

(* What the reader has of dd when it has been through j fields.            *)
PartOf(dd, j) ==
  LET all        == Canonical(dd)
      Got(i, f)  == IF i <= j THEN all[f] ELSE None
  IN  [version |-> all.version, flags |-> all.flags,
       vdxf_key |-> Got(1, "vdxf_key"),
       object_data |-> IF 2 <= j THEN all.object_data ELSE <<>>,
       label |-> Got(3, "label"), mime_type |-> Got(4, "mime_type"),
       salt |-> Got(5, "salt"), epk |-> Got(6, "epk"), ivk |-> Got(7, "ivk"),
       ssk |-> Got(8, "ssk")]

-----------------------------------------------------------------------------
(* The inductive invariant.                                                *)
BufferInv ==
  /\ Len(buf) <= Len(Whole) /\ \A i \in 1..Len(buf) : buf[i] = Whole[i]
  /\ cut <=> Len(buf) < Len(Whole)

FreshInv ==
  status = "writing" =>
    /\ cut = FALSE /\ cursor = 0 /\ part = None /\ end = None /\ got = <<>>

GotInv ==
  /\ \A i \in DOMAIN got \cap DOMAIN Undisturbed :
       got[i] = Canonical(Undisturbed[i])
  /\ FailsLast => Len(got) <= Len(Undisturbed)

(* The place of the reader in the code of descriptor k + 1.                *)
AtField(k) ==
  LET dd == Expected[k + 1]
      j  == place - 1
  IN  /\ part = PartOf(dd, j)
      /\ cursor = Start(k) + FieldAt(dd, j)

InDescriptor(k) ==
  LET dd == Expected[k + 1]
  IN  /\ k < Len(Expected)
      /\ end = IF form = "wrapped" THEN Start(k + 1) ELSE None
      /\ FailsLast => place - 1 <= Len(Pieces(dd))
      /\ place - 1 <= Len(Pieces(dd)) => AtField(k)

InWrapper(k) ==
  /\ k < Len(Expected) /\ form = "wrapped"
  /\ cursor = Start(k) + Len(Preamble(Expected[k + 1])) /\ end = Start(k + 1)

Standing(k) ==
  CASE part # None              -> InDescriptor(k)
    [] part = None /\ end # None -> InWrapper(k)
    [] OTHER                    -> cursor = Start(k)

PlaceInv ==
  status = "reading" =>
    \A k \in 0..Len(Undisturbed) : k = Len(got) => Standing(k)

EndInv ==
  /\ status = "error" => cut \/ ~Clean
  /\ status = "done" /\ Clean => (cut <=> Len(got) < Len(Undisturbed))
  /\ status = "done" /\ ~Clean /\ FailsLast => cut

Inv ==
  /\ TypeOK /\ BufferInv /\ FreshInv /\ GotInv /\ PlaceInv /\ EndInv

-----------------------------------------------------------------------------
(* Descriptors, field by field.                                            *)

LEMMA ConstantFacts ==
  /\ Radix \in Nat /\ Radix >= 4 /\ Base \in Nat /\ Base >= 2 /\ Radix = 2 * Base
  /\ MaxU64 \in Nat /\ MaxSize \in 0..MaxU64 /\ KeyBytes \in 1..Radix - 1
  /\ LabelCap \in Nat /\ MimeCap \in Nat /\ MaxWrites \in Nat
BY RadixValue, WordValue, DescriptorAssumption DEF DescriptorAssumption

LEMMA NoneFacts ==
  /\ None \notin Nat /\ None \notin Bytes /\ None \notin ReadResults /\ None \notin Parsed
BY NoneAssumption DEF NoneAssumption, Bytes

LEMMA ByteStringFacts ==
  ASSUME NEW s \in ByteStrings
  PROVE  s \in Bytes /\ Len(s) \in 0..MaxSize /\ Len(s) \in 0..MaxU64 /\ s # None
<1>1. s \in Bytes /\ Len(s) <= MaxSize /\ Len(s) \in Nat
  BY DEF ByteStrings, Bytes
<1> QED
  BY <1>1, ConstantFacts, NoneFacts

LEMMA FieldsTyped ==
  ASSUME NEW dd \in Descriptors
  PROVE  /\ dd.encrypted \in BOOLEAN /\ dd.version \in 0..MaxU64
         /\ dd.object_data \in ByteStrings
         /\ dd.vdxf_key # None =>
              dd.vdxf_key \in ByteStrings /\ Len(dd.vdxf_key) = KeyBytes
         /\ dd.label # None => dd.label \in ByteStrings
         /\ dd.mime_type # None => dd.mime_type \in ByteStrings
         /\ dd.salt # None => dd.salt \in ByteStrings
         /\ dd.epk # None => dd.epk \in ByteStrings
         /\ dd.ivk # None => dd.ivk \in ByteStrings
         /\ dd.ssk # None => dd.ssk \in ByteStrings
<1> DEFINE keys == {k \in ByteStrings : Len(k) = KeyBytes}
<1>1. dd \in [encrypted : BOOLEAN, version : 0..MaxU64,
              vdxf_key : {None} \cup keys, object_data : ByteStrings,
              label : {None} \cup ByteStrings, mime_type : {None} \cup ByteStrings,
              salt : {None} \cup ByteStrings, epk : {None} \cup ByteStrings,
              ivk : {None} \cup ByteStrings, ssk : {None} \cup ByteStrings]
  BY DescriptorAssumption DEF DescriptorAssumption, Optional
<1> QED
  BY <1>1

(* The flags.                                                              *)
Flagged == {"encrypted", "salt", "epk", "ivk", "ssk", "label", "mime_type", "vdxf_key"}

LEMMA FlagNames == DOMAIN FlagOf = Flagged
BY DEF FlagOf, Flagged

LEMMA BitsRead ==
  ASSUME NEW fields
  PROVE  /\ BitsOf(fields) \in 0..255
         /\ \A f \in Flagged : HasFlag(BitsOf(fields), f) <=> f \in fields
<1> DEFINE On(f) == IF f \in fields THEN 1 ELSE 0
           n == On("encrypted") + 2 * On("salt") + 4 * On("epk") + 8 * On("ivk")
                  + 16 * On("ssk") + 32 * On("label") + 64 * On("mime_type")
                  + 128 * On("vdxf_key")
<1>1. BitsOf(fields) = n
  BY DEF BitsOf, FlagOf
<1>2. \A f \in Flagged : On(f) \in 0..1 /\ (On(f) = 1 <=> f \in fields)
  OBVIOUS
<1>3. n \in Nat
  OBVIOUS
<1>4. /\ n \in 0..255
      /\ (n \div 1) % 2 = On("encrypted") /\ (n \div 2) % 2 = On("salt")
      /\ (n \div 4) % 2 = On("epk") /\ (n \div 8) % 2 = On("ivk")
      /\ (n \div 16) % 2 = On("ssk") /\ (n \div 32) % 2 = On("label")
      /\ (n \div 64) % 2 = On("mime_type") /\ (n \div 128) % 2 = On("vdxf_key")
  <2> DEFINE a == On("encrypted")
             b == On("salt")
             c == On("epk")
             d == On("ivk")
             e == On("ssk")
             f == On("label")
             g == On("mime_type")
             h == On("vdxf_key")
             m == a + 2 * b + 4 * c + 8 * d + 16 * e + 32 * f + 64 * g + 128 * h
  <2>1. /\ a \in 0..1 /\ b \in 0..1 /\ c \in 0..1 /\ d \in 0..1
        /\ e \in 0..1 /\ f \in 0..1 /\ g \in 0..1 /\ h \in 0..1
    OBVIOUS
  <2> HIDE DEF a, b, c, d, e, f, g, h
  <2>2. /\ m \in Nat
        /\ m = a + 2 * b + 4 * c + 8 * d + 16 * e + 32 * f + 64 * g + 128 * h
    BY <2>1
  <2> HIDE DEF m, n, On
  <2>3. /\ m \in 0..255
        /\ (m \div 1) % 2 = a /\ (m \div 2) % 2 = b /\ (m \div 4) % 2 = c
        /\ (m \div 8) % 2 = d /\ (m \div 16) % 2 = e /\ (m \div 32) % 2 = f
        /\ (m \div 64) % 2 = g /\ (m \div 128) % 2 = h
    BY <2>1, <2>2, SMTT(20)
  <2> QED
    BY <2>3 DEF n, m, a, b, c, d, e, f, g, h
<1> HIDE DEF n
<1>5. ASSUME NEW f \in Flagged PROVE HasFlag(n, f) <=> f \in fields
  <2>1. HasFlag(n, f) <=> On(f) = 1
    <3> HIDE DEF On
    <3> QED
      BY <1>4 DEF HasFlag, FlagOf, Flagged
  <2> QED
    BY <1>2, <2>1
<1> QED
  BY <1>1, <1>4, <1>5

(* A byte holds all flags, so a u64 does.                                  *)
LEMMA FlagWordFits == MaxU64 >= 255
<1> DEFINE S == {k \in Nat : RadixTo[k + 3] >= 64}
<1>1. 0 \in S
  <2>1. RadixTo[0 + 1] = Radix * 1 /\ Radix * 1 = Radix
    BY RadixPowers, RadixValue
  <2>2. RadixTo[1 + 1] = Radix * RadixTo[1] /\ RadixTo[2 + 1] = Radix * RadixTo[2]
    BY RadixPowers
  <2>3. RadixTo[1] = Radix /\ RadixTo[2] = Radix * Radix /\ RadixTo[3] = Radix * (Radix * Radix)
    BY <2>1, <2>2
  <2>4. Radix * Radix >= 16 /\ Radix * Radix \in Nat
    BY RadixValue
  <2>5. ASSUME NEW x \in Nat, x >= 16 PROVE Radix * x >= 64
    <3>1. 4 * x <= Radix * x /\ 4 * x >= 64
      BY <2>5, RadixValue, ProductBelow
    <3> QED
      BY <3>1, RadixValue
  <2>6. Radix * (Radix * Radix) >= 64
    BY <2>4, <2>5
  <2> QED
    BY <2>3, <2>6
<1>2. ASSUME NEW k \in Nat, k \in S PROVE k + 1 \in S
  <2> DEFINE p == RadixTo[k + 3]
  <2>1. p \in Nat /\ p >= 64 /\ RadixTo[(k + 3) + 1] = Radix * p
    BY <1>2, RadixPowers
  <2> HIDE DEF p
  <2>2. Radix * p >= p /\ Radix * p \in Nat
    BY <2>1, RadixValue
  <2>3. (k + 3) + 1 = (k + 1) + 3
    OBVIOUS
  <2> QED
    BY <2>1, <2>2, <2>3
<1>3. Nat \subseteq S
  <2> HIDE DEF S
  <2> QED
    BY <1>1, <1>2, SetInduction
<1>4. WordBytes - 4 \in Nat /\ (WordBytes - 4) + 3 = WordBytes - 1
  BY RadixValue
<1> DEFINE q == RadixTo[WordBytes - 1]
<1>5. q >= 64 /\ q \in Nat /\ RadixTo[(WordBytes - 1) + 1] = Radix * q
  <2>1. WordBytes - 4 \in S /\ WordBytes - 1 \in Nat
    BY <1>3, <1>4
  <2> QED
    BY <1>4, <2>1, RadixPowers
<1>6. (WordBytes - 1) + 1 = WordBytes
  BY RadixValue
<1> HIDE DEF q
<1>7. Radix * q >= 256 /\ Radix * q \in Nat
  BY <1>5, RadixValue
<1> QED
  BY <1>5, <1>6, <1>7, WordValue

LEMMA EightFields ==
  /\ Len(Layout) = 8 /\ Len(WriteOrder) = 8
  /\ \A j \in 1..8 : WriteOrder[j] = Layout[j]
  /\ Layout[1] = "vdxf_key" /\ Layout[2] = "object_data" /\ Layout[3] = "label"
  /\ Layout[4] = "mime_type" /\ Layout[5] = "salt" /\ Layout[6] = "epk"
  /\ Layout[7] = "ivk" /\ Layout[8] = "ssk"
BY DEF Layout, WriteOrder

LEMMA FieldNames ==
  ASSUME NEW j \in 1..8
  PROVE  /\ Layout[j] = "object_data" <=> j = 2
         /\ Layout[j] = "vdxf_key" <=> j = 1
         /\ Layout[j] = "label" <=> j = 3
         /\ Layout[j] = "mime_type" <=> j = 4
         /\ j # 2 => Layout[j] \in Flagged \ {"encrypted"}
<1>1. j = 1 \/ j = 2 \/ j = 3 \/ j = 4 \/ j = 5 \/ j = 6 \/ j = 7 \/ j = 8
  OBVIOUS
<1> QED
  BY <1>1, EightFields DEF Flagged

LEMMA FlagsPresent ==
  ASSUME NEW dd
  PROVE  /\ CalcFlags(dd) \in 0..255 /\ CalcFlags(dd) \in 0..MaxU64
         /\ \A f \in Flagged : HasFlag(CalcFlags(dd), f) <=> Present(dd, f)
<1>1. CalcFlags(dd) = BitsOf({f \in Flagged : Present(dd, f)})
  BY FlagNames DEF CalcFlags
<1>2. /\ CalcFlags(dd) \in 0..255
      /\ \A f \in Flagged : HasFlag(CalcFlags(dd), f) <=> Present(dd, f)
  BY <1>1, BitsRead
<1> QED
  BY <1>2, FlagWordFits, ConstantFacts

(* The field an optional place announces is there, and a byte string.      *)
LEMMA PresentField ==
  ASSUME NEW dd \in Descriptors, NEW f \in Flagged \ {"encrypted"}
  PROVE  /\ Present(dd, f) => dd[f] \in ByteStrings /\ dd[f] # None /\ dd[f] # <<>>
         /\ Present(dd, f) /\ f = "vdxf_key" => Len(dd[f]) = KeyBytes
         /\ ~Present(dd, f) => dd[f] = None \/ dd[f] = <<>>
         /\ ~Present(dd, f) /\ f = "vdxf_key" => dd[f] = None
<1>1. CASE f = "vdxf_key"
  <2>1. Present(dd, f) <=> dd[f] # None
    BY <1>1 DEF Present
  <2>2. dd[f] # None => dd[f] \in ByteStrings /\ Len(dd[f]) = KeyBytes
    BY <1>1, FieldsTyped
  <2>3. Len(<<>>) # KeyBytes
    BY ConstantFacts
  <2> QED
    BY <2>1, <2>2, <2>3
<1>2. CASE f # "vdxf_key"
  <2>1. Present(dd, f) <=> dd[f] # None /\ dd[f] # <<>>
    BY <1>2 DEF Present, Flagged
  <2>2. dd[f] # None => dd[f] \in ByteStrings
    BY <1>2, FieldsTyped DEF Flagged
  <2> QED
    BY <1>2, <2>1, <2>2
<1> QED
  BY <1>1, <1>2

LEMMA AnnouncedField ==
  ASSUME NEW dd \in Descriptors, NEW j \in 1..8
  PROVE  /\ Announced(CalcFlags(dd), Layout[j]) =>
              /\ dd[Layout[j]] \in ByteStrings
              /\ j = 1 => Len(dd[Layout[j]]) = KeyBytes
         /\ ~Announced(CalcFlags(dd), Layout[j]) =>
              /\ j # 2
              /\ dd[Layout[j]] = None \/ dd[Layout[j]] = <<>>
              /\ j = 1 => dd[Layout[j]] = None
<1>1. CASE j = 2
  <2>1. Announced(CalcFlags(dd), Layout[j])
    BY <1>1, FieldNames DEF Announced
  <2>2. dd[Layout[j]] \in ByteStrings
    BY <1>1, FieldNames, FieldsTyped
  <2> QED
    BY <1>1, <2>1, <2>2
<1>2. CASE j # 2
  <2> DEFINE f == Layout[j]
  <2>1. f \in Flagged \ {"encrypted"} /\ f # "object_data" /\ (f = "vdxf_key" <=> j = 1)
    BY <1>2, FieldNames
  <2> HIDE DEF f
  <2>2. Announced(CalcFlags(dd), f) <=> Present(dd, f)
    BY <2>1, FlagsPresent DEF Announced
  <2>3. /\ Announced(CalcFlags(dd), f) =>
             dd[f] \in ByteStrings /\ (f = "vdxf_key" => Len(dd[f]) = KeyBytes)
        /\ ~Announced(CalcFlags(dd), f) =>
             /\ dd[f] = None \/ dd[f] = <<>>
             /\ f = "vdxf_key" => dd[f] = None
    BY <2>1, <2>2, PresentField
  <2> QED
    BY <1>2, <2>1, <2>3 DEF f
<1> QED
  BY <1>1, <1>2

-----------------------------------------------------------------------------
(* What the writer appends.                                                *)

LEMMA CompactBytes ==
  ASSUME NEW n \in 0..MaxU64
  PROVE  WriteCompactSize(n) \in Bytes /\ Len(WriteCompactSize(n)) >= 1
<1>1. PICK tag \in 0..Radix - 1, digits \in Bytes : WriteCompactSize(n) = <<tag>> \o digits
  BY CompactReadsBack
<1>2. /\ <<tag>> \o digits \in Bytes
      /\ Len(<<tag>> \o digits) = 1 + Len(digits) /\ Len(digits) \in Nat
  BY TagInFront DEF Bytes
<1> QED
  BY <1>1, <1>2

LEMMA Joining ==
  ASSUME NEW s \in Bytes, NEW t \in Bytes
  PROVE  /\ s \o t \in Bytes /\ Len(s \o t) = Len(s) + Len(t)
         /\ Len(s) \in Nat /\ Len(t) \in Nat
BY DEF Bytes

LEMMA VarBytesTyped ==
  ASSUME NEW s \in ByteStrings
  PROVE  /\ WriteVarBytes(s) = WriteCompactSize(Len(s)) \o s
         /\ WriteCompactSize(Len(s)) \in Bytes /\ WriteVarBytes(s) \in Bytes
BY ByteStringFacts, CompactBytes, Joining DEF WriteVarBytes

LEMMA PieceOf ==
  ASSUME NEW dd \in Descriptors, NEW j \in 1..8
  PROVE  /\ Piece(dd, Layout[j]) \in Bytes
         /\ ~Announced(CalcFlags(dd), Layout[j]) => Piece(dd, Layout[j]) = <<>>
         /\ Announced(CalcFlags(dd), Layout[j]) /\ j = 1 =>
              Piece(dd, Layout[j]) = dd[Layout[j]]
         /\ Announced(CalcFlags(dd), Layout[j]) /\ j # 1 =>
              Piece(dd, Layout[j]) = WriteVarBytes(dd[Layout[j]])
<1> DEFINE f == Layout[j]
<1>1. /\ f = "vdxf_key" <=> j = 1
      /\ Announced(CalcFlags(dd), f) => dd[f] \in ByteStrings
  BY FieldNames, AnnouncedField
<1> HIDE DEF f
<1>2. <<>> \in Bytes
  BY DEF Bytes
<1>3. CASE ~Announced(CalcFlags(dd), f)
  BY <1>2, <1>3 DEF Piece, f
<1>4. CASE Announced(CalcFlags(dd), f) /\ j = 1
  <2>1. Piece(dd, f) = dd[f]
    BY <1>1, <1>4 DEF Piece
  <2>2. dd[f] \in Bytes
    BY <1>1, <1>4, ByteStringFacts
  <2> QED
    BY <1>4, <2>1, <2>2 DEF f
<1>5. CASE Announced(CalcFlags(dd), f) /\ j # 1
  <2>1. Piece(dd, f) = WriteVarBytes(dd[f])
    BY <1>1, <1>5 DEF Piece
  <2>2. WriteVarBytes(dd[f]) \in Bytes
    BY <1>1, <1>5, VarBytesTyped
  <2> QED
    BY <1>5, <2>1, <2>2 DEF f
<1> QED
  BY <1>3, <1>4, <1>5

(* The caps stop a write at the label or at the mime type.                 *)
LEMMA StopValue ==
  ASSUME NEW dd \in Descriptors
  PROVE  /\ Stop(dd) \in {0, 3, 4}
         /\ Stop(dd) # 0 => /\ OverCap(dd, Layout[Stop(dd)])
                            /\ Announced(CalcFlags(dd), Layout[Stop(dd)])
         /\ Stop(dd) = 0 <=> WithinCaps(dd)
<1> DEFINE I == {i \in 1..8 : /\ Announced(CalcFlags(dd), Layout[i])
                              /\ OverCap(dd, Layout[i])}
<1>1. Stop(dd) = IF I # {} THEN Min(I) ELSE 0
  <2>1. Len(WriteOrder) = 8
    BY EightFields
  <2>2. {i \in 1..Len(WriteOrder) : /\ Announced(CalcFlags(dd), WriteOrder[i])
                                    /\ OverCap(dd, WriteOrder[i])} = I
    BY <2>1, EightFields
  <2>3. Stop(dd) =
          LET J == {i \in 1..Len(WriteOrder) : /\ Announced(CalcFlags(dd), WriteOrder[i])
                                               /\ OverCap(dd, WriteOrder[i])}
          IN  IF J # {} THEN Min(J) ELSE 0
    BY DEF Stop, SelectInSeq
  <2> QED
    BY <2>2, <2>3
<1>2. \A i \in I : i \in {3, 4} /\ i \in Nat
  BY FieldNames DEF OverCap
<1>3. I # {} => Min(I) \in I
  <2> SUFFICES ASSUME I # {} PROVE Min(I) \in I
    OBVIOUS
  <2>1. \E i \in I : \A k \in I : i <= k
    <3>1. I \subseteq Nat
      BY <1>2
    <3> HIDE DEF I
    <3> QED
      BY <3>1, LeastOfSet
  <2> HIDE DEF I
  <2> QED
    BY <2>1 DEF Min
<1>4. I = {} <=> WithinCaps(dd)
  <2>1. ASSUME NEW f \in {"label", "mime_type"}
        PROVE  /\ Announced(CalcFlags(dd), f) <=> Present(dd, f)
               /\ Present(dd, f) => dd[f] # None /\ Len(dd[f]) \in Nat
               /\ ~Present(dd, f) => dd[f] = None \/ Len(dd[f]) = 0
    <3>1. f \in Flagged \ {"encrypted"} /\ f # "object_data"
      BY DEF Flagged
    <3>2. Announced(CalcFlags(dd), f) <=> Present(dd, f)
      BY <3>1, FlagsPresent DEF Announced
    <3>3. Present(dd, f) => dd[f] # None /\ Len(dd[f]) \in Nat
      BY <3>1, PresentField, ByteStringFacts
    <3>4. ~Present(dd, f) => dd[f] = None \/ Len(dd[f]) = 0
      BY <3>1, PresentField
    <3> QED
      BY <3>2, <3>3, <3>4
  <2>2. 3 \in I <=> Announced(CalcFlags(dd), "label") /\ OverCap(dd, "label")
    BY EightFields
  <2>3. 4 \in I <=> Announced(CalcFlags(dd), "mime_type") /\ OverCap(dd, "mime_type")
    BY EightFields
  <2>4. I = {} <=> 3 \notin I /\ 4 \notin I
    BY <1>2
  <2> HIDE DEF I
  <2>5. OverCap(dd, "label") <=> Present(dd, "label") /\ Len(dd.label) > LabelCap
    BY DEF OverCap
  <2>6. OverCap(dd, "mime_type") <=> Present(dd, "mime_type") /\ Len(dd.mime_type) > MimeCap
    BY DEF OverCap
  <2>7. 3 \notin I <=> dd.label = None \/ Len(dd.label) <= LabelCap
    BY <2>1, <2>2, <2>5, ConstantFacts
  <2>8. 4 \notin I <=> dd.mime_type = None \/ Len(dd.mime_type) <= MimeCap
    BY <2>1, <2>3, <2>6, ConstantFacts
  <2> QED
    BY <2>4, <2>7, <2>8 DEF WithinCaps
<1>5. \A i \in I : Announced(CalcFlags(dd), Layout[i]) /\ OverCap(dd, Layout[i])
  OBVIOUS
<1> HIDE DEF I
<1> QED
  BY <1>1, <1>2, <1>3, <1>4, <1>5

LEMMA PiecesTyped ==
  ASSUME NEW dd \in Descriptors
  PROVE  /\ Pieces(dd) \in Seq(Bytes) /\ Len(Pieces(dd)) \in 2..8
         /\ \A j \in 1..Len(Pieces(dd)) : j \in 1..8 /\ Pieces(dd)[j] = Piece(dd, Layout[j])
         /\ WithinCaps(dd) <=> Len(Pieces(dd)) = 8
         /\ Len(Pieces(dd)) # 8 =>
              /\ Len(Pieces(dd)) + 1 \in {3, 4}
              /\ Announced(CalcFlags(dd), Layout[Len(Pieces(dd)) + 1])
<1> DEFINE whole == IF Fails(dd) THEN Stop(dd) - 1 ELSE Len(WriteOrder)
<1>1. /\ whole \in 2..8 /\ (WithinCaps(dd) <=> whole = 8)
      /\ whole # 8 => whole = Stop(dd) - 1 /\ Stop(dd) \in {3, 4}
  BY StopValue, EightFields DEF Fails
<1>2. Pieces(dd) = [j \in 1..whole |-> Piece(dd, WriteOrder[j])]
  BY DEF Pieces
<1> HIDE DEF whole
<1>3. \A j \in 1..whole : j \in 1..8 /\ WriteOrder[j] = Layout[j] /\ Piece(dd, Layout[j]) \in Bytes
  BY <1>1, EightFields, PieceOf
<1>4. Pieces(dd) \in [1..whole -> Bytes]
  BY <1>2, <1>3
<1>5. Pieces(dd) \in Seq(Bytes) /\ Len(Pieces(dd)) = whole
  <2>1. whole \in Nat
    BY <1>1
  <2> QED
    BY <1>4, <2>1, SequenceOfFunction
<1>6. whole # 8 => whole + 1 = Stop(dd) /\ Announced(CalcFlags(dd), Layout[whole + 1])
  BY <1>1, StopValue
<1> QED
  BY <1>1, <1>2, <1>3, <1>5, <1>6

LEMMA Associative ==
  ASSUME NEW r \in Bytes, NEW s \in Bytes, NEW t \in Bytes
  PROVE  (r \o s) \o t = r \o (s \o t)
BY DEF Bytes

(* A whole descriptor: its version and flags, then its pieces.             *)
LEMMA HeadTyped ==
  ASSUME NEW dd \in Descriptors
  PROVE  /\ Version(dd) \in 0..MaxU64 /\ CalcFlags(dd) \in 0..MaxU64
         /\ WriteVarInt(Version(dd)) \in Bytes /\ WriteVarInt(CalcFlags(dd)) \in Bytes
         /\ HeadCode(dd) \in Bytes /\ Len(HeadCode(dd)) >= 1
<1>1. Version(dd) \in 0..MaxU64
  BY FieldsTyped, FlagWordFits, ConstantFacts DEF Version, DEFAULT_VERSION
<1>2. CalcFlags(dd) \in 0..MaxU64
  BY FlagsPresent
<1> DEFINE v == WriteVarInt(Version(dd))
           w == WriteVarInt(CalcFlags(dd))
<1>3. v \in Bytes /\ Len(v) >= 1 /\ w \in Bytes /\ Len(w) >= 1
  <2>1. Len(v) \in 1..TmpSize /\ Len(w) \in 1..TmpSize /\ v \in Bytes /\ w \in Bytes
    BY <1>1, <1>2, VarIntEnd
  <2> HIDE DEF v, w
  <2> QED
    BY <2>1, TmpSizeValue
<1>4. HeadCode(dd) = v \o w
  BY DEF HeadCode
<1> HIDE DEF v, w
<1>5. v \o w \in Bytes /\ Len(v \o w) >= 1
  BY <1>3, Joining
<1> QED
  BY <1>1, <1>2, <1>3, <1>4, <1>5 DEF v, w

LEMMA AppendedTyped ==
  ASSUME NEW dd \in Descriptors
  PROVE  /\ FlattenSeq(Pieces(dd)) \in Bytes
         /\ Appended(dd) = HeadCode(dd) \o FlattenSeq(Pieces(dd))
         /\ Appended(dd) \in ByteStrings /\ Appended(dd) \in Bytes
         /\ Len(Appended(dd)) = Len(HeadCode(dd)) + Len(FlattenSeq(Pieces(dd)))
         /\ Len(Appended(dd)) >= 1
<1>1. FlattenSeq(Pieces(dd)) \in Bytes
  <2>1. Pieces(dd) \in Seq(Seq(0..Radix - 1)) /\ Len(Pieces(dd)) \in Nat
    BY PiecesTyped DEF Bytes
  <2>2. Len(Pieces(dd)) \in 0..Len(Pieces(dd))
    BY <2>1
  <2> QED
    BY <2>1, <2>2, JoinedEquations DEF Bytes
<1> DEFINE body == FlattenSeq(Pieces(dd))
<1>2. Appended(dd) = HeadCode(dd) \o body
  BY DEF Appended, HeadCode
<1> HIDE DEF body
<1>3. body \in Bytes /\ HeadCode(dd) \in Bytes /\ Len(HeadCode(dd)) >= 1
  BY <1>1, HeadTyped DEF body
<1>4. /\ HeadCode(dd) \o body \in Bytes
      /\ Len(HeadCode(dd) \o body) = Len(HeadCode(dd)) + Len(body)
      /\ Len(HeadCode(dd)) \in Nat /\ Len(body) \in Nat
  BY <1>3, Joining
<1>5. Appended(dd) \in ByteStrings
  BY <1>2, <1>4, SizeAssumption DEF SizeAssumption, ByteStrings, Bytes
<1> QED
  BY <1>1, <1>2, <1>3, <1>4, <1>5 DEF body

LEMMA KeyTyped ==
  /\ DATA_DESCRIPTOR_KEY \in Bytes /\ Len(DATA_DESCRIPTOR_KEY) = KeyBytes
  /\ KeyBytes \in Nat /\ KeyBytes >= 1
<1>1. /\ KeyBytes \in Nat /\ KeyBytes >= 1
      /\ \A i \in 1..KeyBytes : i \in 0..Radix - 1
  BY ConstantFacts
<1>2. DATA_DESCRIPTOR_KEY \in [1..KeyBytes -> 0..Radix - 1]
  BY <1>1 DEF DATA_DESCRIPTOR_KEY
<1> QED
  BY <1>1, <1>2, SequenceOfFunction DEF Bytes

(* What precedes a wrapped descriptor: a key, a VARINT and a length.       *)
LEMMA PreambleTyped ==
  ASSUME NEW dd \in Descriptors
  PROVE  /\ WriteVarInt(1) \in Bytes /\ 1 \in 0..MaxU64
         /\ Len(Appended(dd)) \in 0..MaxSize /\ Len(Appended(dd)) \in 0..MaxU64
         /\ WriteCompactSize(Len(Appended(dd))) \in Bytes
         /\ Preamble(dd) \in Bytes
         /\ form = "wrapped" =>
              /\ Preamble(dd) = DATA_DESCRIPTOR_KEY
                                  \o (WriteVarInt(1) \o WriteCompactSize(Len(Appended(dd))))
              /\ Len(Preamble(dd)) >= 1
         /\ form # "wrapped" => Preamble(dd) = <<>>
<1> DEFINE v == WriteVarInt(1)
           c == WriteCompactSize(Len(Appended(dd)))
<1>1. 1 \in 0..MaxU64
  BY FlagWordFits, ConstantFacts
<1>2. v \in Bytes
  BY <1>1, VarIntEnd
<1>3. /\ Len(Appended(dd)) \in 0..MaxSize /\ Len(Appended(dd)) \in 0..MaxU64
      /\ c \in Bytes
  BY AppendedTyped, ByteStringFacts, CompactBytes
<1>4. Preamble(dd) = IF form = "wrapped" THEN (DATA_DESCRIPTOR_KEY \o v) \o c ELSE <<>>
  BY DEF Preamble
<1> HIDE DEF v, c
<1>5. /\ DATA_DESCRIPTOR_KEY \o v \in Bytes /\ (DATA_DESCRIPTOR_KEY \o v) \o c \in Bytes
      /\ Len((DATA_DESCRIPTOR_KEY \o v) \o c) >= 1
      /\ (DATA_DESCRIPTOR_KEY \o v) \o c = DATA_DESCRIPTOR_KEY \o (v \o c)
  <2> DEFINE u == DATA_DESCRIPTOR_KEY \o v
  <2>1. u \in Bytes /\ Len(u) \in Nat /\ Len(u) >= 1
    <3>1. /\ u \in Bytes /\ Len(u) = Len(DATA_DESCRIPTOR_KEY) + Len(v)
          /\ Len(v) \in Nat
      BY <1>2, KeyTyped, Joining
    <3> HIDE DEF u
    <3> QED
      BY <3>1, KeyTyped
  <2>2. (DATA_DESCRIPTOR_KEY \o v) \o c = DATA_DESCRIPTOR_KEY \o (v \o c)
    BY <1>2, <1>3, KeyTyped, Associative
  <2> HIDE DEF u
  <2>3. u \o c \in Bytes /\ Len(u \o c) = Len(u) + Len(c) /\ Len(c) \in Nat
    BY <1>3, <2>1, Joining
  <2>4. Len(u \o c) >= 1
    BY <2>1, <2>3
  <2> QED
    BY <2>1, <2>2, <2>3, <2>4 DEF u
<1>6. <<>> \in Bytes
  BY DEF Bytes
<1> QED
  BY <1>1, <1>2, <1>3, <1>4, <1>5, <1>6 DEF v, c

LEMMA CodeTyped ==
  ASSUME NEW dd \in Descriptors
  PROVE  /\ Code(dd) \in Bytes /\ Len(Code(dd)) = Len(Preamble(dd)) + Len(Appended(dd))
         /\ Len(Preamble(dd)) \in Nat /\ Len(Code(dd)) \in Nat
         /\ Len(Code(dd)) >= 1 + Len(Preamble(dd))
         /\ form = "wrapped" => Code(dd) = CvdxfData(Appended(dd))
         /\ form # "wrapped" => Code(dd) = Appended(dd)
<1>1. Preamble(dd) \in Bytes /\ Appended(dd) \in Bytes /\ Len(Appended(dd)) >= 1
  BY PreambleTyped, AppendedTyped
<1>2. Code(dd) = Preamble(dd) \o Appended(dd)
  BY DEF Code
<1>3. ASSUME form = "wrapped" PROVE Code(dd) = CvdxfData(Appended(dd))
  <2> DEFINE a == Appended(dd)
             v == WriteVarInt(1)
             c == WriteCompactSize(Len(Appended(dd)))
  <2>1. CvdxfData(a) = (DATA_DESCRIPTOR_KEY \o v) \o (c \o a)
    BY DEF CvdxfData, WriteVarBytes
  <2>2. Code(dd) = ((DATA_DESCRIPTOR_KEY \o v) \o c) \o a
    BY <1>3 DEF Code, Preamble
  <2>3. v \in Bytes /\ c \in Bytes /\ a \in Bytes
    BY <1>1, PreambleTyped
  <2> HIDE DEF v, c, a
  <2>4. DATA_DESCRIPTOR_KEY \o v \in Bytes
    BY <2>3, KeyTyped, Joining
  <2>5. CvdxfData(a) = Code(dd)
    BY <2>1, <2>2, <2>3, <2>4, Associative
  <2> QED
    BY <2>5 DEF a
<1>4. ASSUME form # "wrapped" PROVE Code(dd) = Appended(dd)
  BY <1>1, <1>2, <1>4, PreambleTyped DEF Bytes
<1>5. /\ Code(dd) \in Bytes /\ Len(Code(dd)) = Len(Preamble(dd)) + Len(Appended(dd))
      /\ Len(Preamble(dd)) \in Nat /\ Len(Appended(dd)) \in Nat
  BY <1>1, <1>2, Joining
<1>6. Len(Code(dd)) \in Nat /\ Len(Code(dd)) >= 1 + Len(Preamble(dd))
  BY <1>1, <1>5
<1> QED
  BY <1>3, <1>4, <1>5, <1>6

-----------------------------------------------------------------------------
(* The canonical form, and how the reader gets there.                      *)

LEMMA CanonicalNumbers ==
  ASSUME NEW dd \in Descriptors
  PROVE  /\ Canonical(dd).version = Version(dd) /\ Canonical(dd).flags = CalcFlags(dd)
         /\ Canonical(dd).version \in Nat /\ Canonical(dd).version > 0
         /\ Canonical(dd).flags \in 0..255 /\ Canonical(dd).flags \in Nat
<1> DEFINE Kept(f) == IF dd[f] = <<>> THEN None ELSE dd[f]
           Set(f)  == IF f = "encrypted" THEN dd.encrypted ELSE Kept(f) # None
<1>1. ASSUME NEW f \in Flagged PROVE Set(f) <=> Present(dd, f)
  <2>1. CASE f = "encrypted"
    BY <2>1 DEF Present
  <2>2. CASE f = "vdxf_key"
    <3>1. dd[f] # <<>>
      <4>1. dd[f] # None => Len(dd[f]) = KeyBytes
        BY <2>2, FieldsTyped
      <4>2. Len(<<>>) # KeyBytes /\ <<>> \in Bytes
        BY ConstantFacts DEF Bytes
      <4> QED
        BY <4>1, <4>2, NoneFacts
    <3> QED
      BY <2>2, <3>1 DEF Present
  <2>3. CASE f \notin {"encrypted", "vdxf_key"}
    BY <2>3 DEF Present
  <2> QED
    BY <2>1, <2>2, <2>3
<1>2. {f \in Flagged : Set(f)} = {f \in Flagged : Present(dd, f)}
  <2> HIDE DEF Set
  <2> QED
    BY <1>1
<1>3. Canonical(dd).flags = BitsOf({f \in Flagged : Set(f)})
  BY FlagNames DEF Canonical
<1>4. Canonical(dd).flags = CalcFlags(dd)
  <2> HIDE DEF Set
  <2> QED
    BY <1>2, <1>3, FlagNames DEF CalcFlags
<1>5. Canonical(dd).version = Version(dd)
  BY DEF Canonical, Version, DEFAULT_VERSION
<1>6. Version(dd) \in Nat /\ Version(dd) > 0
  BY FieldsTyped, ConstantFacts DEF Version, DEFAULT_VERSION
<1>7. CalcFlags(dd) \in 0..255
  BY FlagsPresent
<1> QED
  BY <1>4, <1>5, <1>6, <1>7

LEMMA CanonicalField ==
  ASSUME NEW dd \in Descriptors, NEW j \in 1..8
  PROVE  /\ Announced(CalcFlags(dd), Layout[j]) =>
              Canonical(dd)[Layout[j]] = dd[Layout[j]]
         /\ ~Announced(CalcFlags(dd), Layout[j]) => Canonical(dd)[Layout[j]] = None
<1> DEFINE f == Layout[j]
           all == Canonical(dd)
<1>1. /\ j \in {1, 2} => all[f] = dd[f]
      /\ j \notin {1, 2} => all[f] = IF dd[f] = <<>> THEN None ELSE dd[f]
  <2>1. j = 1 \/ j = 2 \/ j = 3 \/ j = 4 \/ j = 5 \/ j = 6 \/ j = 7 \/ j = 8
    OBVIOUS
  <2> QED
    BY <2>1, EightFields DEF Canonical
<1>2. /\ Announced(CalcFlags(dd), f) => dd[f] # None
      /\ Announced(CalcFlags(dd), f) /\ j \notin {1, 2} => dd[f] # <<>>
  <2>1. CASE j = 2
    BY <2>1, AnnouncedField, ByteStringFacts
  <2>2. CASE j # 2
    <3>1. f \in Flagged \ {"encrypted"} /\ f # "object_data"
      BY <2>2, FieldNames
    <3>2. Announced(CalcFlags(dd), f) <=> Present(dd, f)
      BY <3>1, FlagsPresent DEF Announced
    <3> QED
      BY <3>1, <3>2, PresentField
  <2> QED
    BY <2>1, <2>2
<1>3. ~Announced(CalcFlags(dd), f) =>
        /\ j # 2 /\ (dd[f] = None \/ dd[f] = <<>>)
        /\ j = 1 => dd[f] = None
  BY AnnouncedField
<1> HIDE DEF f, all
<1>4. Announced(CalcFlags(dd), f) => all[f] = dd[f]
  BY <1>1, <1>2
<1>5. ~Announced(CalcFlags(dd), f) => all[f] = None
  BY <1>1, <1>3
<1> QED
  BY <1>4, <1>5 DEF f, all

LEMMA PartNumbers ==
  ASSUME NEW dd \in Descriptors, NEW j \in 0..8
  PROVE  PartOf(dd, j).flags = CalcFlags(dd) /\ PartOf(dd, j).version = Version(dd)
BY CanonicalNumbers DEF PartOf

LEMMA PartAtFirst ==
  ASSUME NEW dd \in Descriptors
  PROVE  PartOf(dd, 0) = Blank(Version(dd), CalcFlags(dd))
BY CanonicalNumbers DEF PartOf, Blank

LEMMA PartAtLast ==
  ASSUME NEW dd \in Descriptors
  PROVE  PartOf(dd, 8) = Canonical(dd)
BY DEF PartOf, Canonical

LEMMA PartGrows ==
  ASSUME NEW dd \in Descriptors, NEW j \in 1..8
  PROVE  PartOf(dd, j) = [PartOf(dd, j - 1) EXCEPT ![Layout[j]] = Canonical(dd)[Layout[j]]]
<1> DEFINE all == Canonical(dd)
<1>1. j = 1 \/ j = 2 \/ j = 3 \/ j = 4 \/ j = 5 \/ j = 6 \/ j = 7 \/ j = 8
  OBVIOUS
<1>2. CASE j = 1
  BY <1>2, EightFields DEF PartOf
<1>3. CASE j = 2
  BY <1>3, EightFields DEF PartOf
<1>4. CASE j = 3
  BY <1>4, EightFields DEF PartOf
<1>5. CASE j = 4
  BY <1>5, EightFields DEF PartOf
<1>6. CASE j = 5
  BY <1>6, EightFields DEF PartOf
<1>7. CASE j = 6
  BY <1>7, EightFields DEF PartOf
<1>8. CASE j = 7
  BY <1>8, EightFields DEF PartOf
<1>9. CASE j = 8
  BY <1>9, EightFields DEF PartOf
<1> QED
  BY <1>1, <1>2, <1>3, <1>4, <1>5, <1>6, <1>7, <1>8, <1>9

(* A field that was announced is put in its place; one that was not is     *)
(* there already.                                                          *)
LEMMA PartStep ==
  ASSUME NEW dd \in Descriptors, NEW j \in 1..8
  PROVE  /\ Announced(CalcFlags(dd), Layout[j]) =>
              PartOf(dd, j) = [PartOf(dd, j - 1) EXCEPT ![Layout[j]] = dd[Layout[j]]]
         /\ ~Announced(CalcFlags(dd), Layout[j]) => PartOf(dd, j) = PartOf(dd, j - 1)
<1> DEFINE p == PartOf(dd, j - 1)
           f == Layout[j]
<1>1. PartOf(dd, j) = [p EXCEPT ![f] = Canonical(dd)[f]]
  BY PartGrows
<1>2. Announced(CalcFlags(dd), f) => Canonical(dd)[f] = dd[f]
  BY CanonicalField
<1>3. ASSUME ~Announced(CalcFlags(dd), f) PROVE PartOf(dd, j) = p
  <2>1. Canonical(dd)[f] = None /\ j # 2
    BY <1>3, CanonicalField, AnnouncedField
  <2>2. p[f] = None
    <3>1. j = 1 \/ j = 3 \/ j = 4 \/ j = 5 \/ j = 6 \/ j = 7 \/ j = 8
      BY <2>1
    <3> QED
      BY <3>1, EightFields DEF PartOf
  <2>3. [p EXCEPT ![f] = p[f]] = p
    BY DEF PartOf
  <2> QED
    BY <1>1, <2>1, <2>2, <2>3
<1> QED
  BY <1>1, <1>2, <1>3

(* Every record of a reader's descriptor is of its type.                   *)
LEMMA BlankTyped ==
  ASSUME NEW v \in Nat, NEW w \in Nat
  PROVE  Blank(v, w) \in Parsed /\ Blank(v, w) # None
<1>1. <<>> \in Seq(0..Radix - 1)
  OBVIOUS
<1>2. Blank(v, w) \in Parsed
  BY <1>1 DEF Blank, Parsed, Optional
<1> QED
  BY <1>2, NoneFacts

LEMMA FieldTyped ==
  ASSUME NEW p \in Parsed, NEW j \in 1..8, NEW s \in Bytes
  PROVE  /\ [p EXCEPT ![Layout[j]] = s] \in Parsed
         /\ [p EXCEPT ![Layout[j]] = s] # None
<1> DEFINE T == Optional(Seq(0..Radix - 1))
<1>1. s \in T
  BY DEF Bytes, Optional
<1>2. Parsed = [version : Nat, flags : Nat, vdxf_key : T, object_data : T, label : T,
                mime_type : T, salt : T, epk : T, ivk : T, ssk : T]
  BY DEF Parsed
<1> HIDE DEF T
<1>3. /\ Layout[j] \in {"vdxf_key", "object_data", "label", "mime_type", "salt", "epk",
                        "ivk", "ssk"}
  BY DEF Layout
<1>4. [p EXCEPT ![Layout[j]] = s] \in Parsed
  BY <1>1, <1>2, <1>3
<1> QED
  BY <1>4, NoneFacts

-----------------------------------------------------------------------------
(* What the reader makes of bytes it finds in the buffer.                  *)

(* As far as the buffer goes, s stands behind the offset `at'.             *)
Holds(at, s) == \A i \in 1..Len(s) : at + i <= Len(buf) => buf[at + i] = s[i]

LEMMA HoldsSplit ==
  ASSUME NEW s \in Bytes, NEW t \in Bytes, NEW at \in Nat, buf \in Bytes, Holds(at, s \o t)
  PROVE  Holds(at, s) /\ Holds(at + Len(s), t)
<1>1. /\ Len(s \o t) = Len(s) + Len(t) /\ Len(s) \in Nat /\ Len(t) \in Nat
      /\ \A i \in 1..Len(s) : (s \o t)[i] = s[i]
      /\ \A i \in 1..Len(t) : (s \o t)[Len(s) + i] = t[i]
  BY Concatenation DEF Bytes
<1>2. Len(buf) \in Nat
  BY DEF Bytes
<1> DEFINE u == s \o t
<1>3. \A i \in 1..Len(u) : at + i <= Len(buf) => buf[at + i] = u[i]
  BY DEF Holds
<1> HIDE DEF u
<1>4. ASSUME NEW i \in 1..Len(s), at + i <= Len(buf) PROVE buf[at + i] = s[i]
  <2>1. i \in 1..Len(u)
    BY <1>1 DEF u
  <2> QED
    BY <1>1, <1>3, <1>4, <2>1 DEF u
<1>5. ASSUME NEW i \in 1..Len(t), (at + Len(s)) + i <= Len(buf)
      PROVE  buf[(at + Len(s)) + i] = t[i]
  <2>1. Len(s) + i \in 1..Len(u) /\ at + (Len(s) + i) = (at + Len(s)) + i
    BY <1>1 DEF u
  <2>2. at + (Len(s) + i) <= Len(buf)
    BY <1>5, <2>1
  <2>3. buf[at + (Len(s) + i)] = u[Len(s) + i]
    BY <1>3, <2>1, <2>2
  <2>4. u[Len(s) + i] = t[i]
    BY <1>1 DEF u
  <2> QED
    BY <2>1, <2>3, <2>4
<1> QED
  BY <1>4, <1>5 DEF Holds

LEMMA Slice ==
  ASSUME NEW S, NEW s \in Seq(S), NEW m \in 0..Len(s), NEW n \in m..Len(s)
  PROVE  /\ SubSeq(s, m + 1, n) \in Seq(S) /\ Len(SubSeq(s, m + 1, n)) = n - m
         /\ \A i \in 1..n - m : SubSeq(s, m + 1, n)[i] = s[m + i]
<1> DEFINE t == SubSeq(s, m + 1, n)
<1>1. m + 1 \in Int /\ n \in Int /\ m \in Int /\ \A i \in m + 1..n : s[i] \in S
  OBVIOUS
<1>2. /\ t \in Seq(S) /\ Len(t) = IF m + 1 <= n THEN n - (m + 1) + 1 ELSE 0
      /\ \A i \in 1..n - (m + 1) + 1 : t[i] = s[(m + 1) + i - 1]
  BY <1>1, SubSeqProperties
<1> HIDE DEF t
<1>3. n - (m + 1) + 1 = n - m /\ \A i \in 1..n - m : (m + 1) + i - 1 = m + i
  OBVIOUS
<1>4. Len(t) = n - m
  BY <1>2
<1>5. \A i \in 1..n - m : t[i] = s[m + i]
  BY <1>2, <1>3
<1> QED
  BY <1>2, <1>4, <1>5 DEF t

LEMMA SliceOfBuffer ==
  ASSUME buf \in Bytes, NEW m \in 0..Len(buf), NEW n \in m..Len(buf), NEW l, n - m = l
  PROVE  /\ SubSeq(buf, m + 1, n) \in Bytes /\ Len(SubSeq(buf, m + 1, n)) = l
         /\ \A i \in 1..l : SubSeq(buf, m + 1, n)[i] = buf[m + i]
<1>1. buf \in Seq(0..Radix - 1)
  BY DEF Bytes
<1>2. /\ SubSeq(buf, m + 1, n) \in Seq(0..Radix - 1)
      /\ Len(SubSeq(buf, m + 1, n)) = n - m
      /\ \A i \in 1..n - m : SubSeq(buf, m + 1, n)[i] = buf[m + i]
  BY <1>1, Slice
<1> QED
  BY <1>2 DEF Bytes

(* A read finds nothing, or a value and an offset within the buffer.       *)
LEMMA ReadIsSome ==
  ASSUME NEW v \in Nat \cup Bytes, NEW n \in Nat
  PROVE  Read(v, n) # None /\ Read(v, n).value = v /\ Read(v, n).next = n
<1>1. Read(v, n) \in ReadResults
  BY DEF Read, ReadResults, Bytes
<1>2. Read(v, n).value = v /\ Read(v, n).next = n
  BY DEF Read
<1> QED
  BY <1>1, <1>2, NoneFacts

LEMMA BytesTyped ==
  ASSUME buf \in Bytes, NEW at \in 0..Len(buf), NEW n \in Nat
  PROVE  /\ at + n <= Len(buf) =>
              /\ BytesAt(at, n) # None
              /\ BytesAt(at, n).value = SubSeq(buf, at + 1, at + n)
              /\ BytesAt(at, n).value \in Bytes /\ Len(BytesAt(at, n).value) = n
              /\ BytesAt(at, n).next = at + n /\ at + n \in at..Len(buf)
         /\ at + n > Len(buf) => BytesAt(at, n) = None
<1>1. CASE at + n <= Len(buf)
  <2> DEFINE t == SubSeq(buf, at + 1, at + n)
  <2>1. t \in Bytes /\ Len(t) = n
    <3>1. at + n \in at..Len(buf) /\ (at + n) - at = n
      BY <1>1 DEF Bytes
    <3> QED
      BY <3>1, SliceOfBuffer
  <2>2. at + n \in Nat /\ at + n \in at..Len(buf) /\ ~(at + n > Len(buf))
    BY <1>1 DEF Bytes
  <2>3. BytesAt(at, n) = Read(t, at + n)
    BY <2>2 DEF BytesAt
  <2> HIDE DEF t
  <2>4. Read(t, at + n) # None /\ Read(t, at + n).value = t /\ Read(t, at + n).next = at + n
    BY <2>1, <2>2, ReadIsSome
  <2>5. BytesAt(at, n) # None /\ BytesAt(at, n).value = t /\ BytesAt(at, n).next = at + n
    BY <2>3, <2>4
  <2> QED
    BY <2>1, <2>2, <2>5 DEF t
<1>2. CASE at + n > Len(buf)
  <2>1. ~(at + n <= Len(buf))
    BY <1>2 DEF Bytes
  <2> QED
    BY <1>2, <2>1 DEF BytesAt
<1> QED
  BY <1>1, <1>2 DEF Bytes

LEMMA BytesHeld ==
  ASSUME buf \in Bytes, NEW at \in 0..Len(buf), NEW s \in Bytes, Holds(at, s)
  PROVE  /\ at + Len(s) <= Len(buf) =>
              /\ BytesAt(at, Len(s)) # None
              /\ BytesAt(at, Len(s)).value = s /\ BytesAt(at, Len(s)).next = at + Len(s)
         /\ at + Len(s) > Len(buf) => BytesAt(at, Len(s)) = None
<1>1. Len(s) \in Nat /\ Len(buf) \in Nat /\ at \in Nat
  BY DEF Bytes
<1>2. ASSUME at + Len(s) <= Len(buf)
      PROVE  SubSeq(buf, at + 1, at + Len(s)) = s
  <2> DEFINE t == SubSeq(buf, at + 1, at + Len(s))
  <2>1. t \in Bytes /\ Len(t) = Len(s) /\ \A i \in 1..Len(s) : t[i] = buf[at + i]
    <3>1. at + Len(s) \in at..Len(buf) /\ (at + Len(s)) - at = Len(s)
      BY <1>1, <1>2
    <3> QED
      BY <3>1, SliceOfBuffer
  <2> HIDE DEF t
  <2>2. \A i \in 1..Len(t) : t[i] = s[i]
    BY <1>1, <1>2, <2>1 DEF Holds
  <2> QED
    BY <2>1, <2>2, SameSequence DEF Bytes, t
<1> QED
  BY <1>1, <1>2, BytesTyped

LEMMA VarIntTyped ==
  ASSUME buf \in Bytes, NEW at \in 0..Len(buf), VarIntAt(at) # None
  PROVE  VarIntAt(at).value \in 0..MaxU64 /\ VarIntAt(at).next \in at..Len(buf)
<1> DEFINE I     == {i \in at + 1..Len(buf) : buf[i] < Base}
           last  == IF I # {} THEN Min(I) ELSE 0
           value == VarIntValue(SubSeq(buf, at + 1, last))
<1>1. SelectInSubSeq(buf, at + 1, Len(buf), LAMBDA ch : ch < Base) = last
  BY DEF SelectInSubSeq
<1>2. VarIntAt(at) = IF last = 0 \/ last - at > TmpSize \/ value > MaxU64 THEN None
                     ELSE Read(value, last)
  BY <1>1 DEF VarIntAt
<1>3. I # {} => Min(I) \in I
  <2>1. I \subseteq Nat
    BY DEF Bytes
  <2> HIDE DEF I
  <2> QED
    BY <2>1, LeastOfSet DEF Min
<1>4. last # 0 => last \in at + 1..Len(buf)
  BY <1>3
<1> HIDE DEF I, last
<1>5. last # 0 /\ value \in Nat /\ last \in Nat /\ last \in at..Len(buf) /\ value <= MaxU64
  <2>1. last # 0 /\ ~(value > MaxU64)
    BY <1>2
  <2>2. last \in at + 1..Len(buf) /\ at \in Nat /\ Len(buf) \in Nat
    BY <1>4, <2>1 DEF Bytes
  <2>3. SubSeq(buf, at + 1, last) \in Seq(Int)
    <3>1. last \in at..Len(buf)
      BY <2>2
    <3>2. SubSeq(buf, at + 1, last) \in Bytes
      BY <3>1, SliceOfBuffer
    <3> QED
      BY <3>2 DEF Bytes
  <2>4. value \in Nat
    BY <2>3, VarIntValueTyped
  <2> HIDE DEF value
  <2> QED
    BY <2>1, <2>2, <2>4, ConstantFacts
<1>6. VarIntAt(at) = Read(value, last)
  BY <1>2
<1> HIDE DEF value
<1> QED
  BY <1>5, <1>6, ReadIsSome, ConstantFacts

LEMMA VarIntHeld ==
  ASSUME buf \in Bytes, NEW at \in 0..Len(buf), NEW n \in 0..MaxU64,
         Holds(at, WriteVarInt(n))
  PROVE  /\ at + Len(WriteVarInt(n)) <= Len(buf) =>
              /\ VarIntAt(at) # None
              /\ VarIntAt(at).value = n /\ VarIntAt(at).next = at + Len(WriteVarInt(n))
         /\ at + Len(WriteVarInt(n)) > Len(buf) => VarIntAt(at) = None
<1> DEFINE code  == WriteVarInt(n)
           I     == {i \in at + 1..Len(buf) : buf[i] < Base}
           last  == IF I # {} THEN Min(I) ELSE 0
           value == VarIntValue(SubSeq(buf, at + 1, last))
<1>1. SelectInSubSeq(buf, at + 1, Len(buf), LAMBDA ch : ch < Base) = last
  BY DEF SelectInSubSeq
<1>2. VarIntAt(at) = IF last = 0 \/ last - at > TmpSize \/ value > MaxU64 THEN None
                     ELSE Read(value, last)
  BY <1>1 DEF VarIntAt
<1>3. /\ code \in Bytes /\ Len(code) \in 1..TmpSize
      /\ \A i \in 1..Len(code) : code[i] < Base <=> i = Len(code)
  BY VarIntEnd
<1>4. VarIntValue(code) = n
  BY VarIntReadsBack
<1> HIDE DEF code
<1>5. /\ Len(buf) \in Nat /\ at \in Nat /\ at <= Len(buf) /\ TmpSize \in Nat
      /\ Len(code) \in Nat /\ Len(code) >= 1 /\ Len(code) <= TmpSize
  <2>1. Len(buf) \in Nat
    BY DEF Bytes
  <2> QED
    BY <1>3, <2>1, TmpSizeValue
<1>6. \A i \in 1..Len(code) : at + i <= Len(buf) => buf[at + i] = code[i]
  BY DEF Holds, code
<1>7. CASE at + Len(code) <= Len(buf)
  <2> DEFINE stop == at + Len(code)
  <2>1. stop \in I
    <3>1. buf[at + Len(code)] = code[Len(code)] /\ code[Len(code)] < Base
      BY <1>3, <1>5, <1>6, <1>7
    <3> QED
      BY <1>5, <1>7, <3>1
  <2>2. ASSUME NEW i \in I PROVE stop <= i
    <3>1. i \in at + 1..Len(buf) /\ buf[i] < Base
      OBVIOUS
    <3>2. CASE i < stop
      <4>1. i - at \in 1..Len(code) /\ i - at # Len(code) /\ at + (i - at) = i
        BY <1>5, <3>1, <3>2
      <4>2. buf[i] = code[i - at]
        BY <1>6, <3>1, <4>1
      <4> QED
        BY <1>3, <3>1, <4>1, <4>2
    <3> QED
      BY <1>5, <3>1, <3>2
  <2>3. I \subseteq Int /\ stop \in Int
    BY <1>5
  <2> HIDE DEF I, stop
  <2>4. Min(I) = stop
    <3>1. /\ Min(I) \in I /\ \A i \in I : Min(I) <= i
      BY <2>1, <2>2 DEF Min
    <3>2. Min(I) <= stop /\ stop <= Min(I) /\ Min(I) \in Int
      BY <2>1, <2>2, <2>3, <3>1
    <3> QED
      BY <2>3, <3>2
  <2>5. last = stop
    BY <2>1, <2>4
  <2>6. SubSeq(buf, at + 1, stop) = code
    <3> DEFINE t == SubSeq(buf, at + 1, stop)
    <3>1. stop \in at..Len(buf) /\ stop - at = Len(code)
      BY <1>5, <1>7 DEF stop
    <3>2. /\ t \in Bytes /\ Len(t) = Len(code)
          /\ \A i \in 1..Len(code) : t[i] = buf[at + i]
      BY <3>1, SliceOfBuffer
    <3> HIDE DEF t
    <3>3. \A i \in 1..Len(t) : t[i] = code[i]
      BY <1>5, <1>6, <1>7, <3>2
    <3>4. t = code
      BY <1>3, <3>2, <3>3, SameSequence DEF Bytes
    <3> QED
      BY <3>4 DEF t
  <2>7. value = n
    BY <1>4, <2>5, <2>6
  <2>8. stop # 0 /\ ~(stop - at > TmpSize) /\ ~(n > MaxU64) /\ stop \in Nat /\ n \in Nat
    BY <1>5, ConstantFacts DEF stop
  <2> HIDE DEF last, value
  <2>9. VarIntAt(at) = Read(n, stop)
    BY <1>2, <2>5, <2>7, <2>8
  <2>10. ~(at + Len(code) > Len(buf))
    BY <1>5, <1>7
  <2> QED
    BY <2>8, <2>9, <2>10, ReadIsSome DEF code, stop
<1>8. CASE at + Len(code) > Len(buf)
  <2>1. ASSUME NEW i \in I PROVE FALSE
    <3>1. i \in at + 1..Len(buf) /\ buf[i] < Base
      OBVIOUS
    <3>2. i - at \in 1..Len(code) /\ i - at # Len(code) /\ at + (i - at) = i
      BY <1>5, <1>8, <3>1
    <3>3. buf[i] = code[i - at]
      BY <1>6, <3>1, <3>2
    <3> QED
      BY <1>3, <3>1, <3>2, <3>3
  <2>2. last = 0
    BY <2>1
  <2>3. ~(at + Len(code) <= Len(buf))
    BY <1>5, <1>8
  <2>4. VarIntAt(at) = None
    BY <1>2, <2>2
  <2> QED
    BY <2>3, <2>4 DEF code
<1> QED
  BY <1>5, <1>7, <1>8

LEMMA CompactTyped ==
  ASSUME buf \in Bytes, NEW at \in 0..Len(buf), CompactSizeAt(at) # None
  PROVE  /\ at < Len(buf) /\ CompactSizeAt(at).value \in 0..MaxSize
         /\ CompactSizeAt(at).next \in at..Len(buf)
<1> DEFINE tag    == buf[at + 1]
           digits == BytesAt(at + 1, Width(tag))
           value  == IF Width(tag) = 0 THEN tag ELSE LeValue(digits.value)
<1>1. CompactSizeAt(at) =
        IF at = Len(buf) \/ digits = None \/ value < LeastOf(tag) \/ value > MaxSize
        THEN None ELSE Read(value, digits.next)
  BY DEF CompactSizeAt
<1>2. Len(buf) \in Nat /\ at \in Nat /\ at <= Len(buf)
  BY DEF Bytes
<1>3. at # Len(buf) /\ digits # None /\ ~(value > MaxSize)
  BY <1>1
<1>4. at + 1 \in 0..Len(buf) /\ at < Len(buf)
  BY <1>2, <1>3
<1>5. tag \in 0..Radix - 1
  <2>1. at + 1 \in 1..Len(buf)
    BY <1>2, <1>4
  <2>2. \A i \in 1..Len(buf) : buf[i] \in 0..Radix - 1
    BY ConstantFacts DEF Bytes
  <2> QED
    BY <2>1, <2>2
<1>6. Width(tag) \in Nat
  BY <1>5, TagWidths
<1> HIDE DEF tag
<1>7. digits.value \in Bytes /\ digits.next \in at + 1..Len(buf)
  <2>1. at + 1 + Width(tag) <= Len(buf)
    BY <1>2, <1>3, <1>4, <1>6, BytesTyped
  <2> QED
    BY <1>4, <1>6, <2>1, BytesTyped
<1> HIDE DEF digits
<1>8. value \in Nat
  <2>1. LeValue(digits.value) \in Nat
    <3>1. /\ LeValue(digits.value) \in 0..RadixTo[Len(digits.value)] - 1
          /\ Len(digits.value) \in Nat
      BY <1>7, LeBytesOfLeValue DEF Bytes
    <3> QED
      BY <3>1, RadixPowers
  <2> QED
    BY <1>5, <2>1, ConstantFacts
<1> HIDE DEF value
<1>9. CompactSizeAt(at) = Read(value, digits.next)
  BY <1>1
<1>10. digits.next \in Nat /\ digits.next \in at..Len(buf) /\ value \in 0..MaxSize
  BY <1>2, <1>3, <1>7, <1>8, ConstantFacts
<1> QED
  BY <1>4, <1>8, <1>9, <1>10, ReadIsSome

LEMMA CompactAtEnd ==
  CompactSizeAt(Len(buf)) = None
BY DEF CompactSizeAt

LEMMA CompactHeld ==
  ASSUME buf \in Bytes, NEW at \in 0..Len(buf), NEW n \in 0..MaxSize,
         Holds(at, WriteCompactSize(n))
  PROVE  /\ at + Len(WriteCompactSize(n)) <= Len(buf) =>
              /\ CompactSizeAt(at) # None
              /\ CompactSizeAt(at).value = n
              /\ CompactSizeAt(at).next = at + Len(WriteCompactSize(n))
         /\ at + Len(WriteCompactSize(n)) > Len(buf) => CompactSizeAt(at) = None
<1> DEFINE code  == WriteCompactSize(n)
           first == buf[at + 1]
           rest  == BytesAt(at + 1, Width(first))
           value == IF Width(first) = 0 THEN first ELSE LeValue(rest.value)
<1>1. CompactSizeAt(at) =
        IF at = Len(buf) \/ rest = None \/ value < LeastOf(first) \/ value > MaxSize
        THEN None ELSE Read(value, rest.next)
  BY DEF CompactSizeAt
<1>2. n \in 0..MaxU64 /\ n \in Nat /\ n <= MaxSize /\ MaxSize \in Nat
  BY ConstantFacts
<1>3. PICK tag \in 0..Radix - 1, digits \in Bytes :
        /\ code = <<tag>> \o digits /\ Len(digits) = Width(tag)
        /\ Decoded(tag, digits) = n /\ LeastOf(tag) <= n
  BY <1>2, CompactReadsBack
<1>4. /\ <<tag>> \in Bytes /\ Len(<<tag>>) = 1 /\ <<tag>>[1] = tag
      /\ Len(code) = 1 + Len(digits) /\ Len(digits) \in Nat
  BY <1>3, TagInFront DEF Bytes
<1>5. Len(buf) \in Nat /\ at \in Nat /\ at <= Len(buf)
  BY DEF Bytes
<1>6. Holds(at, <<tag>>) /\ Holds(at + 1, digits)
  <2>1. Holds(at, <<tag>> \o digits)
    BY <1>3
  <2>2. Holds(at, <<tag>>) /\ Holds(at + Len(<<tag>>), digits)
    BY <1>4, <1>5, <2>1, HoldsSplit
  <2> QED
    BY <1>4, <2>2
<1> HIDE DEF code, first, rest, value
<1>7. CASE at = Len(buf)
  <2>1. at + Len(code) > Len(buf) /\ ~(at + Len(code) <= Len(buf))
    BY <1>4, <1>5, <1>7
  <2>2. CompactSizeAt(at) = None
    BY <1>1, <1>7
  <2> QED
    BY <2>1, <2>2 DEF code
<1>8. CASE at # Len(buf)
  <2>1. at + 1 \in 0..Len(buf) /\ 1 \in 1..Len(<<tag>>) /\ at + 1 <= Len(buf)
    BY <1>4, <1>5, <1>8
  <2>2. first = tag
    BY <1>4, <1>6, <2>1 DEF Holds, first
  <2>3. rest = BytesAt(at + 1, Len(digits))
    BY <1>3, <2>2 DEF rest
  <2>4. /\ (at + 1) + Len(digits) <= Len(buf) =>
             rest # None /\ rest.value = digits /\ rest.next = (at + 1) + Len(digits)
        /\ (at + 1) + Len(digits) > Len(buf) => rest = None
    BY <1>6, <2>1, <2>3, BytesHeld
  <2>5. (at + 1) + Len(digits) = at + Len(code)
    BY <1>4, <1>5
  <2>6. CASE at + Len(code) <= Len(buf)
    <3>1. rest # None /\ rest.value = digits /\ rest.next = at + Len(code)
      BY <2>4, <2>5, <2>6
    <3>2. value = n
      BY <1>3, <2>2, <3>1 DEF value, Decoded
    <3>3. ~(value < LeastOf(first)) /\ ~(value > MaxSize)
      <4>1. Radix \in Nat /\ RadixTo[2] \in Nat /\ RadixTo[4] \in Nat
        BY FormBounds, ConstantFacts
      <4>2. LeastOf(tag) \in Int
        BY <4>1, TagWidths
      <4> QED
        BY <1>2, <1>3, <2>2, <3>2, <4>2
    <3>4. CompactSizeAt(at) = Read(n, at + Len(code))
      BY <1>1, <1>8, <3>1, <3>2, <3>3
    <3>5. at + Len(code) \in Nat /\ ~(at + Len(code) > Len(buf))
      BY <1>4, <1>5, <2>6
    <3> QED
      BY <1>2, <3>4, <3>5, ReadIsSome DEF code
  <2>7. CASE at + Len(code) > Len(buf)
    <3>1. rest = None
      BY <2>4, <2>5, <2>7
    <3>2. CompactSizeAt(at) = None
      BY <1>1, <3>1
    <3>3. ~(at + Len(code) <= Len(buf))
      BY <1>4, <1>5, <2>7
    <3> QED
      BY <3>2, <3>3 DEF code
  <2> QED
    BY <1>4, <1>5, <2>6, <2>7
<1> QED
  BY <1>7, <1>8

LEMMA VarBytesRead ==
  ASSUME buf \in Bytes, NEW at \in 0..Len(buf), VarBytesAt(at) # None
  PROVE  VarBytesAt(at).value \in Bytes /\ VarBytesAt(at).next \in at..Len(buf)
<1> DEFINE size == CompactSizeAt(at)
<1>1. VarBytesAt(at) = IF size = None THEN None ELSE BytesAt(size.next, size.value)
  BY DEF VarBytesAt
<1>2. size # None
  BY <1>1
<1>3. size.next \in at..Len(buf) /\ size.value \in 0..MaxSize
  BY <1>2, CompactTyped
<1> HIDE DEF size
<1>4. /\ size.next \in 0..Len(buf) /\ size.value \in Nat /\ Len(buf) \in Nat
      /\ at \in Nat /\ size.next >= at
  BY <1>3, ConstantFacts DEF Bytes
<1>5. BytesAt(size.next, size.value) = VarBytesAt(at)
  BY <1>1, <1>2
<1>6. size.next + size.value <= Len(buf)
  BY <1>4, <1>5, BytesTyped
<1>7. /\ VarBytesAt(at).value \in Bytes
      /\ VarBytesAt(at).next = size.next + size.value
  BY <1>4, <1>5, <1>6, BytesTyped
<1> QED
  BY <1>4, <1>6, <1>7

LEMMA VarBytesHeld ==
  ASSUME buf \in Bytes, NEW at \in 0..Len(buf), NEW s \in ByteStrings,
         Holds(at, WriteVarBytes(s))
  PROVE  /\ at + Len(WriteVarBytes(s)) <= Len(buf) =>
              /\ VarBytesAt(at) # None
              /\ VarBytesAt(at).value = s
              /\ VarBytesAt(at).next = at + Len(WriteVarBytes(s))
         /\ at + Len(WriteVarBytes(s)) > Len(buf) => VarBytesAt(at) = None
<1> DEFINE code == WriteVarBytes(s)
           head == WriteCompactSize(Len(s))
           size == CompactSizeAt(at)
<1>1. VarBytesAt(at) = IF size = None THEN None ELSE BytesAt(size.next, size.value)
  BY DEF VarBytesAt
<1>2. s \in Bytes /\ Len(s) \in 0..MaxSize /\ head \in Bytes /\ code = head \o s
  BY ByteStringFacts, VarBytesTyped
<1>3. /\ Len(code) = Len(head) + Len(s) /\ Len(head) \in Nat /\ Len(s) \in Nat
      /\ Len(buf) \in Nat /\ at \in Nat /\ at <= Len(buf)
  <2>1. Len(buf) \in Nat
    BY DEF Bytes
  <2> HIDE DEF code, head
  <2> QED
    BY <1>2, <2>1, Joining
<1>4. Holds(at, head) /\ Holds(at + Len(head), s)
  <2>1. Holds(at, head \o s)
    BY <1>2
  <2> HIDE DEF head
  <2> QED
    BY <1>2, <1>3, <2>1, HoldsSplit
<1>5. /\ at + Len(head) <= Len(buf) =>
           size # None /\ size.value = Len(s) /\ size.next = at + Len(head)
      /\ at + Len(head) > Len(buf) => size = None
  BY <1>2, <1>4, CompactHeld
<1> HIDE DEF code, head, size
<1>6. CASE at + Len(head) <= Len(buf)
  <2>1. VarBytesAt(at) = BytesAt(at + Len(head), Len(s))
    BY <1>1, <1>5, <1>6
  <2>2. at + Len(head) \in 0..Len(buf) /\ (at + Len(head)) + Len(s) = at + Len(code)
    BY <1>3, <1>6
  <2>3. /\ (at + Len(head)) + Len(s) <= Len(buf) =>
             /\ VarBytesAt(at) # None
             /\ VarBytesAt(at).value = s
             /\ VarBytesAt(at).next = (at + Len(head)) + Len(s)
        /\ (at + Len(head)) + Len(s) > Len(buf) => VarBytesAt(at) = None
    BY <1>2, <1>4, <2>1, <2>2, BytesHeld
  <2> QED
    BY <2>2, <2>3 DEF code
<1>7. CASE at + Len(head) > Len(buf)
  <2>1. VarBytesAt(at) = None
    BY <1>1, <1>5, <1>7
  <2>2. at + Len(code) > Len(buf) /\ ~(at + Len(code) <= Len(buf))
    BY <1>3, <1>7
  <2> QED
    BY <2>1, <2>2 DEF code
<1> QED
  BY <1>3, <1>6, <1>7

-----------------------------------------------------------------------------
(* The descriptors a buffer holds, and those a failed write cannot have    *)
(* disturbed.                                                              *)

Keep(dds, dd) == IF WithinCaps(dd) THEN Append(dds, dd) ELSE dds

Fitting == {dd \in Descriptors : WithinCaps(dd)}

(* What Accepted has kept of the first i descriptors.                      *)
AcceptedOf(dds) ==
  LET kept[i \in 0..Len(dds)] ==
        IF i = 0 THEN <<>>
        ELSE IF WithinCaps(dds[i]) THEN Append(kept[i - 1], dds[i]) ELSE kept[i - 1]
  IN  kept

LEMMA KeepTyped ==
  ASSUME NEW dds \in Seq(Fitting), NEW dd \in Descriptors
  PROVE  Keep(dds, dd) \in Seq(Fitting)
<1>1. CASE WithinCaps(dd)
  <2>1. dd \in Fitting
    BY <1>1 DEF Fitting
  <2> QED
    BY <1>1, <2>1 DEF Keep
<1>2. CASE ~WithinCaps(dd)
  BY <1>2 DEF Keep
<1> QED
  BY <1>1, <1>2

LEMMA AcceptedEquations ==
  ASSUME NEW dds \in Seq(Descriptors)
  PROVE  /\ Accepted(dds) = AcceptedOf(dds)[Len(dds)]
         /\ AcceptedOf(dds)[0] = <<>>
         /\ \A i \in 0..Len(dds) - 1 :
              AcceptedOf(dds)[i + 1] = Keep(AcceptedOf(dds)[i], dds[i + 1])
         /\ \A i \in 0..Len(dds) : AcceptedOf(dds)[i] \in Seq(Fitting)
<1> DEFINE N == Len(dds)
           A == Seq(Fitting)
           step == [k \in Nat |-> [x \in A |->
                     IF k + 1 \in 1..N THEN Keep(x, dds[k + 1]) ELSE x]]
           kept[i \in 0..Len(dds)] ==
             IF i = 0 THEN <<>>
             ELSE IF WithinCaps(dds[i]) THEN Append(kept[i - 1], dds[i]) ELSE kept[i - 1]
<1>1. N \in Nat /\ \A i \in 1..N : dds[i] \in Descriptors
  OBVIOUS
<1>2. <<>> \in A
  OBVIOUS
<1>3. \A k \in Nat : \A x \in A :
        (IF k + 1 \in 1..N THEN Keep(x, dds[k + 1]) ELSE x) \in A
  BY <1>1, KeepTyped
<1> HIDE DEF A
<1>4. /\ step \in [Nat -> [A -> A]]
      /\ \A k \in Nat : \A x \in A :
           step[k][x] = IF k + 1 \in 1..N THEN Keep(x, dds[k + 1]) ELSE x
  BY <1>3
<1> HIDE DEF step
<1>5. PICK f : IteratesTo(N, f, A, <<>>, step)
  <2> HIDE DEF N
  <2> QED
    BY <1>1, <1>2, <1>4, RecursiveSequence
<1>6. /\ f \in [0..N -> A] /\ f[0] = <<>>
      /\ \A k \in 0..N - 1 : f[k + 1] = step[k][f[k]]
  BY <1>5 DEF IteratesTo
<1>7. ASSUME NEW i \in 0..N - 1 PROVE f[i + 1] = Keep(f[i], dds[i + 1])
  <2>1. i \in 0..N /\ i \in Nat /\ i + 1 \in 1..N
    BY <1>1
  <2>2. f[i] \in A
    BY <1>6, <2>1
  <2> QED
    BY <1>4, <1>6, <2>1, <2>2
<1>8. ASSUME NEW i \in 0..N
      PROVE  f[i] = IF i = 0 THEN <<>>
                    ELSE IF WithinCaps(dds[i]) THEN Append(f[i - 1], dds[i]) ELSE f[i - 1]
  <2>1. CASE i # 0
    <3>1. i - 1 \in 0..N - 1 /\ (i - 1) + 1 = i
      BY <1>1, <2>1
    <3>2. f[(i - 1) + 1] = Keep(f[i - 1], dds[(i - 1) + 1])
      BY <1>7, <3>1
    <3>3. f[i] = Keep(f[i - 1], dds[i])
      BY <3>1, <3>2
    <3> QED
      BY <2>1, <3>3 DEF Keep
  <2> QED
    BY <1>6, <2>1
<1>9. f = [i \in 0..Len(dds) |->
             IF i = 0 THEN <<>>
             ELSE IF WithinCaps(dds[i]) THEN Append(f[i - 1], dds[i]) ELSE f[i - 1]]
  BY <1>6, <1>8
<1>10. kept = [i \in 0..Len(dds) |->
                 IF i = 0 THEN <<>>
                 ELSE IF WithinCaps(dds[i]) THEN Append(kept[i - 1], dds[i])
                 ELSE kept[i - 1]]
  BY <1>9
<1>11. Accepted(dds) = kept[Len(dds)] /\ AcceptedOf(dds) = kept
  BY DEF Accepted, AcceptedOf
<1> HIDE DEF kept
<1>12. kept[0] = <<>>
  BY <1>1, <1>10
<1>13. ASSUME NEW i \in 0..N - 1 PROVE kept[i + 1] = Keep(kept[i], dds[i + 1])
  <2>1. i + 1 \in 0..Len(dds) /\ i + 1 # 0 /\ (i + 1) - 1 = i
    BY <1>1
  <2> QED
    BY <1>10, <2>1 DEF Keep
<1>14. \A i \in 0..N : kept[i] \in A
  <2> DEFINE T == {i \in Nat : i \in 0..N => kept[i] \in A}
  <2>1. 0 \in T
    BY <1>2, <1>12
  <2>2. ASSUME NEW i \in Nat, i \in T PROVE i + 1 \in T
    <3>1. CASE i + 1 \in 0..N
      <4>1. i \in 0..N - 1 /\ i \in 0..N /\ i + 1 \in 1..N
        BY <1>1, <3>1
      <4>2. kept[i] \in A /\ dds[i + 1] \in Descriptors
        BY <1>1, <2>2, <4>1
      <4>3. kept[i + 1] \in A
        BY <1>13, <4>1, <4>2, KeepTyped DEF A
      <4> QED
        BY <4>3
    <3> QED
      BY <3>1
  <2>3. Nat \subseteq T
    <3> HIDE DEF T
    <3> QED
      BY <2>1, <2>2, SetInduction
  <2> QED
    BY <1>1, <2>3
<1> QED
  BY <1>11, <1>12, <1>13, <1>14 DEF A

LEMMA AcceptedTyped ==
  ASSUME NEW dds \in Seq(Descriptors)
  PROVE  /\ Accepted(dds) \in Seq(Descriptors)
         /\ \A i \in 1..Len(Accepted(dds)) : WithinCaps(Accepted(dds)[i])
<1>1. Len(dds) \in 0..Len(dds)
  OBVIOUS
<1>2. Accepted(dds) \in Seq(Fitting)
  BY <1>1, AcceptedEquations
<1> QED
  BY <1>2 DEF Fitting

LEMMA AcceptedNone ==
  Accepted(<<>>) = <<>>
<1>1. <<>> \in Seq(Descriptors) /\ Len(<<>>) = 0
  OBVIOUS
<1> QED
  BY <1>1, AcceptedEquations

LEMMA AcceptedAppend ==
  ASSUME NEW dds \in Seq(Descriptors), NEW dd \in Descriptors
  PROVE  Accepted(Append(dds, dd)) = Keep(Accepted(dds), dd)
<1> DEFINE N == Len(dds)
           more == Append(dds, dd)
           s == AcceptedOf(dds)
           t == AcceptedOf(more)
           T == {i \in Nat : i \in 0..N => t[i] = s[i]}
<1>1. /\ N \in Nat /\ more \in Seq(Descriptors) /\ Len(more) = N + 1
      /\ more[N + 1] = dd /\ \A i \in 1..N : more[i] = dds[i]
  OBVIOUS
<1>2. /\ Accepted(dds) = s[N] /\ s[0] = <<>>
      /\ \A i \in 0..N - 1 : s[i + 1] = Keep(s[i], dds[i + 1])
  BY AcceptedEquations
<1>3. /\ Accepted(more) = t[N + 1] /\ t[0] = <<>>
      /\ \A i \in 0..N : t[i + 1] = Keep(t[i], more[i + 1])
  <2>1. /\ Accepted(more) = t[Len(more)] /\ t[0] = <<>>
        /\ \A i \in 0..Len(more) - 1 : t[i + 1] = Keep(t[i], more[i + 1])
    <3> HIDE DEF more
    <3> QED
      BY <1>1, AcceptedEquations
  <2>2. Len(more) = N + 1 /\ Len(more) - 1 = N
    BY <1>1
  <2> HIDE DEF more, t, N
  <2> QED
    BY <2>1, <2>2
<1> HIDE DEF s, t, more
<1>4. 0 \in T
  BY <1>2, <1>3
<1>5. ASSUME NEW i \in Nat, i \in T PROVE i + 1 \in T
  <2>1. CASE i + 1 \in 0..N
    <3>1. i \in 0..N - 1 /\ i \in 0..N /\ i + 1 \in 1..N
      BY <1>1, <2>1
    <3>2. t[i + 1] = Keep(t[i], dds[i + 1]) /\ s[i + 1] = Keep(s[i], dds[i + 1])
      BY <1>1, <1>2, <1>3, <3>1
    <3>3. t[i] = s[i]
      BY <1>5, <3>1
    <3> QED
      BY <3>2, <3>3
  <2> QED
    BY <2>1
<1>6. Nat \subseteq T
  <2> HIDE DEF T
  <2> QED
    BY <1>4, <1>5, SetInduction
<1>7. N \in 0..N /\ t[N] = s[N]
  BY <1>1, <1>6
<1> QED
  BY <1>1, <1>2, <1>3, <1>7 DEF more

LEMMA FirstFailureValue ==
  ASSUME written \in Seq(Descriptors)
  PROVE  /\ FirstFailure = 0 => \A i \in 1..Len(written) : WithinCaps(written[i])
         /\ FirstFailure # 0 =>
              /\ FirstFailure \in 1..Len(written) /\ ~WithinCaps(written[FirstFailure])
              /\ \A i \in 1..FirstFailure - 1 : WithinCaps(written[i])
<1> DEFINE I == {i \in 1..Len(written) : ~WithinCaps(written[i])}
<1>1. FirstFailure = IF I # {} THEN Min(I) ELSE 0
  BY DEF FirstFailure, SelectInSeq
<1>2. Len(written) \in Nat
  OBVIOUS
<1>3. CASE I = {}
  <2>1. \A i \in 1..Len(written) : WithinCaps(written[i])
    BY <1>3
  <2> QED
    BY <1>1, <1>3, <2>1
<1>4. CASE I # {}
  <2>1. \A i \in I : i \in Nat /\ i # 0 /\ i \in 1..Len(written) /\ ~WithinCaps(written[i])
    BY <1>2
  <2>2. \A i \in 1..Len(written) : WithinCaps(written[i]) \/ i \in I
    OBVIOUS
  <2> HIDE DEF I
  <2>3. Min(I) \in I /\ \A i \in I : Min(I) <= i
    <3>1. I \subseteq Nat
      BY <2>1
    <3>2. \E x \in I : \A y \in I : x <= y
      BY <1>4, <3>1, LeastOfSet
    <3> QED
      BY <3>2 DEF Min
  <2> DEFINE m == Min(I)
  <2>4. m \in 1..Len(written) /\ ~WithinCaps(written[m]) /\ m # 0 /\ m \in Nat
    BY <2>1, <2>3
  <2>5. \A i \in I : m <= i
    BY <2>3
  <2> HIDE DEF m
  <2>6. ASSUME NEW i \in 1..m - 1 PROVE WithinCaps(written[i])
    <3>1. i \in 1..Len(written) /\ ~(m <= i)
      BY <1>2, <2>4
    <3> QED
      BY <2>2, <2>5, <3>1
  <2>7. FirstFailure = m
    BY <1>1, <1>4 DEF m
  <2> QED
    BY <2>4, <2>6, <2>7
<1> QED
  BY <1>3, <1>4

LEMMA UndisturbedPrefix ==
  ASSUME written \in Seq(Descriptors), form \in {"bare", "wrapped"}
  PROVE  /\ Expected \in Seq(Descriptors) /\ Len(Expected) \in Nat
         /\ Len(Undisturbed) \in Nat /\ Len(Undisturbed) <= Len(Expected)
         /\ DOMAIN Undisturbed = 1..Len(Undisturbed)
         /\ \A i \in 1..Len(Undisturbed) :
              Undisturbed[i] = Expected[i] /\ WithinCaps(Expected[i])
         /\ Clean => Len(Undisturbed) = Len(Expected)
         /\ ~Clean =>
              /\ form = "bare" /\ Expected = written
              /\ FirstFailure \in 1..Len(written)
              /\ Len(Undisturbed) = FirstFailure - 1
              /\ ~WithinCaps(Expected[FirstFailure])
<1>1. CASE form = "wrapped"
  <2>1. Expected = Accepted(written) /\ Undisturbed = Accepted(written) /\ Clean
    BY <1>1 DEF Expected, Undisturbed, Clean
  <2> QED
    BY <2>1, AcceptedTyped
<1>2. CASE form = "bare" /\ FirstFailure = 0
  <2>1. Expected = written /\ Undisturbed = written /\ Clean
    BY <1>2 DEF Expected, Undisturbed, Clean
  <2>2. \A i \in 1..Len(written) : WithinCaps(written[i])
    BY <1>2, FirstFailureValue
  <2> QED
    BY <2>1, <2>2
<1>3. CASE form = "bare" /\ FirstFailure # 0
  <2> DEFINE m == FirstFailure
  <2>1. /\ Expected = written /\ Undisturbed = SubSeq(written, 0 + 1, m - 1)
        /\ ~Clean
    <3>1. form = "bare" /\ form # "wrapped" /\ FirstFailure # 0
      BY <1>3
    <3>2. Undisturbed = SubSeq(written, 1, FirstFailure - 1)
      BY <3>1 DEF Undisturbed
    <3>3. 0 + 1 = 1
      OBVIOUS
    <3>4. Expected = written /\ ~Clean
      BY <3>1 DEF Expected, Clean
    <3> QED
      BY <3>2, <3>3, <3>4
  <2>2. /\ m \in 1..Len(written) /\ ~WithinCaps(written[m])
        /\ \A i \in 1..m - 1 : WithinCaps(written[i])
    BY <1>3, FirstFailureValue
  <2> HIDE DEF m
  <2>3. 0 \in 0..Len(written) /\ m - 1 \in 0..Len(written) /\ (m - 1) - 0 = m - 1
    BY <2>2
  <2> DEFINE u == SubSeq(written, 0 + 1, m - 1)
  <2>4. /\ u \in Seq(Descriptors) /\ Len(u) = m - 1
        /\ \A i \in 1..m - 1 : u[i] = written[0 + i]
    BY <2>3, Slice
  <2> HIDE DEF u
  <2>5. \A i \in 1..m - 1 : 0 + i = i
    BY <2>2
  <2>6. \A i \in 1..Len(u) : u[i] = written[i] /\ WithinCaps(written[i])
    BY <2>2, <2>4, <2>5
  <2>7. DOMAIN u = 1..Len(u) /\ Len(u) \in Nat /\ Len(u) <= Len(written)
    BY <2>2, <2>4
  <2>8. Undisturbed = u
    BY <2>1 DEF u
  <2> QED
    BY <1>3, <2>1, <2>2, <2>4, <2>6, <2>7, <2>8 DEF m
<1> QED
  BY <1>1, <1>2, <1>3

(* Where the pieces of something joined stand.                             *)
LEMMA JoinedBytes ==
  ASSUME NEW ss \in Seq(Bytes)
  PROVE  /\ Len(ss) \in Nat
         /\ Joined(ss)[0] = <<>> /\ FlattenSeq(ss) = Joined(ss)[Len(ss)]
         /\ \A i \in 0..Len(ss) - 1 : Joined(ss)[i + 1] = Joined(ss)[i] \o ss[i + 1]
         /\ \A i \in 0..Len(ss) : Joined(ss)[i] \in Bytes
         /\ FlattenSeq(ss) \in Bytes
<1>1. ss \in Seq(Seq(0..Radix - 1)) /\ Len(ss) \in Nat
  BY DEF Bytes
<1>2. /\ Joined(ss)[0] = <<>> /\ FlattenSeq(ss) = Joined(ss)[Len(ss)]
      /\ \A i \in 0..Len(ss) - 1 : Joined(ss)[i + 1] = Joined(ss)[i] \o ss[i + 1]
      /\ \A i \in 0..Len(ss) : Joined(ss)[i] \in Seq(0..Radix - 1)
  BY <1>1, JoinedEquations
<1>3. Len(ss) \in 0..Len(ss)
  BY <1>1
<1> QED
  BY <1>1, <1>2, <1>3 DEF Bytes

LEMMA HoldsJoined ==
  ASSUME buf \in Bytes, NEW ss \in Seq(Bytes), NEW at \in Nat, Holds(at, FlattenSeq(ss)),
         NEW k \in 0..Len(ss) - 1
  PROVE  /\ Joined(ss)[k] \in Bytes /\ Joined(ss)[k + 1] \in Bytes
         /\ Len(Joined(ss)[k + 1]) = Len(Joined(ss)[k]) + Len(ss[k + 1])
         /\ Holds(at + Len(Joined(ss)[k]), ss[k + 1])
<1> DEFINE J == Joined(ss)
           all == FlattenSeq(ss)
           s == ss[k + 1]
<1>1. ss \in Seq(Seq(0..Radix - 1))
  BY DEF Bytes
<1>2. /\ k \in 0..Len(ss) /\ k < Len(ss) /\ k + 1 \in 0..Len(ss) /\ k + 1 \in 1..Len(ss)
      /\ Len(ss) \in Nat
  OBVIOUS
<1>3. J[k] \in Bytes /\ J[k + 1] \in Bytes /\ s \in Bytes /\ J[k + 1] = J[k] \o s
  <2>1. s \in Bytes
    BY <1>2
  <2>2. J[k + 1] = J[k] \o s
    BY JoinedBytes
  <2>3. J[k] \in Bytes /\ J[k + 1] \in Bytes
    BY <1>2, JoinedBytes
  <2> QED
    BY <2>1, <2>2, <2>3
<1>4. /\ Len(J[k]) + Len(s) <= Len(all)
      /\ \A i \in 1..Len(s) : all[Len(J[k]) + i] = s[i]
  BY <1>1, <1>2, JoinedPlaces
<1>5. all \in Bytes
  BY JoinedBytes
<1> DEFINE j == J[k]
<1>6. \A i \in 1..Len(all) : at + i <= Len(buf) => buf[at + i] = all[i]
  BY DEF Holds
<1>7. Len(j \o s) = Len(j) + Len(s) /\ Len(j) \in Nat /\ Len(s) \in Nat
  <2> HIDE DEF J, s, all
  <2> QED
    BY <1>3, Joining
<1>8. Len(all) \in Nat /\ Len(buf) \in Nat
  BY <1>5 DEF Bytes
<1> HIDE DEF J, s, all, j
<1>9. ASSUME NEW i \in 1..Len(s), (at + Len(j)) + i <= Len(buf)
      PROVE  buf[(at + Len(j)) + i] = s[i]
  <2>1. /\ Len(j) + i \in 1..Len(all) /\ at + (Len(j) + i) = (at + Len(j)) + i
        /\ at + (Len(j) + i) <= Len(buf)
    <3>1. Len(j) + Len(s) <= Len(all)
      BY <1>4 DEF j
    <3> QED
      BY <1>7, <1>8, <1>9, <3>1
  <2>2. buf[at + (Len(j) + i)] = all[Len(j) + i]
    BY <1>6, <2>1
  <2>3. all[Len(j) + i] = s[i]
    BY <1>4 DEF j
  <2> QED
    BY <2>1, <2>2, <2>3
<1>10. Holds(at + Len(j), s)
  BY <1>9 DEF Holds
<1> QED
  BY <1>3, <1>7, <1>10 DEF J, s, j

LEMMA CodesTyped ==
  ASSUME Expected \in Seq(Descriptors)
  PROVE  /\ Codes \in Seq(Bytes) /\ Len(Codes) = Len(Expected) /\ Len(Expected) \in Nat
         /\ \A k \in 1..Len(Expected) :
              /\ Expected[k] \in Descriptors /\ Codes[k] = Code(Expected[k])
              /\ Code(Expected[k]) \in Bytes
         /\ Whole \in Bytes /\ Len(Whole) \in Nat
<1>1. DOMAIN Expected = 1..Len(Expected) /\ Len(Expected) \in Nat
  OBVIOUS
<1>2. \A k \in 1..Len(Expected) : Expected[k] \in Descriptors
  OBVIOUS
<1>3. \A k \in 1..Len(Expected) : Code(Expected[k]) \in Bytes
  BY <1>2, CodeTyped
<1>4. Codes = [k \in 1..Len(Expected) |-> Code(Expected[k])]
  BY <1>1 DEF Codes
<1>5. Codes \in [1..Len(Expected) -> Bytes]
  BY <1>3, <1>4
<1>6. Codes \in Seq(Bytes) /\ Len(Codes) = Len(Expected)
  BY <1>1, <1>5, SequenceOfFunction
<1>7. Whole \in Bytes
  BY <1>6, JoinedBytes DEF Whole
<1>8. Len(Whole) \in Nat
  BY <1>7 DEF Bytes
<1> QED
  BY <1>1, <1>2, <1>3, <1>4, <1>6, <1>7, <1>8

(* Where the codes stand in the buffer, and the fields in a code.          *)
LEMMA BufferTyped ==
  ASSUME TypeOK
  PROVE  /\ buf \in Bytes /\ Len(buf) \in Nat /\ cursor \in 0..Len(buf) /\ cursor \in Nat
         /\ written \in Seq(Descriptors) /\ form \in {"bare", "wrapped"}
         /\ got \in Seq(Parsed) /\ Len(got) \in Nat
<1>1. buf \in Bytes /\ written \in Seq(Descriptors) /\ got \in Seq(Parsed)
  BY DEF TypeOK, Bytes
<1>2. Len(buf) \in Nat /\ Len(got) \in Nat
  BY <1>1 DEF Bytes
<1>3. cursor \in 0..Len(buf) /\ form \in {"bare", "wrapped"}
  BY DEF TypeOK
<1> QED
  BY <1>1, <1>2, <1>3

LEMMA Places ==
  ASSUME TypeOK, BufferInv
  PROVE  /\ Start(0) = 0 /\ Start(Len(Expected)) = Len(Whole) /\ Len(Whole) \in Nat
         /\ \A k \in 0..Len(Expected) : Start(k) \in Nat /\ Start(k) <= Len(Whole)
         /\ \A k \in 0..Len(Expected) - 1 :
              /\ Expected[k + 1] \in Descriptors
              /\ Start(k + 1) = Start(k) + Len(Code(Expected[k + 1]))
              /\ Start(k) < Start(k + 1)
              /\ Holds(Start(k), Code(Expected[k + 1]))
<1>1. /\ Expected \in Seq(Descriptors) /\ Len(Expected) \in Nat
      /\ Codes \in Seq(Bytes) /\ Len(Codes) = Len(Expected)
      /\ Whole \in Bytes /\ Len(Whole) \in Nat
      /\ \A k \in 1..Len(Expected) :
           Expected[k] \in Descriptors /\ Codes[k] = Code(Expected[k])
  BY BufferTyped, UndisturbedPrefix, CodesTyped
<1>2. buf \in Bytes
  BY BufferTyped
<1>3. Start(0) = 0
  <2>1. Joined(Codes)[0] = <<>>
    BY <1>1, JoinedBytes
  <2> QED
    BY <2>1 DEF Start
<1>4. Start(Len(Expected)) = Len(Whole)
  <2>1. Whole = Joined(Codes)[Len(Codes)]
    BY <1>1, JoinedBytes DEF Whole
  <2> QED
    BY <1>1, <2>1 DEF Start
<1>5. ASSUME NEW k \in 0..Len(Expected) PROVE Start(k) \in Nat /\ Start(k) <= Len(Whole)
  <2>1. Codes \in Seq(Seq(0..Radix - 1)) /\ k \in 0..Len(Codes)
    BY <1>1 DEF Bytes
  <2>2. Len(Joined(Codes)[k]) <= Len(Whole) /\ Joined(Codes)[k] \in Seq(0..Radix - 1)
    BY <2>1, JoinedPlaces DEF Whole
  <2> QED
    BY <2>2 DEF Start
<1>6. Holds(0, FlattenSeq(Codes))
  <2>1. \A i \in 1..Len(Whole) : 0 + i <= Len(buf) => buf[0 + i] = Whole[i]
    <3>1. \A i \in 1..Len(buf) : buf[i] = Whole[i]
      BY DEF BufferInv
    <3>2. Len(buf) \in Nat
      BY BufferTyped
    <3> QED
      BY <1>1, <3>1, <3>2
  <2> QED
    BY <2>1 DEF Holds, Whole
<1>7. ASSUME NEW k \in 0..Len(Expected) - 1
      PROVE  /\ Expected[k + 1] \in Descriptors
             /\ Start(k + 1) = Start(k) + Len(Code(Expected[k + 1]))
             /\ Start(k) < Start(k + 1)
             /\ Holds(Start(k), Code(Expected[k + 1]))
  <2>1. k + 1 \in 1..Len(Expected) /\ k \in 0..Len(Codes) - 1 /\ k \in 0..Len(Expected)
    BY <1>1
  <2>2. Expected[k + 1] \in Descriptors /\ Codes[k + 1] = Code(Expected[k + 1])
    BY <1>1, <2>1
  <2>3. /\ Len(Joined(Codes)[k + 1]) = Len(Joined(Codes)[k]) + Len(Codes[k + 1])
        /\ Holds(0 + Len(Joined(Codes)[k]), Codes[k + 1])
    BY <1>1, <1>2, <1>6, <2>1, HoldsJoined
  <2>4. 0 + Start(k) = Start(k) /\ Start(k) \in Nat
    BY <1>5, <2>1
  <2>5. Start(k + 1) = Start(k) + Len(Code(Expected[k + 1]))
    BY <2>2, <2>3 DEF Start
  <2>6. Holds(Start(k), Code(Expected[k + 1]))
    BY <2>2, <2>3, <2>4 DEF Start
  <2>7. Len(Code(Expected[k + 1])) \in Nat /\ Len(Code(Expected[k + 1])) >= 1
    <3>1. /\ Len(Code(Expected[k + 1])) >= 1 + Len(Preamble(Expected[k + 1]))
          /\ Len(Preamble(Expected[k + 1])) \in Nat /\ Len(Code(Expected[k + 1])) \in Nat
      BY <2>2, CodeTyped
    <3> QED
      BY <3>1
  <2> QED
    BY <2>2, <2>4, <2>5, <2>6, <2>7
<1> QED
  BY <1>1, <1>3, <1>4, <1>5, <1>7

LEMMA CodePlaces ==
  ASSUME buf \in Bytes, NEW dd \in Descriptors, NEW at \in Nat, Holds(at, Code(dd))
  PROVE  /\ Len(Preamble(dd)) \in Nat /\ Len(HeadCode(dd)) \in Nat
         /\ Holds(at, Preamble(dd))
         /\ Holds(at + Len(Preamble(dd)), HeadCode(dd))
         /\ Holds((at + Len(Preamble(dd))) + Len(HeadCode(dd)), FlattenSeq(Pieces(dd)))
<1> DEFINE p == Preamble(dd)
           h == HeadCode(dd)
           b == FlattenSeq(Pieces(dd))
<1>1. p \in Bytes /\ h \in Bytes /\ b \in Bytes /\ Code(dd) = p \o (h \o b)
  BY PreambleTyped, HeadTyped, AppendedTyped DEF Code
<1> HIDE DEF p, h, b
<1>2. h \o b \in Bytes /\ Len(p) \in Nat /\ Len(h) \in Nat /\ at + Len(p) \in Nat
  <2>1. h \o b \in Bytes /\ Len(h) \in Nat
    BY <1>1, Joining
  <2>2. Len(p) \in Nat
    BY <1>1 DEF Bytes
  <2> QED
    BY <2>1, <2>2
<1>3. Holds(at, p) /\ Holds(at + Len(p), h \o b)
  BY <1>1, <1>2, HoldsSplit
<1>4. Holds(at + Len(p), h) /\ Holds((at + Len(p)) + Len(h), b)
  BY <1>1, <1>2, <1>3, HoldsSplit
<1> QED
  BY <1>2, <1>3, <1>4 DEF p, h, b

LEMMA FieldPlaces ==
  ASSUME NEW dd \in Descriptors
  PROVE  /\ FieldAt(dd, 0) = Len(Preamble(dd)) + Len(HeadCode(dd))
         /\ FieldAt(dd, Len(Pieces(dd))) = Len(Code(dd))
         /\ \A j \in 0..Len(Pieces(dd)) :
              FieldAt(dd, j) \in Nat /\ FieldAt(dd, j) <= Len(Code(dd))
<1> DEFINE J == Joined(Pieces(dd))
           L == Len(Pieces(dd))
<1>1. /\ Pieces(dd) \in Seq(Bytes) /\ L \in Nat
      /\ J[0] = <<>> /\ FlattenSeq(Pieces(dd)) = J[L]
      /\ \A j \in 0..L : J[j] \in Bytes
  BY PiecesTyped, JoinedBytes
<1>2. /\ Len(Code(dd)) = Len(Preamble(dd)) + Len(Appended(dd))
      /\ Len(Appended(dd)) = Len(HeadCode(dd)) + Len(J[L])
      /\ Len(Preamble(dd)) \in Nat /\ Len(HeadCode(dd)) \in Nat
  <2>1. HeadCode(dd) \in Bytes /\ Len(Appended(dd)) = Len(HeadCode(dd)) + Len(J[L])
    BY <1>1, HeadTyped, AppendedTyped
  <2>2. Len(HeadCode(dd)) \in Nat
    BY <2>1 DEF Bytes
  <2> QED
    BY <2>1, <2>2, CodeTyped
<1>3. \A j \in 0..L : Len(J[j]) \in Nat
  BY <1>1 DEF Bytes
<1>4. /\ L \in 0..L /\ 0 \in 0..L /\ Len(J[0]) = 0
      /\ \A j \in 0..L : Len(J[j]) <= Len(J[L])
  <2>1. Pieces(dd) \in Seq(Seq(0..Radix - 1))
    BY <1>1 DEF Bytes
  <2>2. \A j \in 0..L : Len(J[j]) <= Len(FlattenSeq(Pieces(dd)))
    BY <2>1, JoinedPlaces
  <2> QED
    BY <1>1, <2>2
<1> DEFINE Reach(j) == Len(J[j])
<1>5. \A j \in 0..L : FieldAt(dd, j) = Len(Preamble(dd)) + Len(HeadCode(dd)) + Reach(j)
  BY DEF FieldAt
<1>6. /\ Len(Code(dd)) = Len(Preamble(dd)) + Len(Appended(dd))
      /\ Len(Appended(dd)) = Len(HeadCode(dd)) + Reach(L) /\ Reach(0) = 0
      /\ Len(Preamble(dd)) \in Nat /\ Len(HeadCode(dd)) \in Nat
      /\ L \in 0..L /\ 0 \in 0..L
      /\ \A j \in 0..L : Reach(j) \in Nat /\ Reach(j) <= Reach(L)
  BY <1>2, <1>3, <1>4
<1> HIDE DEF J, L, Reach
<1>7. FieldAt(dd, 0) = Len(Preamble(dd)) + Len(HeadCode(dd))
  BY <1>5, <1>6
<1>8. FieldAt(dd, L) = Len(Code(dd))
  BY <1>5, <1>6
<1>9. ASSUME NEW j \in 0..L
      PROVE  FieldAt(dd, j) \in Nat /\ FieldAt(dd, j) <= Len(Code(dd))
  <2>1. /\ FieldAt(dd, j) = Len(Preamble(dd)) + Len(HeadCode(dd)) + Reach(j)
        /\ Reach(j) \in Nat /\ Reach(L) \in Nat /\ Reach(j) <= Reach(L)
    BY <1>5, <1>6
  <2>2. /\ Len(Code(dd)) = Len(Preamble(dd)) + (Len(HeadCode(dd)) + Reach(L))
        /\ Len(Preamble(dd)) \in Nat /\ Len(HeadCode(dd)) \in Nat
    BY <1>6
  <2> QED
    BY <2>1, <2>2
<1> QED
  BY <1>7, <1>8, <1>9 DEF L

LEMMA PiecePlaces ==
  ASSUME buf \in Bytes, NEW dd \in Descriptors, NEW at \in Nat, Holds(at, Code(dd)),
         NEW j \in 1..Len(Pieces(dd))
  PROVE  /\ Holds(at + FieldAt(dd, j - 1), Pieces(dd)[j])
         /\ FieldAt(dd, j) = FieldAt(dd, j - 1) + Len(Pieces(dd)[j])
         /\ FieldAt(dd, j - 1) \in Nat /\ FieldAt(dd, j) \in Nat
         /\ Len(Pieces(dd)[j]) \in Nat
<1> DEFINE J == Joined(Pieces(dd))
           p == Len(Preamble(dd))
           h == Len(HeadCode(dd))
           s == Pieces(dd)[j]
<1>1. /\ Pieces(dd) \in Seq(Bytes) /\ Len(Pieces(dd)) \in Nat
      /\ j - 1 \in 0..Len(Pieces(dd)) - 1 /\ (j - 1) + 1 = j
      /\ j \in 0..Len(Pieces(dd)) /\ j - 1 \in 0..Len(Pieces(dd))
  BY PiecesTyped
<1>2. p \in Nat /\ h \in Nat /\ Holds((at + p) + h, FlattenSeq(Pieces(dd)))
  BY CodePlaces
<1>3. (at + p) + h \in Nat
  BY <1>2
<1>4. /\ J[j - 1] \in Bytes /\ J[(j - 1) + 1] \in Bytes
      /\ Len(J[(j - 1) + 1]) = Len(J[j - 1]) + Len(Pieces(dd)[(j - 1) + 1])
      /\ Holds(((at + p) + h) + Len(J[j - 1]), Pieces(dd)[(j - 1) + 1])
  <2> HIDE DEF p, h
  <2> QED
    BY <1>1, <1>2, <1>3, HoldsJoined
<1>5. /\ Len(J[j - 1]) \in Nat /\ Len(J[j]) \in Nat /\ Len(s) \in Nat
      /\ Len(J[j]) = Len(J[j - 1]) + Len(s)
      /\ Holds(((at + p) + h) + Len(J[j - 1]), s)
  <2>1. Len(J[j - 1]) \in Nat /\ Len(J[j]) \in Nat
    BY <1>1, <1>4 DEF Bytes
  <2>2. Len(s) \in Nat
    BY <1>1 DEF Bytes
  <2> QED
    BY <1>1, <1>4, <2>1, <2>2
<1> DEFINE a == Len(J[j - 1])
           b == Len(J[j])
<1>6. FieldAt(dd, j) = p + h + b /\ FieldAt(dd, j - 1) = p + h + a
  BY DEF FieldAt
<1>7. a \in Nat /\ b \in Nat /\ Len(s) \in Nat /\ b = a + Len(s) /\ Holds(((at + p) + h) + a, s)
  BY <1>5
<1> HIDE DEF J, p, h, s, a, b
<1>8. ((at + p) + h) + a = at + FieldAt(dd, j - 1)
  BY <1>2, <1>6, <1>7
<1>9. /\ FieldAt(dd, j) = FieldAt(dd, j - 1) + Len(s)
      /\ FieldAt(dd, j - 1) \in Nat /\ FieldAt(dd, j) \in Nat
  BY <1>2, <1>6, <1>7
<1>10. Holds(at + FieldAt(dd, j - 1), s)
  BY <1>8, <1>7
<1> QED
  BY <1>9, <1>10, <1>7 DEF s

-----------------------------------------------------------------------------
(* What a reader's step leaves as it was.                                  *)

LEMMA Steady ==
  ASSUME form' = form, written' = written
  PROVE  /\ Expected' = Expected /\ Undisturbed' = Undisturbed /\ Whole' = Whole
         /\ FirstFailure' = FirstFailure /\ Clean' = Clean /\ FailsLast' = FailsLast
         /\ \A dd : Preamble(dd)' = Preamble(dd)
         /\ \A dd : \A j : FieldAt(dd, j)' = FieldAt(dd, j)
         /\ \A k : Start(k)' = Start(k)
<1>1. FirstFailure' = FirstFailure
  BY DEF FirstFailure, SelectInSeq
<1>2. Expected' = Expected
  BY DEF Expected
<1>3. Undisturbed' = Undisturbed
  BY <1>1 DEF Undisturbed
<1>4. Clean' = Clean
  BY <1>1 DEF Clean
<1>5. FailsLast' = FailsLast
  BY <1>1, <1>4 DEF FailsLast
<1>6. \A dd : Preamble(dd)' = Preamble(dd)
  BY DEF Preamble
<1>7. \A dd : \A j : FieldAt(dd, j)' = FieldAt(dd, j)
  BY <1>6 DEF FieldAt
<1>8. \A dd : Code(dd)' = Code(dd)
  BY <1>6 DEF Code
<1>9. Codes' = Codes
  BY <1>2, <1>8 DEF Codes
<1>10. Whole' = Whole
  BY <1>9 DEF Whole
<1>11. \A k : Start(k)' = Start(k)
  BY <1>9 DEF Start
<1> QED
  BY <1>1, <1>2, <1>3, <1>4, <1>5, <1>6, <1>7, <1>10, <1>11

LEMMA StandingAt ==
  ASSUME form' = form, written' = written, NEW k
  PROVE  /\ part' # None =>
              (Standing(k)' <=>
                 /\ k < Len(Expected)
                 /\ end' = IF form = "wrapped" THEN Start(k + 1) ELSE None
                 /\ FailsLast => place' - 1 <= Len(Pieces(Expected[k + 1]))
                 /\ place' - 1 <= Len(Pieces(Expected[k + 1])) =>
                      /\ part' = PartOf(Expected[k + 1], place' - 1)
                      /\ cursor' = Start(k) + FieldAt(Expected[k + 1], place' - 1))
         /\ part' = None /\ end' # None =>
              (Standing(k)' <=>
                 /\ k < Len(Expected) /\ form = "wrapped"
                 /\ cursor' = Start(k) + Len(Preamble(Expected[k + 1]))
                 /\ end' = Start(k + 1))
         /\ part' = None /\ end' = None => (Standing(k)' <=> cursor' = Start(k))
<1>1. CASE part' # None
  <2>1. Standing(k)' <=> InDescriptor(k)'
    BY <1>1 DEF Standing
  <2>2. InDescriptor(k)' <=>
          /\ k < Len(Expected)
          /\ end' = IF form = "wrapped" THEN Start(k + 1) ELSE None
          /\ FailsLast => place' - 1 <= Len(Pieces(Expected[k + 1]))
          /\ place' - 1 <= Len(Pieces(Expected[k + 1])) => AtField(k)'
    BY Steady DEF InDescriptor
  <2>3. AtField(k)' <=>
          /\ part' = PartOf(Expected[k + 1], place' - 1)
          /\ cursor' = Start(k) + FieldAt(Expected[k + 1], place' - 1)
    BY Steady DEF AtField
  <2> QED
    BY <1>1, <2>1, <2>2, <2>3
<1>2. CASE part' = None /\ end' # None
  <2>1. Standing(k)' <=> InWrapper(k)'
    BY <1>2 DEF Standing
  <2>2. InWrapper(k)' <=>
          /\ k < Len(Expected) /\ form = "wrapped"
          /\ cursor' = Start(k) + Len(Preamble(Expected[k + 1]))
          /\ end' = Start(k + 1)
    BY Steady DEF InWrapper
  <2> QED
    BY <1>2, <2>1, <2>2
<1>3. CASE part' = None /\ end' = None
  <2>1. Standing(k)' <=> cursor' = Start(k)'
    BY <1>3 DEF Standing
  <2> QED
    BY <1>3, <2>1, Steady
<1> QED
  BY <1>1, <1>2, <1>3

-----------------------------------------------------------------------------
(* The three things a reader's step reads: what it gets from any bytes, and *)
(* from those of a descriptor.                                             *)

WrapperRead(at) == Then(Then(BytesAt(at, KeyBytes), VarIntAt), CompactSizeAt)

FlagsRead(at) == Then(VarIntAt(at), VarIntAt)

FieldRead(at, j) == IF Layout[j] = "vdxf_key" THEN BytesAt(at, KeyBytes) ELSE VarBytesAt(at)

LEMMA WrapperTyped ==
  ASSUME buf \in Bytes, NEW at \in 0..Len(buf), WrapperRead(at) # None
  PROVE  WrapperRead(at).value \in Nat /\ WrapperRead(at).next \in at..Len(buf)
<1> DEFINE key == BytesAt(at, KeyBytes)
           version == Then(key, VarIntAt)
<1>1. /\ version = IF key = None THEN None ELSE VarIntAt(key.next)
      /\ WrapperRead(at) = IF version = None THEN None ELSE CompactSizeAt(version.next)
  BY DEF Then, WrapperRead
<1> HIDE DEF version
<1>2. Len(buf) \in Nat /\ at \in Nat /\ KeyBytes \in Nat
  BY ConstantFacts DEF Bytes
<1>3. key # None /\ version # None
  BY <1>1
<1>4. key.next \in at..Len(buf)
  <2>1. at + KeyBytes <= Len(buf)
    BY <1>2, <1>3, BytesTyped
  <2> QED
    BY <1>2, <2>1, BytesTyped
<1> HIDE DEF key
<1>5. key.next \in 0..Len(buf) /\ version = VarIntAt(key.next)
  BY <1>1, <1>2, <1>3, <1>4
<1>6. version.next \in key.next..Len(buf)
  BY <1>3, <1>5, VarIntTyped
<1>7. version.next \in 0..Len(buf) /\ WrapperRead(at) = CompactSizeAt(version.next)
  BY <1>1, <1>2, <1>3, <1>5, <1>6
<1>8. /\ WrapperRead(at).value \in 0..MaxSize
      /\ WrapperRead(at).next \in version.next..Len(buf)
  BY <1>7, CompactTyped
<1> QED
  BY <1>2, <1>4, <1>5, <1>6, <1>7, <1>8, ConstantFacts

LEMMA WrapperHeld ==
  ASSUME buf \in Bytes, NEW at \in 0..Len(buf), NEW dd \in Descriptors,
         form = "wrapped", Holds(at, Preamble(dd))
  PROVE  /\ at + Len(Preamble(dd)) <= Len(buf) =>
              /\ WrapperRead(at) # None
              /\ WrapperRead(at).value = Len(Appended(dd))
              /\ WrapperRead(at).next = at + Len(Preamble(dd))
         /\ at + Len(Preamble(dd)) > Len(buf) => WrapperRead(at) = None
<1> DEFINE key == BytesAt(at, KeyBytes)
           version == Then(key, VarIntAt)
           v == WriteVarInt(1)
           c == WriteCompactSize(Len(Appended(dd)))
           K == DATA_DESCRIPTOR_KEY
<1>1. /\ version = IF key = None THEN None ELSE VarIntAt(key.next)
      /\ WrapperRead(at) = IF version = None THEN None ELSE CompactSizeAt(version.next)
  BY DEF Then, WrapperRead
<1>2. /\ Preamble(dd) = K \o (v \o c) /\ K \in Bytes /\ v \in Bytes /\ c \in Bytes
      /\ Len(K) = KeyBytes /\ 1 \in 0..MaxU64 /\ Len(Appended(dd)) \in 0..MaxSize
  BY PreambleTyped, KeyTyped
<1> HIDE DEF K, v, c, version
<1>3. /\ v \o c \in Bytes /\ Len(v \o c) = Len(v) + Len(c)
      /\ Len(K) \in Nat /\ Len(v) \in Nat /\ Len(c) \in Nat
      /\ Len(K \o (v \o c)) = Len(K) + Len(v \o c)
  BY <1>2, Joining
<1>4. /\ Len(buf) \in Nat /\ at \in Nat /\ at <= Len(buf)
      /\ Len(Preamble(dd)) = Len(K) + (Len(v) + Len(c))
  <2>1. Len(buf) \in Nat
    BY DEF Bytes
  <2> QED
    BY <1>2, <1>3, <2>1
<1>5. Holds(at, K) /\ Holds(at + Len(K), v) /\ Holds((at + Len(K)) + Len(v), c)
  <2>1. Holds(at, K) /\ Holds(at + Len(K), v \o c)
    <3>1. Holds(at, K \o (v \o c)) /\ K \in Bytes /\ v \o c \in Bytes /\ at \in Nat
      BY <1>2, <1>3, <1>4
    <3> QED
      BY <3>1, HoldsSplit
  <2>2. at + Len(K) \in Nat
    BY <1>3, <1>4
  <2> QED
    BY <1>2, <2>1, <2>2, HoldsSplit
<1>6. /\ at + Len(K) <= Len(buf) => key # None /\ key.next = at + Len(K)
      /\ at + Len(K) > Len(buf) => key = None
  BY <1>2, <1>5, BytesHeld
<1> HIDE DEF key
<1>7. CASE at + Len(K) > Len(buf)
  <2>1. WrapperRead(at) = None
    BY <1>1, <1>6, <1>7
  <2>2. ~(at + Len(Preamble(dd)) <= Len(buf))
    BY <1>3, <1>4, <1>7
  <2> QED
    BY <2>1, <2>2
<1>8. CASE at + Len(K) <= Len(buf)
  <2> DEFINE b == at + Len(K)
  <2>1. b \in 0..Len(buf) /\ b \in Nat /\ version = VarIntAt(b) /\ Holds(b, v)
    BY <1>1, <1>3, <1>4, <1>5, <1>6, <1>8
  <2> HIDE DEF b
  <2>2. /\ b + Len(v) <= Len(buf) => version # None /\ version.next = b + Len(v)
        /\ b + Len(v) > Len(buf) => version = None
    BY <1>2, <2>1, VarIntHeld DEF v
  <2>3. at + Len(Preamble(dd)) = (b + Len(v)) + Len(c)
    BY <1>3, <1>4 DEF b
  <2>4. CASE b + Len(v) > Len(buf)
    <3>1. WrapperRead(at) = None
      BY <1>1, <2>2, <2>4
    <3>2. ~(at + Len(Preamble(dd)) <= Len(buf))
      BY <1>3, <1>4, <2>1, <2>3, <2>4
    <3> QED
      BY <3>1, <3>2
  <2>5. CASE b + Len(v) <= Len(buf)
    <3> DEFINE e == b + Len(v)
    <3>1. e \in 0..Len(buf) /\ WrapperRead(at) = CompactSizeAt(e) /\ Holds(e, c)
      BY <1>1, <1>3, <1>4, <1>5, <2>1, <2>2, <2>5 DEF b
    <3> HIDE DEF e
    <3>2. /\ e + Len(c) <= Len(buf) =>
               /\ WrapperRead(at) # None
               /\ WrapperRead(at).value = Len(Appended(dd))
               /\ WrapperRead(at).next = e + Len(c)
          /\ e + Len(c) > Len(buf) => WrapperRead(at) = None
      BY <1>2, <3>1, CompactHeld DEF c
    <3>3. e + Len(c) = at + Len(Preamble(dd))
      BY <2>3 DEF e
    <3> QED
      BY <3>2, <3>3
  <2> QED
    BY <1>3, <1>4, <2>1, <2>4, <2>5
<1> QED
  BY <1>3, <1>4, <1>7, <1>8

LEMMA FlagsTyped ==
  ASSUME buf \in Bytes, NEW at \in 0..Len(buf), FlagsRead(at) # None
  PROVE  /\ VarIntAt(at).value \in Nat /\ FlagsRead(at).value \in Nat
         /\ FlagsRead(at).next \in at..Len(buf)
<1> DEFINE version == VarIntAt(at)
<1>1. FlagsRead(at) = IF version = None THEN None ELSE VarIntAt(version.next)
  BY DEF Then, FlagsRead
<1>2. version # None
  BY <1>1
<1>3. version.value \in 0..MaxU64 /\ version.next \in at..Len(buf)
  BY <1>2, VarIntTyped
<1> HIDE DEF version
<1>4. Len(buf) \in Nat /\ at \in Nat /\ version.next \in 0..Len(buf)
  <2>1. Len(buf) \in Nat
    BY DEF Bytes
  <2> QED
    BY <1>3, <2>1
<1>5. FlagsRead(at) = VarIntAt(version.next)
  BY <1>1, <1>2
<1>6. FlagsRead(at).value \in 0..MaxU64 /\ FlagsRead(at).next \in version.next..Len(buf)
  BY <1>4, <1>5, VarIntTyped
<1> QED
  BY <1>3, <1>4, <1>6, ConstantFacts DEF version

LEMMA FlagsHeld ==
  ASSUME buf \in Bytes, NEW at \in 0..Len(buf), NEW dd \in Descriptors,
         Holds(at, HeadCode(dd))
  PROVE  /\ at + Len(HeadCode(dd)) <= Len(buf) =>
              /\ FlagsRead(at) # None /\ VarIntAt(at).value = Version(dd)
              /\ FlagsRead(at).value = CalcFlags(dd)
              /\ FlagsRead(at).next = at + Len(HeadCode(dd))
         /\ at + Len(HeadCode(dd)) > Len(buf) => FlagsRead(at) = None
<1> DEFINE version == VarIntAt(at)
           v == WriteVarInt(Version(dd))
           w == WriteVarInt(CalcFlags(dd))
<1>1. FlagsRead(at) = IF version = None THEN None ELSE VarIntAt(version.next)
  BY DEF Then, FlagsRead
<1>2. /\ HeadCode(dd) = v \o w /\ v \in Bytes /\ w \in Bytes
      /\ Version(dd) \in 0..MaxU64 /\ CalcFlags(dd) \in 0..MaxU64
  BY HeadTyped DEF HeadCode
<1> HIDE DEF v, w
<1>3. /\ Len(v) \in Nat /\ Len(w) \in Nat /\ Len(v \o w) = Len(v) + Len(w)
      /\ Len(buf) \in Nat /\ at \in Nat /\ at <= Len(buf)
  <2>1. Len(buf) \in Nat
    BY DEF Bytes
  <2>2. Len(v) \in Nat /\ Len(w) \in Nat /\ Len(v \o w) = Len(v) + Len(w)
    BY <1>2, Joining
  <2> QED
    BY <2>1, <2>2
<1>4. Holds(at, v) /\ Holds(at + Len(v), w)
  BY <1>2, <1>3, HoldsSplit
<1>5. /\ at + Len(v) <= Len(buf) =>
           version # None /\ version.value = Version(dd) /\ version.next = at + Len(v)
      /\ at + Len(v) > Len(buf) => version = None
  BY <1>2, <1>4, VarIntHeld DEF v
<1> HIDE DEF version
<1>6. at + Len(HeadCode(dd)) = (at + Len(v)) + Len(w)
  BY <1>2, <1>3
<1>7. CASE at + Len(v) > Len(buf)
  <2>1. FlagsRead(at) = None
    BY <1>1, <1>5, <1>7
  <2>2. ~(at + Len(HeadCode(dd)) <= Len(buf))
    BY <1>3, <1>6, <1>7
  <2> QED
    BY <2>1, <2>2
<1>8. CASE at + Len(v) <= Len(buf)
  <2> DEFINE b == at + Len(v)
  <2>1. b \in 0..Len(buf) /\ FlagsRead(at) = VarIntAt(b) /\ Holds(b, w)
    BY <1>1, <1>3, <1>4, <1>5, <1>8
  <2> HIDE DEF b
  <2>2. /\ b + Len(w) <= Len(buf) =>
             /\ FlagsRead(at) # None /\ FlagsRead(at).value = CalcFlags(dd)
             /\ FlagsRead(at).next = b + Len(w)
        /\ b + Len(w) > Len(buf) => FlagsRead(at) = None
    BY <1>2, <2>1, VarIntHeld DEF w
  <2>3. b + Len(w) = at + Len(HeadCode(dd)) /\ VarIntAt(at).value = Version(dd)
    BY <1>5, <1>6, <1>8 DEF b, version
  <2> QED
    BY <2>2, <2>3
<1> QED
  BY <1>3, <1>7, <1>8

LEMMA FieldReadTyped ==
  ASSUME buf \in Bytes, NEW at \in 0..Len(buf), NEW j \in 1..8, FieldRead(at, j) # None
  PROVE  FieldRead(at, j).value \in Bytes /\ FieldRead(at, j).next \in at..Len(buf)
<1>1. CASE Layout[j] = "vdxf_key"
  <2>1. FieldRead(at, j) = BytesAt(at, KeyBytes)
    BY <1>1 DEF FieldRead
  <2>2. KeyBytes \in Nat /\ Len(buf) \in Nat /\ at \in Nat
    BY ConstantFacts DEF Bytes
  <2>3. at + KeyBytes <= Len(buf)
    BY <2>1, <2>2, BytesTyped
  <2> QED
    BY <2>1, <2>2, <2>3, BytesTyped
<1>2. CASE Layout[j] # "vdxf_key"
  <2>1. FieldRead(at, j) = VarBytesAt(at)
    BY <1>2 DEF FieldRead
  <2> QED
    BY <2>1, VarBytesRead
<1> QED
  BY <1>1, <1>2

LEMMA FieldHeld ==
  ASSUME buf \in Bytes, NEW at \in 0..Len(buf), NEW dd \in Descriptors, NEW j \in 1..8,
         Announced(CalcFlags(dd), Layout[j]), Holds(at, Piece(dd, Layout[j]))
  PROVE  /\ at + Len(Piece(dd, Layout[j])) <= Len(buf) =>
              /\ FieldRead(at, j) # None /\ FieldRead(at, j).value = dd[Layout[j]]
              /\ FieldRead(at, j).next = at + Len(Piece(dd, Layout[j]))
         /\ at + Len(Piece(dd, Layout[j])) > Len(buf) => FieldRead(at, j) = None
<1> DEFINE s == dd[Layout[j]]
           p == Piece(dd, Layout[j])
<1>1. s \in ByteStrings /\ (j = 1 => Len(s) = KeyBytes)
  BY AnnouncedField
<1>2. CASE j = 1
  <2>1. p = s /\ FieldRead(at, j) = BytesAt(at, Len(s))
    BY <1>1, <1>2, PieceOf, FieldNames DEF FieldRead
  <2>2. s \in Bytes
    BY <1>1, ByteStringFacts
  <2>3. Holds(at, s)
    BY <2>1
  <2> HIDE DEF s, p
  <2>4. /\ at + Len(s) <= Len(buf) =>
             /\ BytesAt(at, Len(s)) # None
             /\ BytesAt(at, Len(s)).value = s /\ BytesAt(at, Len(s)).next = at + Len(s)
        /\ at + Len(s) > Len(buf) => BytesAt(at, Len(s)) = None
    BY <2>2, <2>3, BytesHeld
  <2>5. /\ at + Len(p) <= Len(buf) =>
             /\ FieldRead(at, j) # None /\ FieldRead(at, j).value = s
             /\ FieldRead(at, j).next = at + Len(p)
        /\ at + Len(p) > Len(buf) => FieldRead(at, j) = None
    BY <2>1, <2>4
  <2> QED
    BY <2>5 DEF s, p
<1>3. CASE j # 1
  <2>1. p = WriteVarBytes(s) /\ FieldRead(at, j) = VarBytesAt(at)
    BY <1>3, PieceOf, FieldNames DEF FieldRead
  <2>2. Holds(at, WriteVarBytes(s))
    BY <2>1
  <2> HIDE DEF s, p
  <2>3. /\ at + Len(WriteVarBytes(s)) <= Len(buf) =>
             /\ VarBytesAt(at) # None
             /\ VarBytesAt(at).value = s
             /\ VarBytesAt(at).next = at + Len(WriteVarBytes(s))
        /\ at + Len(WriteVarBytes(s)) > Len(buf) => VarBytesAt(at) = None
    BY <1>1, <2>2, VarBytesHeld
  <2>4. /\ at + Len(p) <= Len(buf) =>
             /\ FieldRead(at, j) # None /\ FieldRead(at, j).value = s
             /\ FieldRead(at, j).next = at + Len(p)
        /\ at + Len(p) > Len(buf) => FieldRead(at, j) = None
    BY <2>1, <2>3
  <2> QED
    BY <2>4 DEF s, p
<1> QED
  BY <1>2, <1>3

(* No field but the key is found behind the end of the buffer.             *)
LEMMA FieldAtEnd ==
  ASSUME NEW j \in 2..8
  PROVE  FieldRead(Len(buf), j) = None
<1>1. j \in 1..8 /\ j # 1
  OBVIOUS
<1>2. FieldRead(Len(buf), j) = VarBytesAt(Len(buf))
  BY <1>1, FieldNames DEF FieldRead
<1> QED
  BY <1>2, CompactAtEnd DEF VarBytesAt

-----------------------------------------------------------------------------
(* The invariant, action by action.                                        *)

(* The codes the reader stands before or in.                               *)
LEMMA Position ==
  ASSUME Inv, status = "reading", NEW k, k = Len(got), k <= Len(Undisturbed)
  PROVE  /\ k \in Nat /\ k \in 0..Len(Expected) /\ Standing(k)
         /\ Len(Expected) \in Nat /\ Start(k) \in Nat /\ Start(k) <= Len(Whole)
         /\ Len(Whole) \in Nat
         /\ k < Len(Expected) =>
              /\ Expected[k + 1] \in Descriptors
              /\ Start(k + 1) = Start(k) + Len(Code(Expected[k + 1]))
              /\ Start(k + 1) \in Nat /\ Start(k) < Start(k + 1)
              /\ Start(k + 1) <= Len(Whole)
              /\ Holds(Start(k), Code(Expected[k + 1]))
<1>1. k \in Nat /\ written \in Seq(Descriptors) /\ form \in {"bare", "wrapped"}
  BY BufferTyped DEF Inv
<1>2. /\ Len(Undisturbed) \in Nat /\ Len(Undisturbed) <= Len(Expected)
      /\ Len(Expected) \in Nat
  BY <1>1, UndisturbedPrefix
<1>3. k \in 0..Len(Expected) /\ k \in 0..Len(Undisturbed)
  BY <1>1, <1>2
<1>4. Standing(k)
  BY <1>3 DEF Inv, PlaceInv
<1>5. /\ Len(Whole) \in Nat
      /\ \A i \in 0..Len(Expected) : Start(i) \in Nat /\ Start(i) <= Len(Whole)
      /\ \A i \in 0..Len(Expected) - 1 :
           /\ Expected[i + 1] \in Descriptors
           /\ Start(i + 1) = Start(i) + Len(Code(Expected[i + 1]))
           /\ Start(i) < Start(i + 1)
           /\ Holds(Start(i), Code(Expected[i + 1]))
  BY Places DEF Inv
<1>6. k < Len(Expected) => k \in 0..Len(Expected) - 1 /\ k + 1 \in 0..Len(Expected)
  BY <1>1, <1>2
<1> QED
  BY <1>1, <1>2, <1>3, <1>4, <1>5, <1>6

LEMMA UndisturbedTyped ==
  ASSUME TypeOK, NEW i \in DOMAIN Undisturbed
  PROVE  Undisturbed[i] \in Descriptors
<1>1. /\ Expected \in Seq(Descriptors) /\ DOMAIN Undisturbed = 1..Len(Undisturbed)
      /\ Len(Undisturbed) \in Nat /\ Len(Undisturbed) <= Len(Expected)
      /\ Len(Expected) \in Nat
      /\ \A m \in 1..Len(Undisturbed) : Undisturbed[m] = Expected[m]
  BY BufferTyped, UndisturbedPrefix
<1>2. i \in 1..Len(Undisturbed) /\ i \in 1..Len(Expected)
  BY <1>1
<1> QED
  BY <1>1, <1>2

(* What a step of the reader still has to show.                            *)
LEMMA ReaderStep ==
  ASSUME Inv, Reading, status' \in {"reading", "done", "error"},
         cursor' \in 0..Len(buf), part' \in Optional(Parsed), place' \in 1..9,
         end' \in Optional(Nat), got' \in Seq(Parsed), GotInv', PlaceInv', EndInv'
  PROVE  Inv'
<1>1. form' = form /\ written' = written /\ buf' = buf /\ cut' = cut
  BY DEF Reading
<1>2. Undisturbed' = Undisturbed /\ Whole' = Whole
  BY <1>1, Steady
<1>3. BufferInv'
  BY <1>1, <1>2 DEF Inv, BufferInv
<1>4. FreshInv'
  BY DEF FreshInv
<1>5. ASSUME NEW i \in DOMAIN got' \cap DOMAIN Undisturbed'
      PROVE  got'[i].version > 0 /\ got'[i].flags \in 0..255
  <2>1. Undisturbed[i] \in Descriptors
    BY <1>2, UndisturbedTyped DEF Inv
  <2>2. got'[i] = Canonical(Undisturbed[i])
    BY <1>2 DEF GotInv
  <2> QED
    BY <2>1, <2>2, CanonicalNumbers
<1>6. Len(Layout) + 1 = 9
  BY EightFields
<1>7. TypeOK'
  BY <1>1, <1>5, <1>6 DEF Inv, TypeOK
<1> QED
  BY <1>3, <1>4, <1>7 DEF Inv

(* Steps that read no descriptor to its end.                               *)
LEMMA SameGot ==
  ASSUME Inv, Reading, got' = got
  PROVE  /\ GotInv' /\ got' \in Seq(Parsed) /\ Len(got) \in Nat
         /\ Undisturbed' = Undisturbed /\ Clean' = Clean /\ FailsLast' = FailsLast
         /\ Len(Undisturbed) \in Nat
         /\ Clean => FailsLast
         /\ FailsLast => Len(got) <= Len(Undisturbed)
<1>1. form' = form /\ written' = written
  BY DEF Reading
<1>2. Undisturbed' = Undisturbed /\ Clean' = Clean /\ FailsLast' = FailsLast
  BY <1>1, Steady
<1>3. GotInv'
  BY <1>2 DEF Inv, GotInv
<1>4. /\ got \in Seq(Parsed) /\ Len(got) \in Nat /\ written \in Seq(Descriptors)
      /\ form \in {"bare", "wrapped"}
  BY BufferTyped DEF Inv
<1>5. Len(Undisturbed) \in Nat
  BY <1>4, UndisturbedPrefix
<1>6. (Clean => FailsLast) /\ (FailsLast => Len(got) <= Len(Undisturbed))
  BY DEF FailsLast, Inv, GotInv
<1> QED
  BY <1>2, <1>3, <1>4, <1>5, <1>6

LEMMA RefuseStep ==
  ASSUME Inv, Reading, Refuse, cut \/ ~Clean
  PROVE  Inv'
<1>1. /\ status' = "error" /\ cursor' = cursor /\ part' = part /\ place' = place
      /\ end' = end /\ got' = got
  BY DEF Refuse, reader
<1>2. /\ GotInv' /\ got' \in Seq(Parsed) /\ Clean' = Clean /\ cut' = cut
  BY <1>1, SameGot DEF Reading
<1>3. EndInv'
  BY <1>1, <1>2 DEF EndInv
<1>4. PlaceInv'
  BY <1>1 DEF PlaceInv
<1>5. Len(Layout) + 1 = 9
  BY EightFields
<1>6. /\ cursor' \in 0..Len(buf) /\ part' \in Optional(Parsed) /\ place' \in 1..9
      /\ end' \in Optional(Nat)
  BY <1>1, <1>5 DEF Inv, TypeOK
<1>7. status' \in {"reading", "done", "error"}
  BY <1>1
<1> QED
  BY <1>2, <1>3, <1>4, <1>6, <1>7, ReaderStep

(* A step that goes on reading a descriptor, or its wrapper.               *)
LEMMA GoesOn ==
  ASSUME Inv, Reading, status' = status, got' = got,
         cursor' \in 0..Len(buf), part' \in Optional(Parsed), place' \in 1..9,
         end' \in Optional(Nat),
         \A k \in 0..Len(Undisturbed) : k = Len(got) => Standing(k)'
  PROVE  Inv'
<1>1. status' = "reading"
  BY DEF Reading
<1>2. GotInv' /\ got' \in Seq(Parsed) /\ Undisturbed' = Undisturbed
  BY SameGot
<1>3. PlaceInv'
  BY <1>2 DEF PlaceInv
<1>4. EndInv'
  BY <1>1 DEF EndInv
<1>5. status' \in {"reading", "done", "error"}
  BY <1>1
<1> QED
  BY <1>2, <1>3, <1>4, <1>5, ReaderStep

LEMMA ReadWrapperStep ==
  ASSUME Inv, ReadWrapper
  PROVE  Inv'
<1> DEFINE size == WrapperRead(cursor)
<1>1. /\ Reading /\ form = "wrapped" /\ part = None /\ end = None /\ cursor < Len(buf)
      /\ \/ size = None /\ Refuse
         \/ /\ size # None
            /\ end' = size.next + size.value /\ cursor' = size.next
            /\ status' = status /\ part' = part /\ place' = place /\ got' = got
  BY DEF ReadWrapper, WrapperRead
<1>2. /\ buf \in Bytes /\ Len(buf) \in Nat /\ cursor \in 0..Len(buf) /\ cursor \in Nat
      /\ status = "reading" /\ form' = form /\ written' = written
  BY <1>1, BufferTyped DEF Inv, Reading
<1>3. Clean /\ Len(got) \in Nat /\ Len(got) <= Len(Undisturbed) /\ Len(Undisturbed) \in Nat
  <2>1. Clean
    BY <1>1 DEF Clean
  <2>2. FailsLast
    BY <2>1 DEF FailsLast
  <2>3. Len(got) <= Len(Undisturbed)
    BY <2>2 DEF Inv, GotInv
  <2> QED
    BY <1>2, <2>1, <2>3, BufferTyped, UndisturbedPrefix DEF Inv
<1>4. PICK k \in 0..Len(Undisturbed) : k = Len(got)
  BY <1>3
<1>5. k < Len(Expected) /\ cursor = Start(k)
  <2>1. Standing(k) /\ k \in 0..Len(Expected) /\ Len(Expected) \in Nat
    BY <1>2, <1>3, <1>4, Position
  <2>2. cursor = Start(k)
    BY <1>1, <2>1 DEF Standing
  <2>3. Len(buf) <= Len(Whole) /\ Len(Whole) \in Nat /\ Start(Len(Expected)) = Len(Whole)
    BY Places DEF Inv, BufferInv
  <2>4. k # Len(Expected)
    BY <1>1, <1>2, <2>2, <2>3
  <2> QED
    BY <2>1, <2>2, <2>4
<1> DEFINE dd == Expected[k + 1]
           pre == Len(Preamble(dd))
<1>6. /\ dd \in Descriptors /\ Start(k + 1) = Start(k) + Len(Code(dd))
      /\ Start(k + 1) <= Len(Whole) /\ Start(k) \in Nat /\ Len(Whole) \in Nat
      /\ Holds(Start(k), Code(dd))
  BY <1>2, <1>3, <1>4, <1>5, Position
<1>7. /\ Len(Code(dd)) = pre + Len(Appended(dd)) /\ pre \in Nat /\ Len(Appended(dd)) \in Nat
      /\ Holds(Start(k), Preamble(dd))
  <2>1. Len(Appended(dd)) \in Nat
    BY <1>6, AppendedTyped, ByteStringFacts DEF Bytes
  <2>2. Holds(Start(k), Preamble(dd))
    BY <1>2, <1>6, CodePlaces
  <2> HIDE DEF dd
  <2> QED
    BY <1>6, <2>1, <2>2, CodeTyped
<1>8. /\ cursor + pre <= Len(buf) =>
           size # None /\ size.value = Len(Appended(dd)) /\ size.next = cursor + pre
      /\ cursor + pre > Len(buf) => size = None
  <2> HIDE DEF dd
  <2> QED
    BY <1>1, <1>2, <1>5, <1>6, <1>7, WrapperHeld
<1>9. CASE size = None
  <2>1. cursor + pre > Len(buf)
    <3> HIDE DEF size, dd, pre
    <3> QED
      BY <1>2, <1>7, <1>8, <1>9
  <2>2. Len(buf) < Len(Whole)
    <3> HIDE DEF size, dd, pre
    <3> QED
      BY <1>2, <1>5, <1>6, <1>7, <2>1
  <2>3. cut
    BY <2>2 DEF Inv, BufferInv
  <2> QED
    BY <1>1, <1>9, <2>3, RefuseStep
<1>10. CASE size # None
  <2>1. size.value \in Nat /\ size.next \in cursor..Len(buf)
    BY <1>2, <1>10, WrapperTyped
  <2>2. /\ cursor + pre <= Len(buf) /\ end' = Start(k + 1) /\ cursor' = Start(k) + pre
        /\ cursor' \in 0..Len(buf) /\ end' \in Nat
    <3> DEFINE n == Len(Appended(dd))
    <3>1. cursor + pre <= Len(buf) /\ n \in Nat /\ pre \in Nat
      <4> HIDE DEF size, dd, pre
      <4> QED
        BY <1>2, <1>7, <1>8, <1>10
    <3>2. end' = (cursor + pre) + n /\ cursor' = cursor + pre
      <4> HIDE DEF size, dd, pre
      <4> QED
        BY <1>1, <1>8, <1>10, <3>1
    <3>3. Start(k + 1) = Start(k) + (pre + n) /\ cursor = Start(k) /\ Start(k) \in Nat
      BY <1>5, <1>6, <1>7
    <3> HIDE DEF dd, pre, n
    <3> QED
      BY <1>2, <3>1, <3>2, <3>3
  <2>3. part' = None /\ end' # None /\ end' \in Optional(Nat)
    BY <1>1, <1>10, <2>2, NoneFacts DEF Optional
  <2>4. Standing(k)'
    BY <1>1, <1>2, <1>5, <2>2, <2>3, StandingAt
  <2>5. part' \in Optional(Parsed) /\ place' \in 1..9 /\ status' = status /\ got' = got
    <3>1. Len(Layout) + 1 = 9
      BY EightFields
    <3> QED
      BY <1>1, <1>10, <3>1 DEF Inv, TypeOK
  <2>6. \A i \in 0..Len(Undisturbed) : i = Len(got) => Standing(i)'
    BY <1>4, <2>4
  <2> QED
    BY <1>1, <2>2, <2>3, <2>5, <2>6, GoesOn
<1> QED
  BY <1>9, <1>10

LEMMA ReadHeadStep ==
  ASSUME Inv, ReadHead
  PROVE  Inv'
<1> DEFINE version == VarIntAt(cursor)
           flags == FlagsRead(cursor)
<1>1. /\ Reading /\ part = None /\ cursor < Len(buf)
      /\ form = "wrapped" => end # None
      /\ \/ flags = None /\ Refuse
         \/ /\ flags # None
            /\ part' = Blank(version.value, flags.value)
            /\ place' = 1 /\ cursor' = flags.next
            /\ status' = status /\ end' = end /\ got' = got
  BY DEF ReadHead, FlagsRead
<1>2. /\ buf \in Bytes /\ Len(buf) \in Nat /\ cursor \in 0..Len(buf) /\ cursor \in Nat
      /\ status = "reading" /\ form' = form /\ written' = written
      /\ written \in Seq(Descriptors) /\ form \in {"bare", "wrapped"}
      /\ Len(got) \in Nat /\ end \in Optional(Nat)
  BY <1>1, BufferTyped DEF Inv, Reading, TypeOK
<1>3. Len(buf) <= Len(Whole) /\ Len(Whole) \in Nat /\ Start(Len(Expected)) = Len(Whole)
  BY Places DEF Inv, BufferInv
(* The reader stands behind the preamble of a descriptor.                  *)
<1>4. ASSUME NEW k \in 0..Len(Undisturbed), k = Len(got)
      PROVE  /\ k < Len(Expected)
             /\ cursor = Start(k) + Len(Preamble(Expected[k + 1]))
             /\ end = IF form = "wrapped" THEN Start(k + 1) ELSE None
  <2>1. Standing(k) /\ k \in 0..Len(Expected) /\ Len(Expected) \in Nat /\ Start(k) \in Nat
    <3>1. k <= Len(Undisturbed)
      BY <1>2, UndisturbedPrefix
    <3> QED
      BY <1>2, <1>4, <3>1, Position
  <2>2. CASE form = "wrapped"
    <3>1. InWrapper(k)
      BY <1>1, <2>1, <2>2 DEF Standing
    <3> QED
      BY <2>2, <3>1 DEF InWrapper
  <2>3. CASE form # "wrapped"
    <3>1. end = None
      <4>1. CASE end # None
        BY <1>1, <2>1, <2>3, <4>1 DEF Standing, InWrapper
      <4> QED
        BY <4>1
    <3>2. cursor = Start(k)
      BY <1>1, <2>1, <3>1 DEF Standing
    <3>3. k # Len(Expected)
      BY <1>1, <1>2, <1>3, <3>2
    <3>4. k < Len(Expected)
      BY <2>1, <3>3
    <3>5. Len(Preamble(Expected[k + 1])) = 0
      BY <2>3 DEF Preamble
    <3> QED
      BY <2>1, <2>3, <3>1, <3>2, <3>4, <3>5
  <2> QED
    BY <2>2, <2>3
<1>5. ASSUME NEW k \in 0..Len(Undisturbed), k = Len(got)
      PROVE  /\ Expected[k + 1] \in Descriptors
             /\ Start(k) \in Nat /\ Start(k + 1) <= Len(Whole)
             /\ Start(k + 1) = Start(k) + Len(Code(Expected[k + 1]))
             /\ Holds(Start(k), Code(Expected[k + 1]))
  <2>1. k <= Len(Undisturbed)
    BY <1>2, UndisturbedPrefix
  <2> QED
    BY <1>2, <1>4, <1>5, <2>1, Position
(* What it reads there.                                                    *)
<1>6. ASSUME NEW k \in 0..Len(Undisturbed), k = Len(got), NEW dd, dd = Expected[k + 1]
      PROVE  /\ dd \in Descriptors
             /\ Len(HeadCode(dd)) \in Nat /\ Len(Preamble(dd)) \in Nat
             /\ cursor + Len(HeadCode(dd)) <= Len(buf) =>
                  /\ flags # None
                  /\ version.value = Version(dd) /\ flags.value = CalcFlags(dd)
                  /\ flags.next = Start(k) + FieldAt(dd, 0)
             /\ cursor + Len(HeadCode(dd)) > Len(buf) => flags = None
             /\ cursor + Len(HeadCode(dd)) <= Len(Whole)
  <2>1. /\ dd \in Descriptors /\ Start(k) \in Nat /\ Start(k + 1) <= Len(Whole)
        /\ Start(k + 1) = Start(k) + Len(Code(dd)) /\ Holds(Start(k), Code(dd))
        /\ cursor = Start(k) + Len(Preamble(dd))
    BY <1>4, <1>5, <1>6
  <2>2. /\ Len(HeadCode(dd)) \in Nat /\ Len(Preamble(dd)) \in Nat
        /\ Holds(Start(k) + Len(Preamble(dd)), HeadCode(dd))
    BY <1>2, <2>1, CodePlaces
  <2>3. /\ cursor + Len(HeadCode(dd)) <= Len(buf) =>
             /\ flags # None /\ version.value = Version(dd)
             /\ flags.value = CalcFlags(dd)
             /\ flags.next = cursor + Len(HeadCode(dd))
        /\ cursor + Len(HeadCode(dd)) > Len(buf) => flags = None
    BY <1>2, <2>1, <2>2, FlagsHeld
  <2> HIDE DEF flags, version
  <2>4. cursor + Len(HeadCode(dd)) = Start(k) + FieldAt(dd, 0)
    <3>1. FieldAt(dd, 0) = Len(Preamble(dd)) + Len(HeadCode(dd))
      BY <2>1, FieldPlaces
    <3> QED
      BY <2>1, <2>2, <3>1
  <2>5. cursor + Len(HeadCode(dd)) <= Len(Whole)
    <3>1. /\ Len(Code(dd)) = Len(Preamble(dd)) + Len(Appended(dd))
          /\ Len(Appended(dd)) = Len(HeadCode(dd)) + Len(FlattenSeq(Pieces(dd)))
          /\ Len(FlattenSeq(Pieces(dd))) \in Nat
      BY <2>1, CodeTyped, AppendedTyped DEF Bytes
    <3>2. /\ Start(k) + Len(Code(dd)) <= Len(Whole) /\ Start(k) \in Nat
          /\ cursor = Start(k) + Len(Preamble(dd))
      BY <2>1
    <3> DEFINE c == Len(Code(dd))
               p == Len(Preamble(dd))
               h == Len(HeadCode(dd))
               t == Len(FlattenSeq(Pieces(dd)))
               e == Start(k)
               w == Len(Whole)
    <3>3. /\ c = p + (h + t) /\ p \in Nat /\ h \in Nat /\ t \in Nat
          /\ e \in Nat /\ w \in Nat /\ e + c <= w /\ cursor = e + p
      BY <1>3, <2>2, <3>1, <3>2
    <3> HIDE DEF c, p, h, t, e, w
    <3>4. cursor + h <= w
      BY <3>3
    <3> QED
      BY <3>4 DEF h, w
  <2> QED
    BY <2>1, <2>2, <2>3, <2>4, <2>5
<1>7. CASE flags = None
  <2>1. CASE FailsLast
    <3>1. Len(got) <= Len(Undisturbed) /\ Len(Undisturbed) \in Nat
      BY <1>2, <2>1, UndisturbedPrefix DEF Inv, GotInv
    <3>2. PICK k \in 0..Len(Undisturbed) : k = Len(got)
      BY <1>2, <3>1
    <3>3. PICK dd : dd = Expected[k + 1]
      OBVIOUS
    <3>4. /\ Len(HeadCode(dd)) \in Nat
          /\ cursor + Len(HeadCode(dd)) <= Len(Whole)
          /\ cursor + Len(HeadCode(dd)) <= Len(buf) => flags # None
      BY <1>6, <3>2, <3>3
    <3>5. cursor + Len(HeadCode(dd)) > Len(buf)
      <4> HIDE DEF flags
      <4> QED
        BY <1>2, <1>7, <3>4
    <3>6. cut
      BY <1>2, <1>3, <3>4, <3>5 DEF Inv, BufferInv
    <3> QED
      BY <1>1, <1>7, <3>6, RefuseStep
  <2>2. CASE ~FailsLast
    <3>1. ~Clean
      BY <2>2 DEF FailsLast
    <3> QED
      BY <1>1, <1>7, <3>1, RefuseStep
  <2> QED
    BY <2>1, <2>2
<1>8. CASE flags # None
  <2>1. /\ version.value \in Nat /\ flags.value \in Nat
        /\ flags.next \in cursor..Len(buf)
    BY <1>2, <1>8, FlagsTyped
  <2>2. /\ part' \in Parsed /\ part' # None /\ place' = 1 /\ end' = end
        /\ cursor' = flags.next /\ status' = status /\ got' = got
    <3>1. Blank(version.value, flags.value) \in Parsed
      BY <2>1, BlankTyped
    <3>2. /\ part' = Blank(version.value, flags.value) /\ place' = 1 /\ end' = end
          /\ cursor' = flags.next /\ status' = status /\ got' = got
      BY <1>1, <1>8
    <3> HIDE DEF flags, version
    <3> QED
      BY <3>1, <3>2, NoneFacts
  <2> HIDE DEF flags, version
  <2>3. cursor' \in 0..Len(buf)
    BY <1>2, <2>1, <2>2
  <2>4. ASSUME NEW k \in 0..Len(Undisturbed), k = Len(got) PROVE Standing(k)'
    <3>1. PICK dd : dd = Expected[k + 1]
      OBVIOUS
    <3>2. /\ dd \in Descriptors /\ Len(HeadCode(dd)) \in Nat
          /\ cursor + Len(HeadCode(dd)) <= Len(buf) =>
               /\ version.value = Version(dd) /\ flags.value = CalcFlags(dd)
               /\ flags.next = Start(k) + FieldAt(dd, 0)
          /\ cursor + Len(HeadCode(dd)) > Len(buf) => flags = None
      BY <1>6, <2>4, <3>1
    <3>3. cursor + Len(HeadCode(dd)) <= Len(buf)
      BY <1>2, <1>8, <3>2
    <3>4. part' = PartOf(dd, 0) /\ cursor' = Start(k) + FieldAt(dd, 0)
      <4>1. part' = Blank(version.value, flags.value)
        BY <1>1, <1>8
      <4> QED
        BY <2>2, <3>2, <3>3, <4>1, PartAtFirst
    <3>5. place' - 1 = 0 /\ 0 <= Len(Pieces(dd))
      BY <2>2, <3>2, PiecesTyped
    <3>6. k < Len(Expected) /\ end' = IF form = "wrapped" THEN Start(k + 1) ELSE None
      BY <1>4, <2>2, <2>4
    <3> QED
      BY <1>2, <2>2, <3>1, <3>4, <3>5, <3>6, StandingAt
  <2>5. part' \in Optional(Parsed) /\ place' \in 1..9 /\ end' \in Optional(Nat)
    BY <1>2, <2>2 DEF Optional
  <2> QED
    BY <1>1, <2>2, <2>3, <2>4, <2>5, GoesOn
<1> QED
  BY <1>7, <1>8

(* A descriptor over a cap was written bare, and some write before the     *)
(* last failed or this one is all that is left.                            *)
LEMMA OverCapLeft ==
  ASSUME Inv, NEW k \in Nat, k < Len(Expected), ~WithinCaps(Expected[k + 1])
  PROVE  /\ ~Clean /\ k >= Len(Undisturbed) /\ Len(Undisturbed) \in Nat
         /\ FailsLast => k + 1 = Len(Expected)
<1>1. written \in Seq(Descriptors) /\ form \in {"bare", "wrapped"}
  BY BufferTyped DEF Inv
<1>2. /\ Expected \in Seq(Descriptors) /\ Len(Expected) \in Nat
      /\ Len(Undisturbed) \in Nat /\ Len(Undisturbed) <= Len(Expected)
      /\ \A i \in 1..Len(Undisturbed) : WithinCaps(Expected[i])
      /\ Clean => Len(Undisturbed) = Len(Expected)
      /\ ~Clean =>
           /\ Expected = written /\ FirstFailure \in 1..Len(written)
           /\ Len(Undisturbed) = FirstFailure - 1
  BY <1>1, UndisturbedPrefix
<1>3. k >= Len(Undisturbed)
  <2>1. k + 1 \notin 1..Len(Undisturbed)
    BY <1>2
  <2> QED
    BY <1>2, <2>1
<1>4. ~Clean
  BY <1>2, <1>3
<1>5. ASSUME FailsLast PROVE k + 1 = Len(Expected)
  <2>1. FirstFailure = Len(written)
    BY <1>4, <1>5 DEF FailsLast
  <2> QED
    BY <1>2, <1>3, <1>4, <2>1
<1> QED
  BY <1>2, <1>3, <1>4, <1>5

(* Where the next field of a descriptor is to be read.                     *)
LEMMA AtNextField ==
  ASSUME Inv, Reading, part # None, NEW k \in 0..Len(Undisturbed), k = Len(got),
         NEW dd, dd = Expected[k + 1]
  PROVE  /\ k < Len(Expected) /\ dd \in Descriptors /\ k \in Nat
         /\ end = IF form = "wrapped" THEN Start(k + 1) ELSE None
         /\ FailsLast => place - 1 <= Len(Pieces(dd))
         /\ place - 1 <= Len(Pieces(dd)) =>
              part = PartOf(dd, place - 1) /\ cursor = Start(k) + FieldAt(dd, place - 1)
         /\ Start(k) \in Nat /\ Start(k + 1) = Start(k) + Len(Code(dd))
         /\ Start(k + 1) <= Len(Whole) /\ Start(k + 1) \in Nat
         /\ Holds(Start(k), Code(dd))
<1>1. status = "reading" /\ k <= Len(Undisturbed)
  <2>1. Len(Undisturbed) \in Nat
    BY BufferTyped, UndisturbedPrefix DEF Inv
  <2> QED
    BY <2>1 DEF Reading
<1>2. Standing(k)
  BY <1>1, Position
<1>3. InDescriptor(k)
  BY <1>2 DEF Standing
<1>4. /\ k < Len(Expected)
      /\ end = IF form = "wrapped" THEN Start(k + 1) ELSE None
      /\ FailsLast => place - 1 <= Len(Pieces(dd))
      /\ place - 1 <= Len(Pieces(dd)) => AtField(k)
  BY <1>3 DEF InDescriptor
<1>5. AtField(k) => part = PartOf(dd, place - 1) /\ cursor = Start(k) + FieldAt(dd, place - 1)
  BY DEF AtField
<1>6. /\ dd \in Descriptors /\ k \in Nat
      /\ Start(k) \in Nat /\ Start(k + 1) = Start(k) + Len(Code(dd))
      /\ Start(k + 1) <= Len(Whole) /\ Start(k + 1) \in Nat
      /\ Holds(Start(k), Code(dd))
  BY <1>1, <1>4, Position
<1> QED
  BY <1>4, <1>5, <1>6

(* A field that is skipped.                                                *)
LEMMA SkipStep ==
  ASSUME Inv, Reading, part # None, place <= 8, ~Announced(part.flags, Layout[place]),
         place' = place + 1, status' = status, cursor' = cursor, part' = part,
         end' = end, got' = got
  PROVE  Inv'
<1>1. /\ place \in 1..8 /\ cursor \in 0..Len(buf) /\ part \in Optional(Parsed)
      /\ end \in Optional(Nat) /\ form' = form /\ written' = written
  <2>1. place \in 1..9
    BY EightFields DEF Inv, TypeOK
  <2> QED
    BY <2>1 DEF Inv, TypeOK, Reading
<1>2. place' \in 1..9 /\ place' - 1 = place
  BY <1>1
<1>3. ASSUME NEW k \in 0..Len(Undisturbed), k = Len(got) PROVE Standing(k)'
  <2>1. PICK dd : dd = Expected[k + 1]
    OBVIOUS
  <2>2. /\ k < Len(Expected) /\ dd \in Descriptors
        /\ end = IF form = "wrapped" THEN Start(k + 1) ELSE None
        /\ FailsLast => place - 1 <= Len(Pieces(dd))
        /\ place - 1 <= Len(Pieces(dd)) =>
             part = PartOf(dd, place - 1) /\ cursor = Start(k) + FieldAt(dd, place - 1)
        /\ Start(k) \in Nat /\ Holds(Start(k), Code(dd))
    BY <1>3, <2>1, AtNextField
  <2>3. /\ Len(Pieces(dd)) \in 2..8
        /\ \A j \in 1..Len(Pieces(dd)) : Pieces(dd)[j] = Piece(dd, Layout[j])
        /\ Len(Pieces(dd)) # 8 => Announced(CalcFlags(dd), Layout[Len(Pieces(dd)) + 1])
    BY <2>2, PiecesTyped
  <2>4. CASE place - 1 <= Len(Pieces(dd))
    <3>1. part = PartOf(dd, place - 1) /\ cursor = Start(k) + FieldAt(dd, place - 1)
      BY <2>2, <2>4
    <3>2. ~Announced(CalcFlags(dd), Layout[place])
      <4>1. place - 1 \in 0..8
        BY <1>1
      <4>2. PartOf(dd, place - 1).flags = CalcFlags(dd)
        BY <2>2, <4>1, PartNumbers
      <4> QED
        BY <3>1, <4>2
    <3>3. ASSUME place = Len(Pieces(dd)) + 1 PROVE FALSE
      <4> DEFINE n == Len(Pieces(dd))
      <4>1. n \in 2..8 /\ place = n + 1
        BY <2>3, <3>3
      <4>2. n # 8
        <5> HIDE DEF n
        <5> QED
          BY <1>1, <4>1
      <4>3. Announced(CalcFlags(dd), Layout[place])
        BY <2>3, <4>1, <4>2
      <4> QED
        BY <3>2, <4>3
    <3>4. place \in 1..Len(Pieces(dd))
      BY <1>1, <2>3, <2>4, <3>3
    <3>5. Len(Pieces(dd)[place]) = 0
      <4>1. Piece(dd, Layout[place]) = <<>>
        BY <1>1, <2>2, <3>2, PieceOf
      <4> QED
        BY <2>3, <3>4, <4>1
    <3>6. FieldAt(dd, place) = FieldAt(dd, place - 1)
      <4>1. /\ FieldAt(dd, place) = FieldAt(dd, place - 1) + Len(Pieces(dd)[place])
            /\ FieldAt(dd, place - 1) \in Nat
        BY <2>2, <3>4, BufferTyped, PiecePlaces DEF Inv
      <4> QED
        BY <3>5, <4>1
    <3>7. PartOf(dd, place) = PartOf(dd, place - 1)
      BY <1>1, <2>2, <3>2, PartStep
    <3>8. place' - 1 <= Len(Pieces(dd))
      BY <1>2, <2>3, <3>4
    <3> QED
      BY <1>1, <1>2, <2>1, <2>2, <3>1, <3>6, <3>7, <3>8, StandingAt
  <2>5. CASE ~(place - 1 <= Len(Pieces(dd)))
    <3>1. ~FailsLast /\ ~(place' - 1 <= Len(Pieces(dd)))
      BY <1>1, <1>2, <2>2, <2>3, <2>5
    <3> QED
      BY <1>1, <2>1, <2>2, <3>1, StandingAt
  <2> QED
    BY <2>4, <2>5
<1> QED
  BY <1>1, <1>2, <1>3, GoesOn

(* What the next field that was announced reads as.                        *)
LEMMA NextField ==
  ASSUME Inv, Reading, part # None, place \in 1..8,
         Announced(part.flags, Layout[place]),
         NEW k \in 0..Len(Undisturbed), k = Len(got), NEW dd, dd = Expected[k + 1],
         place - 1 <= Len(Pieces(dd))
  PROVE  /\ dd \in Descriptors /\ Announced(CalcFlags(dd), Layout[place])
         /\ part = PartOf(dd, place - 1)
         /\ place <= Len(Pieces(dd)) =>
              /\ Start(k) + FieldAt(dd, place) \in Nat
              /\ Start(k) + FieldAt(dd, place) <= Len(Whole)
              /\ Start(k) + FieldAt(dd, place) <= Len(buf) =>
                   /\ FieldRead(cursor, place) # None
                   /\ FieldRead(cursor, place).value = dd[Layout[place]]
                   /\ FieldRead(cursor, place).next = Start(k) + FieldAt(dd, place)
              /\ Start(k) + FieldAt(dd, place) > Len(buf) =>
                   FieldRead(cursor, place) = None
         /\ ~(place <= Len(Pieces(dd))) =>
              ~Clean /\ (FailsLast => FieldRead(cursor, place) = None)
<1>1. /\ buf \in Bytes /\ Len(buf) \in Nat /\ cursor \in 0..Len(buf)
  BY BufferTyped DEF Inv
<1>2. /\ k < Len(Expected) /\ dd \in Descriptors /\ k \in Nat
      /\ part = PartOf(dd, place - 1) /\ cursor = Start(k) + FieldAt(dd, place - 1)
      /\ Start(k) \in Nat /\ Start(k + 1) = Start(k) + Len(Code(dd))
      /\ Start(k + 1) <= Len(Whole) /\ Start(k + 1) \in Nat /\ Len(Whole) \in Nat
      /\ Holds(Start(k), Code(dd))
  BY AtNextField, Places DEF Inv
<1>3. /\ Len(Pieces(dd)) \in 2..8
      /\ \A j \in 1..Len(Pieces(dd)) : Pieces(dd)[j] = Piece(dd, Layout[j])
      /\ WithinCaps(dd) <=> Len(Pieces(dd)) = 8
  BY <1>2, PiecesTyped
<1>4. Announced(CalcFlags(dd), Layout[place])
  <2>1. place - 1 \in 0..8
    OBVIOUS
  <2>2. PartOf(dd, place - 1).flags = CalcFlags(dd)
    BY <1>2, <2>1, PartNumbers
  <2> QED
    BY <1>2, <2>2
<1>5. ASSUME place <= Len(Pieces(dd))
      PROVE  /\ Start(k) + FieldAt(dd, place) \in Nat
             /\ Start(k) + FieldAt(dd, place) <= Len(Whole)
             /\ Start(k) + FieldAt(dd, place) <= Len(buf) =>
                  /\ FieldRead(cursor, place) # None
                  /\ FieldRead(cursor, place).value = dd[Layout[place]]
                  /\ FieldRead(cursor, place).next = Start(k) + FieldAt(dd, place)
             /\ Start(k) + FieldAt(dd, place) > Len(buf) =>
                  FieldRead(cursor, place) = None
  <2> DEFINE piece == Piece(dd, Layout[place])
             n == Len(piece)
  <2>1. place \in 1..Len(Pieces(dd)) /\ Pieces(dd)[place] = piece
    BY <1>3, <1>5
  <2>2. /\ Holds(Start(k) + FieldAt(dd, place - 1), Pieces(dd)[place])
        /\ FieldAt(dd, place) = FieldAt(dd, place - 1) + Len(Pieces(dd)[place])
        /\ FieldAt(dd, place - 1) \in Nat /\ FieldAt(dd, place) \in Nat
        /\ Len(Pieces(dd)[place]) \in Nat
    BY <1>1, <1>2, <2>1, PiecePlaces
  <2>3. /\ Holds(cursor, piece) /\ n \in Nat
        /\ FieldAt(dd, place) = FieldAt(dd, place - 1) + n
    BY <1>2, <2>1, <2>2
  <2>4. /\ cursor + n <= Len(buf) =>
             /\ FieldRead(cursor, place) # None
             /\ FieldRead(cursor, place).value = dd[Layout[place]]
             /\ FieldRead(cursor, place).next = cursor + n
        /\ cursor + n > Len(buf) => FieldRead(cursor, place) = None
    <3>1. /\ dd \in Descriptors /\ Announced(CalcFlags(dd), Layout[place])
          /\ Holds(cursor, Piece(dd, Layout[place]))
      BY <1>2, <1>4, <2>3
    <3> QED
      BY <1>1, <3>1, FieldHeld
  <2>5. FieldAt(dd, place) <= Len(Code(dd))
    <3>1. place \in 0..Len(Pieces(dd))
      BY <1>3, <2>1
    <3> QED
      BY <1>2, <3>1, FieldPlaces
  <2>6. /\ Start(k) + FieldAt(dd, place) = cursor + n /\ cursor + n \in Nat
        /\ cursor + n <= Len(Whole)
    <3>1. cursor = Start(k) + FieldAt(dd, place - 1) /\ cursor \in Nat
      BY <1>1, <1>2
    <3>2. Start(k) + Len(Code(dd)) <= Len(Whole) /\ Len(Code(dd)) \in Nat
      BY <1>2, CodeTyped
    <3> DEFINE a == FieldAt(dd, place)
               b == FieldAt(dd, place - 1)
               c == Len(Code(dd))
               e == Start(k)
               w == Len(Whole)
    <3>3. /\ a = b + n /\ a \in Nat /\ b \in Nat /\ n \in Nat /\ c \in Nat /\ a <= c
          /\ e \in Nat /\ w \in Nat /\ e + c <= w /\ cursor = e + b /\ cursor \in Nat
      BY <1>2, <2>2, <2>5, <2>3, <3>1, <3>2
    <3> HIDE DEF piece, n, a, b, c, e, w
    <3>4. e + a = cursor + n /\ cursor + n \in Nat /\ cursor + n <= w
      BY <3>3
    <3> QED
      BY <3>4 DEF a, e, w
  <2> QED
    BY <2>4, <2>6
<1>6. ASSUME ~(place <= Len(Pieces(dd)))
      PROVE  ~Clean /\ (FailsLast => FieldRead(cursor, place) = None)
  <2>1. Len(Pieces(dd)) = place - 1 /\ place \in 2..8 /\ Len(Pieces(dd)) # 8
    <3> DEFINE n == Len(Pieces(dd))
    <3>1. n \in 2..8 /\ place - 1 <= n /\ ~(place <= n)
      BY <1>3, <1>6
    <3> HIDE DEF n
    <3>2. n = place - 1 /\ place \in 2..8 /\ n # 8
      BY <3>1
    <3> QED
      BY <3>2 DEF n
  <2>2. ~WithinCaps(dd)
    BY <1>3, <2>1
  <2>3. ~Clean /\ (FailsLast => k + 1 = Len(Expected))
    BY <1>2, <2>2, OverCapLeft
  <2>4. ASSUME FailsLast PROVE FieldRead(cursor, place) = None
    <3>1. k + 1 = Len(Expected) /\ Start(Len(Expected)) = Len(Whole)
      BY <2>3, <2>4, Places DEF Inv
    <3>2. FieldAt(dd, place - 1) = Len(Code(dd))
      BY <1>2, <2>1, FieldPlaces
    <3>3. cursor = Len(Whole)
      BY <1>2, <3>1, <3>2
    <3>4. Len(buf) <= Len(Whole)
      BY DEF Inv, BufferInv
    <3>5. cursor = Len(buf)
      BY <1>1, <3>3, <3>4
    <3> QED
      BY <2>1, <3>5, FieldAtEnd
  <2> QED
    BY <2>3, <2>4
<1> QED
  BY <1>2, <1>4, <1>5, <1>6

(* A field that is read.                                                   *)
LEMMA TakeStep ==
  ASSUME Inv, Reading, part # None, place <= 8, Announced(part.flags, Layout[place]),
         FieldRead(cursor, place) # None,
         part' = [part EXCEPT ![Layout[place]] = FieldRead(cursor, place).value],
         cursor' = FieldRead(cursor, place).next, place' = place + 1,
         status' = status, end' = end, got' = got
  PROVE  Inv'
<1> DEFINE field == FieldRead(cursor, place)
<1>1. /\ buf \in Bytes /\ Len(buf) \in Nat /\ cursor \in 0..Len(buf) /\ place \in 1..8
      /\ part \in Parsed /\ end \in Optional(Nat) /\ form' = form /\ written' = written
  <2>1. place \in 1..9 /\ part \in Optional(Parsed)
    BY EightFields DEF Inv, TypeOK
  <2>2. part \in Parsed
    BY <2>1 DEF Optional
  <2> QED
    BY <2>1, <2>2, BufferTyped DEF Inv, TypeOK, Reading
<1>2. field.value \in Bytes /\ field.next \in cursor..Len(buf)
  BY <1>1, FieldReadTyped
<1>3. part' \in Parsed /\ part' # None
  <2>1. PICK s \in Bytes : s = field.value
    BY <1>2
  <2>2. [part EXCEPT ![Layout[place]] = s] \in Parsed
    BY <1>1, FieldTyped
  <2>3. [part EXCEPT ![Layout[place]] = s] # None
    BY <1>1, FieldTyped
  <2>4. part' = [part EXCEPT ![Layout[place]] = s]
    BY <2>1
  <2> QED
    BY <2>2, <2>3, <2>4
<1>4. cursor' \in 0..Len(buf)
  <2> HIDE DEF field
  <2>1. cursor' = field.next
    BY DEF field
  <2> QED
    BY <1>1, <1>2, <2>1
<1>5. place' \in 1..9 /\ place' - 1 = place
  BY <1>1
<1>6. ASSUME NEW k \in 0..Len(Undisturbed), k = Len(got) PROVE Standing(k)'
  <2>1. PICK dd : dd = Expected[k + 1]
    OBVIOUS
  <2>2. /\ k < Len(Expected) /\ dd \in Descriptors
        /\ end = IF form = "wrapped" THEN Start(k + 1) ELSE None
        /\ FailsLast => place - 1 <= Len(Pieces(dd))
    BY <1>6, <2>1, AtNextField
  <2>3. Len(Pieces(dd)) \in 2..8
    BY <2>2, PiecesTyped
  <2>4. CASE place <= Len(Pieces(dd))
    <3>1. place - 1 <= Len(Pieces(dd))
      BY <1>1, <2>3, <2>4
    <3>2. /\ Announced(CalcFlags(dd), Layout[place]) /\ part = PartOf(dd, place - 1)
          /\ Start(k) + FieldAt(dd, place) \in Nat
          /\ Start(k) + FieldAt(dd, place) <= Len(buf) =>
               /\ field.value = dd[Layout[place]]
               /\ field.next = Start(k) + FieldAt(dd, place)
          /\ Start(k) + FieldAt(dd, place) > Len(buf) => field = None
      BY <1>1, <1>6, <2>1, <2>4, <3>1, NextField
    <3> DEFINE a == Start(k) + FieldAt(dd, place)
    <3>3. a <= Len(buf)
      <4>1. a \in Nat /\ ~(a > Len(buf))
        BY <3>2
      <4> HIDE DEF a
      <4> QED
        BY <1>1, <4>1
    <3>4. field.value = dd[Layout[place]] /\ field.next = Start(k) + FieldAt(dd, place)
      BY <3>2, <3>3
    <3>5. part' = PartOf(dd, place)
      BY <1>1, <2>2, <3>2, <3>4, PartStep
    <3>6. cursor' = Start(k) + FieldAt(dd, place)
      BY <3>4
    <3>7. FailsLast => place' - 1 <= Len(Pieces(dd))
      BY <1>5, <2>4
    <3> HIDE DEF field
    <3> QED
      BY <1>1, <1>3, <1>5, <2>1, <2>2, <3>5, <3>6, <3>7, StandingAt
  <2>5. CASE ~(place <= Len(Pieces(dd)))
    <3>1. ASSUME FailsLast PROVE FALSE
      <4>1. place - 1 <= Len(Pieces(dd))
        BY <2>2, <3>1
      <4> QED
        BY <1>1, <1>6, <2>1, <2>5, <3>1, <4>1, NextField
    <3>2. ~(place' - 1 <= Len(Pieces(dd)))
      BY <1>5, <2>5
    <3> HIDE DEF field
    <3> QED
      BY <1>1, <1>3, <2>1, <2>2, <3>1, <3>2, StandingAt
  <2> QED
    BY <2>4, <2>5
<1> QED
  BY <1>1, <1>3, <1>4, <1>5, <1>6, GoesOn DEF Optional

(* A field that cannot be read: the buffer ends, or a write has failed.    *)
LEMMA RefuseFieldStep ==
  ASSUME Inv, Reading, part # None, place <= 8, Announced(part.flags, Layout[place]),
         FieldRead(cursor, place) = None, Refuse
  PROVE  Inv'
<1>1. /\ Len(buf) \in Nat /\ place \in 1..8 /\ Len(got) \in Nat
      /\ written \in Seq(Descriptors) /\ form \in {"bare", "wrapped"}
  <2>1. place \in 1..9
    BY EightFields DEF Inv, TypeOK
  <2> QED
    BY <2>1, BufferTyped DEF Inv
<1>2. CASE FailsLast
  <2>1. Len(got) <= Len(Undisturbed) /\ Len(Undisturbed) \in Nat
    BY <1>1, <1>2, UndisturbedPrefix DEF Inv, GotInv
  <2>2. PICK k \in 0..Len(Undisturbed) : k = Len(got)
    BY <1>1, <2>1
  <2>3. PICK dd : dd = Expected[k + 1]
    OBVIOUS
  <2>4. place - 1 <= Len(Pieces(dd))
    BY <1>2, <2>2, <2>3, AtNextField
  <2>5. CASE place <= Len(Pieces(dd))
    <3> DEFINE a == Start(k) + FieldAt(dd, place)
               w == Len(Whole)
    <3>1. a \in Nat /\ a <= w /\ ~(a <= Len(buf)) /\ w \in Nat
      BY <1>1, <2>2, <2>3, <2>4, <2>5, NextField, Places DEF Inv
    <3> HIDE DEF a, w
    <3>2. Len(buf) < w
      BY <1>1, <3>1
    <3>3. cut
      BY <3>2 DEF w, Inv, BufferInv
    <3> QED
      BY <3>3, RefuseStep
  <2>6. CASE ~(place <= Len(Pieces(dd)))
    <3>1. ~Clean
      BY <1>1, <2>2, <2>3, <2>4, <2>6, NextField
    <3> QED
      BY <3>1, RefuseStep
  <2> QED
    BY <2>5, <2>6
<1>3. CASE ~FailsLast
  <2>1. ~Clean
    BY <1>3 DEF FailsLast
  <2> QED
    BY <2>1, RefuseStep
<1> QED
  BY <1>2, <1>3

LEMMA ReadFieldStep ==
  ASSUME Inv, ReadField
  PROVE  Inv'
<1>1. Reading /\ part # None /\ place <= 8
  BY EightFields DEF ReadField
<1>2. \/ /\ ~Announced(part.flags, Layout[place])
         /\ place' = place + 1 /\ status' = status /\ cursor' = cursor
         /\ part' = part /\ end' = end /\ got' = got
      \/ /\ Announced(part.flags, Layout[place])
         /\ FieldRead(cursor, place) = None /\ Refuse
      \/ /\ Announced(part.flags, Layout[place]) /\ FieldRead(cursor, place) # None
         /\ part' = [part EXCEPT ![Layout[place]] = FieldRead(cursor, place).value]
         /\ cursor' = FieldRead(cursor, place).next /\ place' = place + 1
         /\ status' = status /\ end' = end /\ got' = got
  BY DEF ReadField, FieldRead
<1> QED
  BY <1>1, <1>2, SkipStep, TakeStep, RefuseFieldStep

(* A descriptor read to its end.                                           *)
LEMMA FinishDescriptorStep ==
  ASSUME Inv, FinishDescriptor
  PROVE  Inv'
<1>1. /\ Reading /\ part # None /\ place > 8 /\ got' = Append(got, part)
      /\ status' = IF end \in {None, cursor} THEN status ELSE "error"
      /\ part' = None /\ end' = None /\ cursor' = cursor /\ place' = place
  BY EightFields DEF FinishDescriptor
<1>2. /\ buf \in Bytes /\ Len(buf) \in Nat /\ cursor \in 0..Len(buf) /\ place = 9
      /\ part \in Parsed /\ status = "reading" /\ form' = form /\ written' = written
      /\ got \in Seq(Parsed) /\ Len(got) \in Nat
      /\ written \in Seq(Descriptors) /\ form \in {"bare", "wrapped"}
  <2>1. place \in 1..9 /\ part \in Optional(Parsed)
    BY EightFields DEF Inv, TypeOK
  <2>2. part \in Parsed
    BY <1>1, <2>1 DEF Optional
  <2> QED
    BY <1>1, <2>1, <2>2, BufferTyped DEF Inv, Reading
<1>3. /\ got' \in Seq(Parsed) /\ Len(got') = Len(got) + 1
      /\ DOMAIN got' = 1..Len(got) + 1 /\ DOMAIN got = 1..Len(got)
      /\ \A i \in 1..Len(got) : got'[i] = got[i]
      /\ got'[Len(got) + 1] = part
  BY <1>1, <1>2
<1>4. /\ Undisturbed' = Undisturbed /\ Clean' = Clean /\ FailsLast' = FailsLast
  BY <1>2, Steady
<1>5. /\ Expected \in Seq(Descriptors) /\ Len(Expected) \in Nat
      /\ Len(Undisturbed) \in Nat /\ Len(Undisturbed) <= Len(Expected)
      /\ DOMAIN Undisturbed = 1..Len(Undisturbed)
      /\ \A i \in 1..Len(Undisturbed) :
           Undisturbed[i] = Expected[i] /\ WithinCaps(Expected[i])
      /\ Clean => Len(Undisturbed) = Len(Expected)
      /\ ~Clean =>
           /\ Expected = written /\ FirstFailure \in 1..Len(written)
           /\ Len(Undisturbed) = FirstFailure - 1
           /\ ~WithinCaps(Expected[FirstFailure])
  BY <1>2, UndisturbedPrefix
<1>6. ASSUME NEW i \in 1..Len(got), i \in DOMAIN Undisturbed
      PROVE  got'[i] = Canonical(Undisturbed[i])
  BY <1>3, <1>6 DEF Inv, GotInv
<1>7. /\ cursor' \in 0..Len(buf) /\ part' \in Optional(Parsed) /\ place' \in 1..9
      /\ end' \in Optional(Nat) /\ status' \in {"reading", "done", "error"}
  BY <1>1, <1>2 DEF Optional
(* Beyond what can be relied on, nothing is promised.                      *)
<1>8. ASSUME ~Clean, ~FailsLast, Len(got) >= Len(Undisturbed)
      PROVE  Inv'
  <2>1. GotInv'
    <3>1. ASSUME NEW i \in DOMAIN got' \cap DOMAIN Undisturbed'
          PROVE  got'[i] = Canonical(Undisturbed'[i])
      <4>1. i \in 1..Len(got) /\ i \in DOMAIN Undisturbed
        BY <1>2, <1>3, <1>4, <1>5, <1>8
      <4> QED
        BY <1>4, <1>6, <4>1
    <3> QED
      BY <1>4, <1>8, <3>1 DEF GotInv
  <2>2. PlaceInv'
    <3>1. ASSUME NEW k \in 0..Len(Undisturbed) PROVE k # Len(got')
      BY <1>2, <1>3, <1>5, <1>8
    <3> QED
      BY <1>4, <3>1 DEF PlaceInv
  <2>3. EndInv'
    BY <1>1, <1>2, <1>4, <1>8 DEF EndInv
  <2> QED
    BY <1>1, <1>3, <1>7, <2>1, <2>2, <2>3, ReaderStep
<1>9. CASE Len(got) <= Len(Undisturbed)
  <2>1. PICK k \in 0..Len(Undisturbed) : k = Len(got)
    BY <1>2, <1>5, <1>9
  <2>2. PICK dd : dd = Expected[k + 1]
    OBVIOUS
  <2>3. /\ k < Len(Expected) /\ dd \in Descriptors /\ k \in Nat
        /\ end = IF form = "wrapped" THEN Start(k + 1) ELSE None
        /\ FailsLast => 8 <= Len(Pieces(dd))
        /\ 8 <= Len(Pieces(dd)) =>
             part = PartOf(dd, 8) /\ cursor = Start(k) + FieldAt(dd, 8)
        /\ Start(k + 1) = Start(k) + Len(Code(dd))
    <3>1. place - 1 = 8
      BY <1>2
    <3> QED
      BY <1>1, <2>1, <2>2, <3>1, AtNextField
  <2>4. WithinCaps(dd) <=> 8 <= Len(Pieces(dd))
    <3> DEFINE n == Len(Pieces(dd))
    <3>1. n \in 2..8 /\ (WithinCaps(dd) <=> n = 8)
      BY <2>3, PiecesTyped
    <3> HIDE DEF n
    <3>2. n = 8 <=> 8 <= n
      BY <3>1
    <3> QED
      BY <3>1, <3>2 DEF n
  <2>5. CASE WithinCaps(dd)
    <3>1. 8 <= Len(Pieces(dd)) /\ Len(Pieces(dd)) = 8
      BY <2>3, <2>4, <2>5, PiecesTyped
    <3>2. part = Canonical(dd) /\ cursor = Start(k + 1)
      BY <2>3, <3>1, PartAtLast, FieldPlaces
    <3>3. status' = "reading"
      BY <1>1, <1>2, <2>3, <3>2
    <3>4. FailsLast => k + 1 <= Len(Undisturbed)
      <4> DEFINE m == Len(Undisturbed)
                 n == Len(Expected)
      <4>1. /\ m \in Nat /\ n \in Nat /\ k \in 0..m /\ k < n /\ (Clean => m = n)
            /\ ~Clean => FirstFailure \in Nat /\ m = FirstFailure - 1
        BY <1>5, <2>1, <2>3
      <4>2. ASSUME FailsLast, ~Clean, k = m PROVE FALSE
        <5>1. FirstFailure = k + 1
          <6> HIDE DEF m, n
          <6> QED
            BY <4>1, <4>2
        <5> QED
          BY <1>5, <2>2, <2>5, <4>2, <5>1
      <4> HIDE DEF m, n
      <4>3. FailsLast => k + 1 <= m
        BY <4>1, <4>2
      <4> QED
        BY <4>3 DEF m
    <3>5. GotInv'
      <4>1. ASSUME NEW i \in DOMAIN got' \cap DOMAIN Undisturbed'
            PROVE  got'[i] = Canonical(Undisturbed'[i])
        <5>1. i \in 1..Len(got) + 1 /\ i \in DOMAIN Undisturbed
          BY <1>3, <1>4
        <5>2. CASE i = Len(got) + 1
          <6>1. Undisturbed[i] = dd
            BY <1>5, <2>1, <2>2, <5>1, <5>2
          <6> QED
            BY <1>3, <1>4, <3>2, <5>2, <6>1
        <5>3. CASE i # Len(got) + 1
          <6>1. i \in 1..Len(got)
            BY <1>2, <5>1, <5>3
          <6> QED
            BY <1>4, <1>6, <5>1, <6>1
        <5> QED
          BY <5>2, <5>3
      <4>2. FailsLast' => Len(got') <= Len(Undisturbed')
        BY <1>3, <1>4, <2>1, <3>4
      <4> QED
        BY <4>1, <4>2 DEF GotInv
    <3>6. PlaceInv'
      <4>1. Standing(k + 1)'
        BY <1>1, <1>2, <3>2, StandingAt
      <4>2. \A i \in 0..Len(Undisturbed)' : i = Len(got)' => i = k + 1
        BY <1>3, <2>1
      <4> QED
        BY <4>1, <4>2 DEF PlaceInv
    <3>7. EndInv'
      BY <3>3 DEF EndInv
    <3> QED
      BY <1>1, <1>3, <1>7, <3>5, <3>6, <3>7, ReaderStep
  <2>6. CASE ~WithinCaps(dd)
    <3>1. ~Clean /\ k >= Len(Undisturbed)
      BY <2>2, <2>3, <2>6, OverCapLeft
    <3>2. ~(8 <= Len(Pieces(dd)))
      BY <2>4, <2>6
    <3> QED
      BY <1>8, <2>1, <2>3, <3>1, <3>2
  <2> QED
    BY <2>5, <2>6
<1>10. CASE Len(got) > Len(Undisturbed)
  <2>1. ~FailsLast
    BY <1>2, <1>5, <1>10 DEF Inv, GotInv
  <2>2. ~Clean
    BY <2>1 DEF FailsLast
  <2> QED
    BY <1>2, <1>5, <1>8, <1>10, <2>1, <2>2
<1> QED
  BY <1>2, <1>5, <1>9, <1>10

(* The end of the buffer between two descriptors, or behind a preamble.    *)
LEMMA FinishBufferStep ==
  ASSUME Inv, FinishBuffer
  PROVE  Inv'
<1>1. /\ Reading /\ part = None /\ cursor = Len(buf) /\ status' = "done"
      /\ cursor' = cursor /\ part' = part /\ place' = place /\ end' = end /\ got' = got
  BY DEF FinishBuffer, reader
<1>2. /\ buf \in Bytes /\ Len(buf) \in Nat /\ status = "reading" /\ cut' = cut
      /\ got \in Seq(Parsed) /\ Len(got) \in Nat
      /\ written \in Seq(Descriptors) /\ form \in {"bare", "wrapped"}
  BY <1>1, BufferTyped DEF Inv, Reading
<1>3. /\ Len(Expected) \in Nat /\ Len(Undisturbed) \in Nat
      /\ Len(Undisturbed) <= Len(Expected)
      /\ Clean => Len(Undisturbed) = Len(Expected)
      /\ ~Clean => Len(Undisturbed) < Len(Expected)
  <2>1. /\ Expected \in Seq(Descriptors) /\ Len(Expected) \in Nat
        /\ Len(Undisturbed) \in Nat /\ Len(Undisturbed) <= Len(Expected)
        /\ Clean => Len(Undisturbed) = Len(Expected)
        /\ ~Clean =>
             /\ Expected = written /\ FirstFailure \in 1..Len(written)
             /\ Len(Undisturbed) = FirstFailure - 1
    BY <1>2, UndisturbedPrefix
  <2> QED
    BY <2>1
<1>4. /\ GotInv' /\ got' \in Seq(Parsed)
      /\ Undisturbed' = Undisturbed /\ Clean' = Clean /\ FailsLast' = FailsLast
      /\ Clean => FailsLast
      /\ FailsLast => Len(got) <= Len(Undisturbed)
  BY <1>1, SameGot
<1>5. ASSUME FailsLast
      PROVE  cut <=> Len(got) < Len(Expected)
  <2>1. PICK k \in 0..Len(Undisturbed) : k = Len(got)
    BY <1>2, <1>3, <1>4, <1>5
  <2>2. /\ Standing(k) /\ Start(k) \in Nat /\ k \in Nat /\ Len(Whole) \in Nat
        /\ k <= Len(Expected)
        /\ k < Len(Expected) =>
             /\ Expected[k + 1] \in Descriptors /\ Start(k + 1) \in Nat
             /\ Start(k + 1) = Start(k) + Len(Code(Expected[k + 1]))
             /\ Start(k) < Start(k + 1) /\ Start(k + 1) <= Len(Whole)
    <3>1. k <= Len(Undisturbed)
      BY <1>3
    <3>2. /\ Standing(k) /\ Start(k) \in Nat /\ k \in Nat /\ Len(Whole) \in Nat
          /\ k \in 0..Len(Expected)
      BY <1>2, <2>1, <3>1, Position
    <3>3. k < Len(Expected) =>
            /\ Expected[k + 1] \in Descriptors /\ Start(k + 1) \in Nat
            /\ Start(k + 1) = Start(k) + Len(Code(Expected[k + 1]))
            /\ Start(k) < Start(k + 1) /\ Start(k + 1) <= Len(Whole)
      BY <1>2, <2>1, <3>1, Position
    <3> QED
      BY <1>3, <3>2, <3>3
  <2>3. cut <=> Len(buf) < Len(Whole)
    BY DEF Inv, BufferInv
  <2>4. CASE end = None
    <3>1. cursor = Start(k)
      BY <1>1, <2>2, <2>4 DEF Standing
    <3>2. Start(Len(Expected)) = Len(Whole)
      BY Places DEF Inv
    <3>3. CASE k = Len(Expected)
      BY <1>1, <1>2, <2>1, <2>3, <3>1, <3>2, <3>3
    <3>4. CASE k < Len(Expected)
      <4>1. Len(buf) < Len(Whole)
        BY <1>1, <1>2, <2>2, <3>1, <3>4
      <4> QED
        BY <2>1, <2>3, <3>4, <4>1
    <3> QED
      BY <1>3, <2>2, <3>3, <3>4
  <2>5. CASE end # None
    <3>1. k < Len(Expected) /\ cursor = Start(k) + Len(Preamble(Expected[k + 1]))
      BY <1>1, <2>2, <2>5 DEF Standing, InWrapper
    <3>2. PICK dd \in Descriptors : dd = Expected[k + 1]
      BY <2>2, <3>1
    <3>3. /\ Len(Code(dd)) >= 1 + Len(Preamble(dd)) /\ Len(Code(dd)) \in Nat
          /\ Len(Preamble(dd)) \in Nat
      BY CodeTyped
    <3>4. cursor < Start(k + 1)
      BY <2>2, <3>1, <3>2, <3>3
    <3>5. Len(buf) < Len(Whole)
      <4>1. /\ Start(k + 1) <= Len(Whole) /\ Start(k + 1) \in Nat /\ Len(Whole) \in Nat
        BY <2>2, <3>1
      <4>2. cursor = Len(buf) /\ Len(buf) \in Nat
        BY <1>1, <1>2
      <4> QED
        BY <3>4, <4>1, <4>2
    <3> QED
      BY <2>1, <2>3, <3>1, <3>5
  <2> QED
    BY <2>4, <2>5
<1>6. EndInv'
  <2>1. Clean => (cut <=> Len(got) < Len(Undisturbed))
    BY <1>3, <1>4, <1>5
  <2>2. ~Clean /\ FailsLast => cut
    BY <1>2, <1>3, <1>4, <1>5
  <2> QED
    BY <1>1, <1>2, <1>4, <2>1, <2>2 DEF EndInv
<1>7. PlaceInv'
  BY <1>1 DEF PlaceInv
<1>8. /\ cursor' \in 0..Len(buf) /\ part' \in Optional(Parsed) /\ place' \in 1..9
      /\ end' \in Optional(Nat) /\ status' \in {"reading", "done", "error"}
  BY <1>1, EightFields DEF Inv, TypeOK
<1> QED
  BY <1>1, <1>4, <1>6, <1>7, <1>8, ReaderStep

-----------------------------------------------------------------------------
(* The writer and the way to the reader.                                   *)

UndisturbedNumbered ==
  written \in Seq(Descriptors) /\ form \in {"bare", "wrapped"} => Len(Undisturbed) \in Nat

LEMMA UndisturbedLength == UndisturbedNumbered
BY UndisturbedPrefix DEF UndisturbedNumbered

LEMMA UndisturbedLengthNext == UndisturbedNumbered'
BY UndisturbedLength, PTL

(* One more code at the end.                                               *)
LEMMA JoinedAppend ==
  ASSUME NEW ss \in Seq(Bytes), NEW s \in Bytes
  PROVE  FlattenSeq(Append(ss, s)) = FlattenSeq(ss) \o s
<1> DEFINE tt == Append(ss, s)
           n == Len(ss)
<1>1. /\ tt \in Seq(Bytes) /\ Len(tt) = n + 1 /\ n \in Nat /\ tt[n + 1] = s
      /\ \A i \in 1..n : ss[i] = tt[i]
  OBVIOUS
<1>2. ss \in Seq(Seq(0..Radix - 1)) /\ tt \in Seq(Seq(0..Radix - 1))
  BY <1>1 DEF Bytes
<1> HIDE DEF tt
<1>3. FlattenSeq(tt) = Joined(tt)[n + 1] /\ FlattenSeq(ss) = Joined(ss)[n]
  BY <1>1, JoinedBytes
<1>4. Joined(tt)[n + 1] = Joined(tt)[n] \o tt[n + 1]
  <2>1. n \in 0..Len(tt) - 1
    BY <1>1
  <2> QED
    BY <1>1, <2>1, JoinedBytes
<1>5. Joined(ss)[n] = Joined(tt)[n]
  <2>1. n <= Len(ss) /\ n <= Len(tt)
    BY <1>1
  <2> QED
    BY <1>1, <1>2, <2>1, JoinedAlike
<1>6. FlattenSeq(tt) = FlattenSeq(ss) \o s
  BY <1>1, <1>3, <1>4, <1>5
<1> QED
  BY <1>6 DEF tt

(* A write appends the code of what it leaves, if it leaves anything.      *)
LEMMA WholeAppend ==
  ASSUME form' = form, form \in {"bare", "wrapped"}, written \in Seq(Descriptors),
         NEW dd \in Descriptors, written' = Append(written, dd)
  PROVE  /\ form = "wrapped" /\ Fails(dd) => Whole' = Whole
         /\ ~(form = "wrapped" /\ Fails(dd)) => Whole' = Whole \o Code(dd)
<1>1. \A d : Code(d)' = Code(d)
  BY DEF Code, Preamble
<1>2. Expected' = IF form = "wrapped" THEN Accepted(Append(written, dd))
                  ELSE Append(written, dd)
  BY DEF Expected
<1>3. Fails(dd) <=> ~WithinCaps(dd)
  BY StopValue DEF Fails
<1>4. CASE form = "wrapped" /\ Fails(dd)
  <2>1. Expected' = Expected
    BY <1>2, <1>3, <1>4, AcceptedAppend DEF Keep, Expected
  <2>2. Codes' = Codes
    BY <1>1, <2>1 DEF Codes
  <2> QED
    BY <1>4, <2>2 DEF Whole
<1>5. CASE ~(form = "wrapped" /\ Fails(dd))
  <2>1. Expected' = Append(Expected, dd)
    BY <1>2, <1>3, <1>5, AcceptedAppend DEF Keep, Expected
  <2>2. /\ Expected \in Seq(Descriptors) /\ Codes \in Seq(Bytes) /\ Code(dd) \in Bytes
        /\ Len(Codes) = Len(Expected) /\ Len(Expected) \in Nat
    <3>1. Expected \in Seq(Descriptors)
      BY UndisturbedPrefix
    <3> QED
      BY <3>1, CodesTyped, CodeTyped
  <2>3. Codes' = Append(Codes, Code(dd))
    <3>1. Codes' = [k \in DOMAIN Expected' |-> Code(Expected'[k])]
      BY <1>1 DEF Codes
    <3>2. /\ DOMAIN Expected' = 1..Len(Expected) + 1
          /\ DOMAIN Expected = 1..Len(Expected)
          /\ \A k \in 1..Len(Expected) : Expected'[k] = Expected[k]
          /\ Expected'[Len(Expected) + 1] = dd
      BY <2>1, <2>2
    <3>3. \A k \in 1..Len(Expected) : Codes'[k] = Codes[k]
      BY <2>2, <3>1, <3>2 DEF Codes
    <3>4. Codes'[Len(Expected) + 1] = Code(dd)
      BY <2>2, <3>1, <3>2
    <3>5. \A k \in 1..Len(Expected) + 1 : Codes'[k] = Append(Codes, Code(dd))[k]
      BY <2>2, <3>3, <3>4
    <3>6. Append(Codes, Code(dd)) \in Seq(Bytes)
      BY <2>2
    <3>7. Codes' \in Seq(Bytes) /\ Len(Codes') = Len(Expected) + 1
      <4>1. Codes' \in [1..Len(Expected) + 1 -> Bytes]
        BY <2>2, <3>1, <3>2, <3>5, <3>6
      <4>2. Len(Expected) + 1 \in Nat
        BY <2>2
      <4> QED
        BY <4>1, <4>2, SequenceOfFunction
    <3>8. Len(Append(Codes, Code(dd))) = Len(Expected) + 1
      BY <2>2
    <3> QED
      BY <3>5, <3>6, <3>7, <3>8, SameSequence
  <2> QED
    BY <1>5, <2>2, <2>3, JoinedAppend DEF Whole
<1> QED
  BY <1>4, <1>5

(* While the caller writes, the buffer is all there.                       *)
LEMMA WritingAll ==
  ASSUME Inv, status = "writing"
  PROVE  /\ buf = Whole /\ buf \in Bytes /\ Len(buf) \in Nat /\ Len(Whole) = Len(buf)
         /\ cut = FALSE /\ cursor = 0 /\ part = None /\ end = None /\ got = <<>>
<1>1. /\ buf \in Bytes /\ written \in Seq(Descriptors) /\ form \in {"bare", "wrapped"}
      /\ Len(buf) \in Nat
  BY BufferTyped DEF Inv
<1>2. Whole \in Bytes /\ Len(Whole) \in Nat
  BY <1>1, UndisturbedPrefix, CodesTyped
<1>3. cut = FALSE /\ cursor = 0 /\ part = None /\ end = None /\ got = <<>>
  BY DEF Inv, FreshInv
<1>4. Len(buf) = Len(Whole) /\ \A i \in 1..Len(buf) : buf[i] = Whole[i]
  BY <1>1, <1>2, <1>3 DEF Inv, BufferInv
<1>5. buf = Whole
  BY <1>1, <1>2, <1>4, SameSequence DEF Bytes
<1> QED
  BY <1>1, <1>3, <1>5

LEMMA WriteStep ==
  ASSUME Inv, NEW dd \in Descriptors, WriteBare(dd) \/ WriteWrapped(dd)
  PROVE  Inv'
<1>1. /\ status = "writing" /\ written' = Append(written, dd) /\ form' = form
      /\ cut' = cut /\ status' = status /\ cursor' = cursor /\ part' = part
      /\ place' = place /\ end' = end /\ got' = got
      /\ \/ form = "bare" /\ buf' = buf \o Appended(dd)
         \/ /\ form = "wrapped"
            /\ buf' = IF Fails(dd) THEN buf ELSE buf \o CvdxfData(Appended(dd))
  BY DEF WriteBare, WriteWrapped, MayWrite, reader
<1>2. /\ buf = Whole /\ buf \in Bytes /\ Len(buf) \in Nat
      /\ cut = FALSE /\ cursor = 0 /\ part = None /\ end = None /\ got = <<>>
  BY <1>1, WritingAll
<1>3. /\ written \in Seq(Descriptors) /\ form \in {"bare", "wrapped"}
      /\ written' \in Seq(Descriptors)
  <2>1. written \in Seq(Descriptors) /\ form \in {"bare", "wrapped"}
    BY BufferTyped DEF Inv
  <2> QED
    BY <1>1, <2>1
<1>4. Code(dd) \in Bytes
  BY CodeTyped
<1>5. buf' = Whole' /\ buf' \in Bytes
  <2>1. CASE form = "wrapped" /\ Fails(dd)
    BY <1>1, <1>2, <1>3, <2>1, WholeAppend
  <2>2. CASE ~(form = "wrapped" /\ Fails(dd))
    <3>1. Whole' = Whole \o Code(dd)
      BY <1>1, <1>3, <2>2, WholeAppend
    <3>2. buf' = buf \o Code(dd)
      BY <1>1, <2>2, CodeTyped
    <3> QED
      BY <1>2, <1>4, <3>1, <3>2, Joining
  <2> QED
    BY <2>1, <2>2
<1>6. Len(buf') \in Nat
  BY <1>5 DEF Bytes
<1>7. BufferInv'
  <2>1. cut' = FALSE /\ Len(buf)' = Len(Whole)' /\ Len(buf)' \in Nat
    BY <1>1, <1>2, <1>5, <1>6
  <2>2. \A i \in 1..Len(buf)' : buf'[i] = Whole'[i]
    BY <1>5
  <2> QED
    BY <2>1, <2>2 DEF BufferInv
<1>8. FreshInv'
  BY <1>1, <1>2 DEF FreshInv
<1>9. DOMAIN got' = {} /\ Len(got') = 0
  BY <1>1, <1>2
<1>10. GotInv'
  <2>1. Len(Undisturbed)' \in Nat
    BY <1>1, <1>3, UndisturbedLengthNext DEF UndisturbedNumbered
  <2> QED
    BY <1>9, <2>1 DEF GotInv
<1>11. TypeOK'
  <2>1. /\ form' \in {"bare", "wrapped"} /\ cut' \in BOOLEAN
        /\ status' \in {"writing", "reading", "done", "error"}
        /\ end' \in Optional(Nat) /\ part' \in Optional(Parsed)
        /\ place' \in 1..Len(Layout) + 1 /\ got' \in Seq(Parsed)
    BY <1>1 DEF Inv, TypeOK
  <2>2. cursor' \in 0..Len(buf)'
    BY <1>1, <1>2, <1>6
  <2>3. buf' \in Seq(0..Radix - 1)
    BY <1>5 DEF Bytes
  <2>4. \A i \in DOMAIN got' \cap DOMAIN Undisturbed' :
          got'[i].version > 0 /\ got'[i].flags \in 0..255
    BY <1>9
  <2> QED
    BY <1>3, <2>1, <2>2, <2>3, <2>4 DEF TypeOK
<1>12. PlaceInv' /\ EndInv'
  BY <1>1 DEF PlaceInv, EndInv
<1> QED
  BY <1>7, <1>8, <1>10, <1>11, <1>12 DEF Inv

(* The reader begins at the start, whatever end the buffer has lost.       *)
LEMMA DeliverStep ==
  ASSUME Inv, Deliver \/ DeliverCut
  PROVE  Inv'
<1>1. /\ status = "writing" /\ status' = "reading" /\ form' = form /\ written' = written
      /\ cursor' = cursor /\ part' = part /\ place' = place /\ end' = end /\ got' = got
      /\ \/ buf' = buf /\ cut' = cut
         \/ cut' = TRUE /\ \E n \in 0..Len(buf) - 1 : buf' = SubSeq(buf, 1, n)
  BY DEF Deliver, DeliverCut, reader
<1>2. /\ buf = Whole /\ buf \in Bytes /\ Len(buf) \in Nat /\ Len(Whole) = Len(buf)
      /\ cut = FALSE /\ cursor = 0 /\ part = None /\ end = None /\ got = <<>>
  BY <1>1, WritingAll
<1>3. /\ Undisturbed' = Undisturbed /\ Whole' = Whole
      /\ written \in Seq(Descriptors) /\ form \in {"bare", "wrapped"}
  BY <1>1, Steady, BufferTyped DEF Inv
<1>4. /\ buf' \in Bytes /\ Len(buf') \in Nat /\ cut' \in BOOLEAN
      /\ Len(buf') <= Len(Whole) /\ (cut' <=> Len(buf') < Len(Whole))
      /\ \A i \in 1..Len(buf') : buf'[i] = Whole[i]
  <2>1. CASE buf' = buf /\ cut' = cut
    <3>1. buf' \in Bytes /\ buf' = Whole /\ cut' = FALSE
      BY <1>2, <2>1
    <3>2. Len(buf') \in Nat /\ Len(buf') = Len(Whole)
      BY <1>2, <2>1
    <3>3. Len(buf') <= Len(Whole) /\ ~(Len(buf') < Len(Whole))
      BY <3>2
    <3> QED
      BY <3>1, <3>2, <3>3
  <2>2. CASE cut' = TRUE /\ \E n \in 0..Len(buf) - 1 : buf' = SubSeq(buf, 1, n)
    <3>1. PICK n \in 0..Len(buf) - 1 : buf' = SubSeq(buf, 1, n)
      BY <2>2
    <3>2. 0 \in 0..Len(buf) /\ n \in 0..Len(buf) /\ n \in Nat /\ n < Len(buf)
      BY <1>2
    <3>3. /\ SubSeq(buf, 0 + 1, n) \in Seq(0..Radix - 1)
          /\ Len(SubSeq(buf, 0 + 1, n)) = n - 0
          /\ \A i \in 1..n - 0 : SubSeq(buf, 0 + 1, n)[i] = buf[0 + i]
      BY <1>2, <3>2, Slice DEF Bytes
    <3>4. /\ 0 + 1 = 1 /\ n - 0 = n
          /\ \A i \in 1..n : 0 + i = i
      BY <3>2
    <3>5. /\ buf' \in Seq(0..Radix - 1) /\ Len(buf') = n
          /\ \A i \in 1..n : buf'[i] = buf[i]
      BY <3>1, <3>3, <3>4
    <3> QED
      BY <1>2, <2>2, <3>2, <3>5 DEF Bytes
  <2> QED
    BY <1>1, <2>1, <2>2
<1>5. BufferInv'
  BY <1>3, <1>4 DEF BufferInv
<1>6. FreshInv' /\ EndInv'
  BY <1>1 DEF FreshInv, EndInv
<1>7. DOMAIN got' = {} /\ Len(got') = 0
  BY <1>1, <1>2
<1>8. Len(Undisturbed) \in Nat
  BY <1>3, UndisturbedPrefix
<1>9. GotInv'
  BY <1>3, <1>7, <1>8 DEF GotInv
<1>10. PlaceInv'
  <2>1. Start(0) = 0
    BY Places DEF Inv
  <2>2. Standing(0)'
    BY <1>1, <1>2, <2>1, StandingAt
  <2> QED
    BY <1>7, <2>2 DEF PlaceInv
<1>11. TypeOK'
  <2>1. /\ form' \in {"bare", "wrapped"} /\ written' \in Seq(Descriptors)
        /\ status' \in {"writing", "reading", "done", "error"}
        /\ end' \in Optional(Nat) /\ part' \in Optional(Parsed)
        /\ place' \in 1..Len(Layout) + 1 /\ got' \in Seq(Parsed)
    BY <1>1 DEF Inv, TypeOK
  <2>2. cursor' \in 0..Len(buf)'
    BY <1>1, <1>2, <1>4
  <2>3. buf' \in Seq(0..Radix - 1)
    BY <1>4 DEF Bytes
  <2>4. \A i \in DOMAIN got' \cap DOMAIN Undisturbed' :
          got'[i].version > 0 /\ got'[i].flags \in 0..255
    BY <1>7
  <2> QED
    BY <1>4, <2>1, <2>2, <2>3, <2>4 DEF TypeOK
<1> QED
  BY <1>5, <1>6, <1>9, <1>10, <1>11 DEF Inv

LEMMA NothingRead ==
  ASSUME Inv, UNCHANGED vars
  PROVE  Inv'
<1>1. /\ form' = form /\ written' = written /\ buf' = buf /\ cut' = cut
      /\ status' = status /\ cursor' = cursor /\ part' = part /\ place' = place
      /\ end' = end /\ got' = got
  BY DEF vars
<1>2. /\ Undisturbed' = Undisturbed /\ Whole' = Whole
      /\ Clean' = Clean /\ FailsLast' = FailsLast
  BY <1>1, Steady
<1>3. TypeOK' /\ BufferInv' /\ FreshInv' /\ GotInv' /\ EndInv'
  BY <1>1, <1>2 DEF Inv, TypeOK, BufferInv, FreshInv, GotInv, EndInv
<1>4. \A k : Standing(k)' <=> Standing(k)
  BY <1>1, Steady DEF Standing, InDescriptor, InWrapper, AtField
<1>5. PlaceInv'
  BY <1>1, <1>2, <1>4 DEF Inv, PlaceInv
<1> QED
  BY <1>3, <1>5 DEF Inv

LEMMA StepKeepsInv ==
  ASSUME Inv, [Next]_vars
  PROVE  Inv'
<1>1. CASE \E dd \in Descriptors : WriteBare(dd) \/ WriteWrapped(dd)
  BY <1>1, WriteStep
<1>2. CASE Deliver \/ DeliverCut
  BY <1>2, DeliverStep
<1>3. CASE ReadWrapper
  BY <1>3, ReadWrapperStep
<1>4. CASE ReadHead
  BY <1>4, ReadHeadStep
<1>5. CASE ReadField
  BY <1>5, ReadFieldStep
<1>6. CASE FinishDescriptor
  BY <1>6, FinishDescriptorStep
<1>7. CASE FinishBuffer
  BY <1>7, FinishBufferStep
<1>8. CASE UNCHANGED vars
  BY <1>8, NothingRead
<1> QED
  BY <1>1, <1>2, <1>3, <1>4, <1>5, <1>6, <1>7, <1>8 DEF Next

LEMMA InitInv ==
  ASSUME Init
  PROVE  Inv
<1>1. /\ form \in {"bare", "wrapped"} /\ written = <<>> /\ buf = <<>> /\ cut = FALSE
      /\ status = "writing" /\ cursor = 0 /\ part = None /\ place = 1 /\ end = None
      /\ got = <<>>
  BY DEF Init
<1>2. written \in Seq(Descriptors) /\ buf \in Seq(0..Radix - 1) /\ got \in Seq(Parsed)
  BY <1>1
<1>3. Expected = <<>>
  BY <1>1, AcceptedNone DEF Expected
<1>4. Whole = <<>>
  <2>1. Codes \in Seq(Bytes) /\ Len(Codes) = 0
    BY <1>3, CodesTyped
  <2> QED
    BY <2>1, JoinedBytes DEF Whole
<1>5. BufferInv
  BY <1>1, <1>4 DEF BufferInv
<1>6. FreshInv /\ PlaceInv /\ EndInv
  BY <1>1 DEF FreshInv, PlaceInv, EndInv
<1>7. DOMAIN got = {} /\ Len(got) = 0 /\ Len(Undisturbed) \in Nat
  BY <1>1, <1>2, UndisturbedPrefix
<1>8. GotInv
  BY <1>7 DEF GotInv
<1>9. TypeOK
  <2>1. 0 \in 0..Len(buf) /\ 1 \in 1..Len(Layout) + 1
    BY <1>1, EightFields
  <2> QED
    BY <1>1, <1>2, <1>7, <2>1 DEF TypeOK, Optional
<1> QED
  BY <1>5, <1>6, <1>8, <1>9 DEF Inv

-----------------------------------------------------------------------------
(* What the invariant says of the reader.                                  *)

LEMMA InvReadsBack ==
  ASSUME Inv
  PROVE  ReadsBackCanonical
<1>1. \A i \in DOMAIN got \cap DOMAIN Undisturbed : got[i] = Canonical(Undisturbed[i])
  BY DEF Inv, GotInv
<1>2. ASSUME Clean
      PROVE  /\ ~cut => status # "error"
             /\ Len(got) <= Len(Undisturbed)
             /\ status = "done" => (cut <=> Len(got) < Len(Undisturbed))
  <2>1. FailsLast
    BY <1>2 DEF FailsLast
  <2> QED
    BY <1>2, <2>1 DEF Inv, GotInv, EndInv
<1> QED
  BY <1>1, <1>2 DEF ReadsBackCanonical, Clean

LEMMA InvLeftover ==
  ASSUME Inv
  PROVE  LeftoverNoticed
<1>1. SUFFICES ASSUME form = "bare", FirstFailure # 0, FirstFailure = Len(written)
               PROVE  Len(got) < Len(written) /\ (~cut => status # "done")
  BY DEF LeftoverNoticed
<1>2. FailsLast /\ ~Clean
  BY <1>1 DEF FailsLast, Clean
<1>3. /\ Len(Undisturbed) = FirstFailure - 1 /\ FirstFailure \in 1..Len(written)
      /\ Len(got) \in Nat /\ written \in Seq(Descriptors)
  BY <1>2, BufferTyped, UndisturbedPrefix DEF Inv
<1>4. Len(got) <= Len(Undisturbed)
  BY <1>2 DEF Inv, GotInv
<1>5. Len(got) < Len(written)
  BY <1>1, <1>3, <1>4
<1>6. ~cut => status # "done"
  BY <1>2 DEF Inv, EndInv
<1> QED
  BY <1>5, <1>6

LEMMA InvAlways == Spec => []Inv
<1>1. Init => Inv
  BY InitInv
<1>2. Inv /\ [Next]_vars => Inv'
  BY StepKeepsInv
<1> QED
  BY <1>1, <1>2, PTL DEF Spec

(* The reader's state is well formed throughout, and what it has taken for *)
(* one of the undisturbed descriptors has a version and a byte of flags.   *)
THEOREM DescriptorTypeCorrect == Spec => []TypeOK
<1>1. Inv => TypeOK
  BY DEF Inv
<1> QED
  BY <1>1, InvAlways, PTL

(* write_data_descriptor and wrap_encrypted_with_key: every descriptor     *)
(* that was accepted reads back canonically and in its place, whatever     *)
(* else is in the buffer, and a buffer that has lost its end never yields  *)
(* as many.                                                                *)
THEOREM AcceptedReadsBack == Spec => []ReadsBackCanonical
<1>1. Inv => ReadsBackCanonical
  BY InvReadsBack
<1> QED
  BY <1>1, InvAlways, PTL

(* The early returns of write_data_descriptor: what a failed write leaves  *)
(* at the end of a buffer is never taken for a whole descriptor.           *)
THEOREM LeftoverIsNoticed == Spec => []LeftoverNoticed
<1>1. Inv => LeftoverNoticed
  BY InvLeftover
<1> QED
  BY <1>1, InvAlways, PTL
=============================================================================
