-------------------------- MODULE DescriptorBytes --------------------------
(***************************************************************************)
(* CDataDescriptor byte by byte (data_descriptor.rs): a caller appends     *)
(* descriptors to one buffer, bare as in a contentmultimap entry or each   *)
(* wrapped in a CVDXF_Data, and a reader that follows the flags reads them *)
(* back.  The writer stops in the middle of a bare descriptor whose label  *)
(* or mime type is over its cap; what it has written stays in the buffer,  *)
(* and the caller may go on.                                               *)
(***************************************************************************)
EXTENDS Encoding, Option

CONSTANTS
  KeyBytes,       \* 20: the bytes of a VDXF key
  LabelCap,       \* 64
  MimeCap,        \* 128
  MaxSize,        \* MAX_SIZE, 0x02000000: the longest byte string a reader takes
  Descriptors,    \* what callers write: the fields of DataDescriptor
  MaxWrites       \* bound on the descriptors of one buffer

ByteStrings == {s \in Seq(0..Radix - 1) : Len(s) <= MaxSize}

Optional(S) == {None} \cup S

(* What a reader makes of a byte string, and of a descriptor.              *)
Read(value, next) == [value |-> value, next |-> next]

ReadResults == [value : Nat \cup Seq(0..Radix - 1), next : Nat]

Parsed ==
  LET Text == Optional(Seq(0..Radix - 1))
  IN  [version : Nat, flags : Nat, vdxf_key : Text, object_data : Text,
       label : Text, mime_type : Text, salt : Text, epk : Text, ivk : Text, ssk : Text]

ASSUME NoneAssumption ==
  None \notin Nat \cup Seq(0..Radix - 1) \cup ReadResults \cup Parsed

ASSUME DescriptorAssumption ==
  /\ KeyBytes \in 1..Radix - 1 /\ MaxSize \in 0..MaxU64
  /\ LabelCap \in Nat /\ MimeCap \in Nat /\ MaxWrites \in Nat
  /\ Descriptors \subseteq
       [encrypted : BOOLEAN, version : 0..MaxU64,
        vdxf_key : Optional({k \in ByteStrings : Len(k) = KeyBytes}),
        object_data : ByteStrings,
        label : Optional(ByteStrings), mime_type : Optional(ByteStrings),
        salt : Optional(ByteStrings), epk : Optional(ByteStrings),
        ivk : Optional(ByteStrings), ssk : Optional(ByteStrings)]

-----------------------------------------------------------------------------
DEFAULT_VERSION == 1

(* The bits of the flag word, by the field they announce.                  *)
FlagOf ==
  [encrypted |-> 1, salt |-> 2, epk |-> 4, ivk |-> 8, ssk |-> 16,
   label |-> 32, mime_type |-> 64, vdxf_key |-> 128]

(* is_nonempty_bytes, is_nonempty_str: an empty Some counts as absent, but *)
(* a null vdxf_key does not.                                               *)
Present(dd, f) ==
  CASE f = "encrypted" -> dd.encrypted
    [] f = "vdxf_key"  -> dd.vdxf_key # None
    [] OTHER           -> dd[f] # None /\ dd[f] # <<>>

OverCap(dd, f) ==
  \/ f = "label" /\ Present(dd, f) /\ Len(dd[f]) > LabelCap
  \/ f = "mime_type" /\ Present(dd, f) /\ Len(dd[f]) > MimeCap

BitsOf(fields) ==
  LET Bit(f) == IF f \in fields THEN FlagOf[f] ELSE 0
  IN  Bit("encrypted") + Bit("salt") + Bit("epk") + Bit("ivk") + Bit("ssk")
        + Bit("label") + Bit("mime_type") + Bit("vdxf_key")

(* calc_flags.  A mutant takes a field over its cap for absent.            *)
CalcFlagsWithinCaps(dd) ==
  BitsOf({f \in DOMAIN FlagOf : Present(dd, f) /\ ~OverCap(dd, f)})

CalcFlags(dd) == BitsOf({f \in DOMAIN FlagOf : Present(dd, f)})

HasFlag(flags, f) == (flags \div FlagOf[f]) % 2 = 1

(* The object has no flag: it is always there.                             *)
Announced(flags, f) == f # "object_data" => HasFlag(flags, f)

(* A mutant writes the version as it is.                                   *)
VersionAsIs(dd) == dd.version

Version(dd) == IF dd.version = 0 THEN DEFAULT_VERSION ELSE dd.version

(* The fields behind the flag word, in the order they are written.  A      *)
(* mutant has the mime type before the label.                              *)
WriteOrderMimeFirst ==
  <<"vdxf_key", "object_data", "mime_type", "label", "salt", "epk", "ivk", "ssk">>

WriteOrder ==
  <<"vdxf_key", "object_data", "label", "mime_type", "salt", "epk", "ivk", "ssk">>

(* write_data_descriptor: the field whose cap stops it, as a place in      *)
(* WriteOrder, and what it has appended to the buffer by then.             *)
Stop(dd) ==
  SelectInSeq(WriteOrder, LAMBDA f : Announced(CalcFlags(dd), f) /\ OverCap(dd, f))

Fails(dd) == Stop(dd) # 0

Piece(dd, f) ==
  IF ~Announced(CalcFlags(dd), f) THEN <<>>
  ELSE IF f = "vdxf_key" THEN dd.vdxf_key ELSE WriteVarBytes(dd[f])

Pieces(dd) ==
  LET whole == IF Fails(dd) THEN Stop(dd) - 1 ELSE Len(WriteOrder)
  IN  [j \in 1..whole |-> Piece(dd, WriteOrder[j])]

Appended(dd) ==
  WriteVarInt(Version(dd)) \o WriteVarInt(CalcFlags(dd)) \o FlattenSeq(Pieces(dd))

DATA_DESCRIPTOR_KEY == [i \in 1..KeyBytes |-> i]

(* write_cvdxf_data                                                        *)
CvdxfData(data) == DATA_DESCRIPTOR_KEY \o WriteVarInt(1) \o WriteVarBytes(data)

(* A wrapped descriptor is a byte string of its own.                       *)
ASSUME SizeAssumption == \A dd \in Descriptors : Len(Appended(dd)) <= MaxSize

-----------------------------------------------------------------------------
VARIABLES
  form,       \* "bare" or "wrapped"
  written,    \* the descriptors the caller has handed to the writer
  buf,        \* the buffer
  cut,        \* whether it lost its end on the way to the reader
  status,     \* "writing", "reading", "done" or "error"
  cursor,     \* the reader's cursor, 0-based
  part,       \* the descriptor being read, or None
  place,      \* the field to read next, as a place in Layout
  end,        \* where its wrapper says it ends, or None
  got         \* the descriptors read

vars == <<form, written, buf, cut, status, cursor, part, place, end, got>>

reader == <<cursor, part, place, end, got>>

Init ==
  /\ form \in {"bare", "wrapped"}
  /\ written = <<>> /\ buf = <<>> /\ cut = FALSE /\ status = "writing"
  /\ cursor = 0 /\ part = None /\ place = 1 /\ end = None /\ got = <<>>

MayWrite(dd) ==
  /\ status = "writing" /\ Len(written) < MaxWrites
  /\ written' = Append(written, dd)
  /\ UNCHANGED <<form, cut, status, reader>>

(* write_data_descriptor on the caller's own buffer.                       *)
WriteBare(dd) ==
  /\ form = "bare" /\ MayWrite(dd)
  /\ buf' = buf \o Appended(dd)

(* wrap_encrypted_with_key's plaintext: the descriptor is written into a   *)
(* buffer of its own, which an error drops.                                *)
WriteWrapped(dd) ==
  /\ form = "wrapped" /\ MayWrite(dd)
  /\ buf' = IF Fails(dd) THEN buf ELSE buf \o CvdxfData(Appended(dd))

Deliver ==
  /\ status = "writing" /\ status' = "reading"
  /\ UNCHANGED <<form, written, buf, cut, reader>>

DeliverCut ==
  /\ status = "writing" /\ status' = "reading"
  /\ \E k \in 0..Len(buf) - 1 : buf' = SubSeq(buf, 1, k)
  /\ cut' = TRUE
  /\ UNCHANGED <<form, written, reader>>

-----------------------------------------------------------------------------
(* The daemon's reader.  What stands at an offset, and the offset behind   *)
(* it; None at the end of the buffer.                                      *)
BytesAt(at, n) ==
  IF at + n > Len(buf) THEN None ELSE Read(SubSeq(buf, at + 1, at + n), at + n)

VarIntAt(at) ==
  LET last  == SelectInSubSeq(buf, at + 1, Len(buf), LAMBDA ch : ch < Base)
      value == VarIntValue(SubSeq(buf, at + 1, last))
  IN  IF last = 0 \/ last - at > TmpSize \/ value > MaxU64 THEN None
      ELSE Read(value, last)

CompactSizeAt(at) ==
  LET tag    == buf[at + 1]
      digits == BytesAt(at + 1, Width(tag))
      value  == IF Width(tag) = 0 THEN tag ELSE LeValue(digits.value)
  IN  IF at = Len(buf) \/ digits = None \/ value < LeastOf(tag) \/ value > MaxSize
      THEN None ELSE Read(value, digits.next)

Then(read, At(_)) == IF read = None THEN None ELSE At(read.next)

VarBytesAt(at) ==
  LET size == CompactSizeAt(at)
  IN  IF size = None THEN None ELSE BytesAt(size.next, size.value)

Reading == status = "reading" /\ UNCHANGED <<form, written, buf, cut>>

Refuse ==
  /\ status' = "error"
  /\ UNCHANGED reader

Layout == <<"vdxf_key", "object_data", "label", "mime_type", "salt", "epk",
            "ivk", "ssk">>

Blank(version, flags) ==
  [version |-> version, flags |-> flags, vdxf_key |-> None,
   object_data |-> <<>>, label |-> None, mime_type |-> None,
   salt |-> None, epk |-> None, ivk |-> None, ssk |-> None]

(* Version and flags, which say what is to come.                           *)
ReadHead ==
  /\ Reading /\ part = None /\ cursor < Len(buf)
  /\ form = "wrapped" => end # None
  /\ LET version == VarIntAt(cursor)
         flags   == Then(version, VarIntAt)
     IN  \/ flags = None /\ Refuse
         \/ /\ flags # None
            /\ part' = Blank(version.value, flags.value)
            /\ place' = 1
            /\ cursor' = flags.next
            /\ UNCHANGED <<status, end, got>>

(* The next field in Layout, if it was announced.                          *)
ReadField ==
  /\ Reading /\ part # None /\ place <= Len(Layout)
  /\ LET f     == Layout[place]
         field == IF f = "vdxf_key" THEN BytesAt(cursor, KeyBytes)
                  ELSE VarBytesAt(cursor)
     IN  \/ /\ ~Announced(part.flags, f)
            /\ place' = place + 1
            /\ UNCHANGED <<status, cursor, part, end, got>>
         \/ Announced(part.flags, f) /\ field = None /\ Refuse
         \/ /\ Announced(part.flags, f) /\ field # None
            /\ part' = [part EXCEPT ![f] = field.value]
            /\ cursor' = field.next /\ place' = place + 1
            /\ UNCHANGED <<status, end, got>>

ReadWrapper ==
  /\ Reading /\ form = "wrapped" /\ part = None /\ end = None /\ cursor < Len(buf)
  /\ LET key     == BytesAt(cursor, KeyBytes)
         version == Then(key, VarIntAt)
         size    == Then(version, CompactSizeAt)
     IN  \/ size = None /\ Refuse
         \/ /\ size # None
            /\ end' = size.next + size.value /\ cursor' = size.next
            /\ UNCHANGED <<status, part, place, got>>

(* The whole of the wrapper must be used up.                               *)
FinishDescriptor ==
  /\ Reading /\ part # None /\ place > Len(Layout)
  /\ status' = IF end \in {None, cursor} THEN status ELSE "error"
  /\ got' = Append(got, part) /\ part' = None /\ end' = None
  /\ UNCHANGED <<cursor, place>>

FinishBuffer ==
  /\ Reading /\ part = None /\ cursor = Len(buf)
  /\ status' = "done"
  /\ UNCHANGED reader

Next ==
  \/ \E dd \in Descriptors : WriteBare(dd) \/ WriteWrapped(dd)
  \/ Deliver \/ DeliverCut
  \/ ReadWrapper \/ ReadHead \/ ReadField \/ FinishDescriptor \/ FinishBuffer

Spec == Init /\ [][Next]_vars
-----------------------------------------------------------------------------
(* The one form of a descriptor's contents: an empty field is absent,      *)
(* version 0 is the default.                                               *)
Canonical(dd) ==
  LET Kept(f) == IF dd[f] = <<>> THEN None ELSE dd[f]
      Set(f)  == IF f = "encrypted" THEN dd.encrypted ELSE Kept(f) # None
  IN  [version |-> IF dd.version = 0 THEN 1 ELSE dd.version,
       flags   |-> BitsOf({f \in DOMAIN FlagOf : Set(f)}),
       vdxf_key |-> dd.vdxf_key, object_data |-> dd.object_data,
       label |-> Kept("label"), mime_type |-> Kept("mime_type"),
       salt |-> Kept("salt"), epk |-> Kept("epk"),
       ivk |-> Kept("ivk"), ssk |-> Kept("ssk")]

WithinCaps(dd) ==
  /\ dd.label = None \/ Len(dd.label) <= LabelCap
  /\ dd.mime_type = None \/ Len(dd.mime_type) <= MimeCap

FirstFailure == SelectInSeq(written, LAMBDA dd : ~WithinCaps(dd))

(* SelectSeq(dds, WithinCaps): a recursive function can be proved about.   *)
Accepted(dds) ==
  LET kept[i \in 0..Len(dds)] ==
        IF i = 0 THEN <<>>
        ELSE IF WithinCaps(dds[i]) THEN Append(kept[i - 1], dds[i]) ELSE kept[i - 1]
  IN  kept[Len(dds)]

(* The descriptors whose bytes no failed write can have disturbed.         *)
Undisturbed ==
  CASE form = "wrapped"                    -> Accepted(written)
    [] form = "bare" /\ FirstFailure = 0   -> written
    [] form = "bare" /\ FirstFailure # 0   -> SubSeq(written, 1, FirstFailure - 1)

TypeOK ==
  /\ form \in {"bare", "wrapped"} /\ cut \in BOOLEAN
  /\ written \in Seq(Descriptors) /\ buf \in Seq(0..Radix - 1)
  /\ status \in {"writing", "reading", "done", "error"}
  /\ cursor \in 0..Len(buf) /\ end \in Optional(Nat)
  /\ part \in Optional(Parsed) /\ place \in 1..Len(Layout) + 1
  /\ got \in Seq(Parsed)
  /\ \A i \in DOMAIN got \cap DOMAIN Undisturbed :
       got[i].version > 0 /\ got[i].flags \in 0..255

(* However many descriptors share a buffer, and whichever optional fields  *)
(* they have, each that was accepted reads back in canonical form, in its  *)
(* place, with nothing read across its end; a failed write disturbs none   *)
(* before it, and none at all where the writer has a buffer of its own.  A *)
(* buffer that has lost its end never yields as many (write_data_descriptor*)
(* and wrap_encrypted_with_key).                                           *)
ReadsBackCanonical ==
  /\ \A i \in DOMAIN got \cap DOMAIN Undisturbed :
       got[i] = Canonical(Undisturbed[i])
  /\ form = "wrapped" \/ FirstFailure = 0 =>
       /\ ~cut => status # "error"
       /\ Len(got) <= Len(Undisturbed)
       /\ status = "done" => (cut <=> Len(got) < Len(Undisturbed))

(* What a failed write leaves at the end of a buffer is never taken for a  *)
(* whole descriptor: a caller that published it would be found out by the  *)
(* reader (the early returns of write_data_descriptor).                    *)
LeftoverNoticed ==
  form = "bare" /\ FirstFailure # 0 /\ FirstFailure = Len(written) =>
    Len(got) < Len(written) /\ (~cut => status # "done")
=============================================================================
