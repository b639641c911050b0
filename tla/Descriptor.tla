----------------------------- MODULE Descriptor -----------------------------
(***************************************************************************)
(* CDataDescriptor and the CVDXF_Data and CVDXFDataRef values around it    *)
(* (data_descriptor.rs, vdxf.rs, data_ref.rs).  A byte string is a record  *)
(* with its length and its parts; a serialized descriptor is what a reader *)
(* gets back by following the flags, so a field whose flag is clear is     *)
(* None there.                                                             *)
(***************************************************************************)
EXTENDS Framing, Option

CONSTANT Contents    \* what byte strings can say

LabelCap == 64
MimeCap  == 128

Bytes(id, n) == [id |-> id, len |-> n]

ByteStrings == [id : Contents, len : Nat]

FLAG_ENCRYPTED_DATA                == 1
FLAG_ENCRYPTION_PUBLIC_KEY_PRESENT == 4
FLAG_INCOMING_VIEWING_KEY_PRESENT  == 8
FLAG_LABEL_PRESENT                 == 32
FLAG_MIME_TYPE_PRESENT             == 64

(* DataDescriptor::default() with an object and version 1.                 *)
NewDescriptor(object) ==
  [encrypted |-> FALSE, object |-> object,
   label |-> None, mime |-> None, epk |-> None, ivk |-> None]

(* is_nonempty_str: Some("") counts as absent.                             *)
NonEmpty(s) == s # None /\ s.len > 0

(* calc_flags, as the set of the bits it sets.                             *)
CalcFlags(dd) ==
       {f \in {FLAG_ENCRYPTED_DATA} : dd.encrypted}
  \cup {f \in {FLAG_LABEL_PRESENT} : NonEmpty(dd.label)}
  \cup {f \in {FLAG_MIME_TYPE_PRESENT} : NonEmpty(dd.mime)}
  \cup {f \in {FLAG_ENCRYPTION_PUBLIC_KEY_PRESENT} : dd.epk # None}
  \cup {f \in {FLAG_INCOMING_VIEWING_KEY_PRESENT} : dd.ivk # None}

(* write_limited_string's test, on the fields in the order they are        *)
(* written: the cap that rejects the descriptor, or None.                  *)
TooLong(s, cap) == s # None /\ s.len > cap

(* A mutant caps the label only.                                           *)
LimitedStringErrorLabelOnly(dd) ==
  IF TooLong(dd.label, LabelCap) THEN LabelCap ELSE None

LimitedStringError(dd) ==
  CASE TooLong(dd.label, LabelCap) -> LabelCap
    [] ~TooLong(dd.label, LabelCap) /\ TooLong(dd.mime, MimeCap) -> MimeCap
    [] OTHER -> None

(* write_data_descriptor, where no cap rejects.                            *)
WriteDescriptor(dd) ==
  LET flags     == CalcFlags(dd)
      Kept(f, field) == IF f \in flags THEN field ELSE None
      FieldLen(f, n) == IF f \in flags THEN VarBytesLen(n) ELSE 0
  IN  [flags  |-> flags,
       object |-> dd.object,
       label  |-> Kept(FLAG_LABEL_PRESENT, dd.label),
       mime   |-> Kept(FLAG_MIME_TYPE_PRESENT, dd.mime),
       epk    |-> Kept(FLAG_ENCRYPTION_PUBLIC_KEY_PRESENT, dd.epk),
       ivk    |-> Kept(FLAG_INCOMING_VIEWING_KEY_PRESENT, dd.ivk),
       len    |-> DescriptorLen(dd.object.len,
                      FieldLen(FLAG_LABEL_PRESENT, dd.label.len)
                    + FieldLen(FLAG_MIME_TYPE_PRESENT, dd.mime.len)
                    + FieldLen(FLAG_ENCRYPTION_PUBLIC_KEY_PRESENT, 32)
                    + FieldLen(FLAG_INCOMING_VIEWING_KEY_PRESENT, 32))]

-----------------------------------------------------------------------------
DATA_DESCRIPTOR_KEY == "DataDescriptorKey"
SIGNATURE_DATA_KEY  == "SignatureDataKey"

(* write_cvdxf_data                                                        *)
CvdxfData(key, data) ==
  [key |-> key, data |-> data, len |-> CvdxfDataLen(data.len)]

(* write_cvdxf_data_ref_self_ref: the hash is zero, for "this transaction".*)
SelfRef(vout, object_num, sub_object) ==
  [vout |-> vout, objectNum |-> object_num, subObject |-> sub_object,
   len  |-> CvdxfDataLen(1 + 2 * VarIntLen(1) + 32 + 4
                           + VarIntLen(object_num) + VarIntLen(sub_object))]
=============================================================================
