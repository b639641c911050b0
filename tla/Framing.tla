------------------------------ MODULE Framing ------------------------------
(***************************************************************************)
(* The length in bytes of everything the crate serializes on the way from  *)
(* an encrypted descriptor to an EVAL_NOTARY_EVIDENCE output script.  The  *)
(* split into several outputs is decided on these lengths alone, so the    *)
(* bytes themselves are left out.                                          *)
(***************************************************************************)
EXTENDS Integers, FiniteSets

(* write_compact_size.  The u32 bound is tested on n \div 2^16.            *)
CompactSizeLen(n) ==
  CASE n < 253                                 -> 1
    [] 253 <= n /\ n <= 65535                  -> 3
    [] 65535 < n /\ n \div 65536 <= 65535      -> 5
    [] OTHER                                   -> 9

(* write_varint_u64: one byte, and one more for every turn of the loop     *)
(* that n > 127 causes; the tenth byte is the last of the tmp buffer.      *)
VarIntLen(n) ==
  LET rest[k \in 0..9] == IF k = 0 THEN n ELSE rest[k - 1] \div 128 - 1
  IN  IF n <= 127 THEN 1 ELSE 2 + Cardinality({k \in 2..9 : rest[k] >= 0})

VarBytesLen(n) == CompactSizeLen(n) + n

(* write_push: 1-byte prefix, OP_PUSHDATA1, OP_PUSHDATA2, OP_PUSHDATA4.    *)
PushLen(n) ==
  n + (CASE n < 76                  -> 1
         [] 76 <= n /\ n <= 255     -> 2
         [] 255 < n /\ n <= 65535   -> 3
         [] OTHER                   -> 5)

(* A CVDXF_Data wrapper: 20-byte key, VARINT version, var bytes.           *)
CvdxfDataLen(n) == 20 + VarIntLen(1) + VarBytesLen(n)

(* A CDataDescriptor without vdxf_key, salt and ssk, which no caller in    *)
(* this crate sets: VARINT version and flags, objectData, then the bytes   *)
(* of the optional fields that are present.                                *)
DescriptorLen(object, optional) == 2 + VarBytesLen(object) + optional

-----------------------------------------------------------------------------
(* A CNotaryEvidence: the fixed header (version, type, systemID, output,   *)
(* state), the proof's version and chain-object count, the chain objects.  *)
NotaryEvidenceLen(count, objects) ==
  (1 + 1 + 20 + 32 + 4 + 1) + 4 + VarIntLen(count) + objects

(* CChainObject<CEvidenceData> in its TYPE_DATA shape, over n data bytes.  *)
DataObjectLen(n) == 2 + 3 * VarIntLen(1) + 20 + VarBytesLen(n)

(* CChainObject<CEvidenceData> in its TYPE_MULTIPART_DATA shape.           *)
MultipartObjectLen(index, total, start, n) ==
  2 + 3 * VarIntLen(1) + VarIntLen(index) + VarIntLen(total)
    + VarIntLen(start) + VarBytesLen(n)

MultipartEvidenceLen(index, total, start, n) ==
  NotaryEvidenceLen(1, MultipartObjectLen(index, total, start, n))

EmptyEvidenceLen == NotaryEvidenceLen(0, 0)

(* A pushed COptCCParams: the 4-byte header, the 33-byte public key and    *)
(* the bytes pushed after them.                                            *)
OptCCParamsLen(data) == PushLen(PushLen(4) + PushLen(33) + data)

(* push(master) OP_CHECKCRYPTOCONDITION push(params over n bytes) OP_DROP  *)
ScriptLen(n) == OptCCParamsLen(0) + 1 + OptCCParamsLen(PushLen(n)) + 1
=============================================================================
