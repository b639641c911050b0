----------------------------- MODULE WireCodec -----------------------------
(***************************************************************************)
(* The writers and readers of wire.rs.  A writer appends fields to a       *)
(* buffer, the buffer is delivered whole, cut short or with a byte         *)
(* changed, and a reader with a cursor reads the same kinds of field back. *)
(***************************************************************************)
EXTENDS Encoding

CONSTANTS
  MaxSize,      \* MAX_SIZE, 0x02000000
  Fields,       \* the [kind, value] records a writer may append
  MaxFields     \* bound on the fields of one buffer

ASSUME WireAssumption ==
  /\ MaxSize \in 0..MaxU64 /\ MaxFields \in Nat
  /\ Fields \subseteq [kind : {"compact", "varint"}, value : 0..MaxU64]

-----------------------------------------------------------------------------
Encode(field) ==
  IF field.kind = "compact" THEN WriteCompactSize(field.value)
  ELSE WriteVarInt(field.value)

-----------------------------------------------------------------------------
VARIABLES
  written,    \* the fields appended to the buffer
  buf,        \* the buffer
  damage,     \* what happened to it on the way to the reader
  cursor,     \* the reader's cursor, 0-based
  acc,        \* read_varint_u64's n
  got,        \* the values read
  status      \* "writing", "reading", "done" or the reader's WireError

vars == <<written, buf, damage, cursor, acc, got, status>>

Init ==
  /\ written = <<>> /\ buf = <<>> /\ damage = "none"
  /\ cursor = 0 /\ acc = 0 /\ got = <<>>
  /\ status = "writing"

Write(field) ==
  /\ status = "writing" /\ Len(written) < MaxFields
  /\ written' = Append(written, field)
  /\ buf' = buf \o Encode(field)
  /\ UNCHANGED <<damage, cursor, acc, got, status>>

Deliver(bytes, how) ==
  /\ status = "writing"
  /\ buf' = bytes /\ damage' = how
  /\ status' = "reading"
  /\ UNCHANGED <<written, cursor, acc, got>>

DeliverWhole == Deliver(buf, "none")

Truncate == \E k \in 0..Len(buf) - 1 : Deliver(SubSeq(buf, 1, k), "truncated")

Corrupt ==
  \E i \in DOMAIN buf, b \in 0..Radix - 1 :
    b # buf[i] /\ Deliver([buf EXCEPT ![i] = b], "corrupted")

-----------------------------------------------------------------------------
(* A reader called for the next field of the given kind.                   *)
NextIs(kind) ==
  /\ status = "reading" /\ Len(got) < Len(written)
  /\ written[Len(got) + 1].kind = kind

Fail(error, at) ==
  /\ status' = error /\ cursor' = at
  /\ UNCHANGED <<written, buf, damage, acc, got>>

Accept(value, at) ==
  /\ got' = Append(got, value) /\ cursor' = at /\ acc' = 0
  /\ UNCHANGED <<written, buf, damage, status>>

(* The cursor behind the digits, as take_slice finds it.  A mutant makes do *)
(* with the digits there are.                                              *)
EndClamped(tag) ==
  IF cursor + 1 + Width(tag) > Len(buf) THEN Len(buf)
  ELSE cursor + 1 + Width(tag)

End(tag) == cursor + 1 + Width(tag)

(* read_compact_size: an end of buffer inside the digits leaves the cursor *)
(* behind the tag, a value that is refused leaves it behind the digits.    *)
ReadCompactSize ==
  /\ NextIs("compact")
  /\ \/ /\ cursor = Len(buf)
        /\ Fail("UnexpectedEof", cursor)
     \/ /\ cursor < Len(buf)
        /\ LET tag   == buf[cursor + 1]
               end   == End(tag)
               value == IF Width(tag) = 0 THEN tag
                        ELSE LeValue(SubSeq(buf, cursor + 2, end))
           IN
           \/ end > Len(buf) /\ Fail("UnexpectedEof", cursor + 1)
           \/ end <= Len(buf) /\ value < LeastOf(tag)
                /\ Fail("NonCanonicalCompactSize", end)
           \/ end <= Len(buf) /\ value >= LeastOf(tag) /\ value > MaxSize
                /\ Fail("CompactSizeTooLarge", end)
           \/ end <= Len(buf) /\ value >= LeastOf(tag) /\ value <= MaxSize
                /\ Accept(value, end)

(* The shift of read_varint_u64, in a u64.  A mutant has no test for the   *)
(* bits it loses.                                                          *)
Shifted(digit) == ((acc * Base) % (MaxU64 + 1)) + digit

LosesBitsNever == FALSE
LosesBits      == acc > MaxU64 \div Base

(* The increment of a full word; a mutant has no test for it either.       *)
FullNever(n) == n < 0
Full(n)      == n = MaxU64

(* One turn of read_varint_u64's loop.                                     *)
ReadVarIntByte ==
  /\ NextIs("varint")
  /\ \/ /\ cursor = Len(buf)
        /\ Fail("UnexpectedEof", cursor)
     \/ /\ cursor < Len(buf)
        /\ LET ch == buf[cursor + 1]
               n  == Shifted(ch % Base)
           IN
           \/ LosesBits /\ Fail("VarIntTooLarge", cursor + 1)
           \/ ~LosesBits /\ ch >= Base /\ Full(n)
                /\ Fail("VarIntTooLarge", cursor + 1)
           \/ ~LosesBits /\ ch >= Base /\ ~Full(n)
                /\ acc' = n + 1 /\ cursor' = cursor + 1
                /\ UNCHANGED <<written, buf, damage, got, status>>
           \/ ~LosesBits /\ ch < Base /\ Accept(n, cursor + 1)

Finish ==
  /\ status = "reading" /\ Len(got) = Len(written)
  /\ status' = "done"
  /\ UNCHANGED <<written, buf, damage, cursor, acc, got>>

Next ==
  \/ \E f \in Fields : Write(f)
  \/ DeliverWhole \/ Truncate \/ Corrupt
  \/ ReadCompactSize \/ ReadVarIntByte \/ Finish

Spec == Init /\ [][Next]_vars
-----------------------------------------------------------------------------
Errors == {"UnexpectedEof", "NonCanonicalCompactSize", "CompactSizeTooLarge",
           "VarIntTooLarge"}

Values(fields) == [i \in DOMAIN fields |-> fields[i].value]

TypeOK ==
  /\ written \in Seq(Fields) /\ buf \in Seq(0..Radix - 1)
  /\ damage \in {"none", "truncated", "corrupted"}
  /\ cursor \in 0..Len(buf) /\ acc \in 0..MaxU64
  /\ got \in Seq(0..MaxU64) /\ Len(got) <= Len(written)
  /\ status \in {"writing", "reading", "done"} \cup Errors

(* An undamaged buffer reads back as the values written, each exactly, in  *)
(* order and to the last byte; the only refusal is of a CompactSize above  *)
(* MAX_SIZE, which its writer does not refuse (the readers and writers of  *)
(* wire.rs).                                                               *)
ReadsBack ==
  damage = "none" =>
    /\ got = SubSeq(Values(written), 1, Len(got))
    /\ status \in Errors =>
         LET f == written[Len(got) + 1]
         IN  /\ status = "CompactSizeTooLarge"
             /\ f.kind = "compact" /\ f.value > MaxSize
    /\ status = "done" => cursor = Len(buf)

(* Whatever the bytes, a value that is accepted was read from the bytes    *)
(* its writer would have written for it: no value has a second encoding,   *)
(* and no overflow makes one (the tests in read_compact_size and           *)
(* read_varint_u64).                                                       *)
NoOtherEncoding ==
  status # "writing" =>
    LET again == FlattenSeq([i \in DOMAIN got |->
                   Encode([kind |-> written[i].kind, value |-> got[i]])])
    IN  /\ again = SubSeq(buf, 1, Len(again))
        /\ acc = 0 => status \in Errors \/ cursor = Len(again)

(* A buffer cut short anywhere is noticed: no proper prefix of what was    *)
(* written reads as all of its fields (the end-of-buffer tests).           *)
TruncationNoticed == damage = "truncated" => status # "done"

=============================================================================
