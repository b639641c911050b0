-------------------------- MODULE WireCodecProofs --------------------------
(***************************************************************************)
(* The properties of WireCodec for every radix and word size, every        *)
(* MAX_SIZE, all fields and buffers of any length.  Wherever a reader      *)
(* stands, the bytes before it are those its writer would have written for *)
(* what it has read so far, digits of an unfinished VARINT included; and   *)
(* if no byte was changed, what it has read is what was written.           *)
(***************************************************************************)
EXTENDS WireCodec, EncodingProofs

(* The encodings of the fields written, and of the values read as if they  *)
(* had been written.                                                       *)
Codes(fields) == [i \in DOMAIN fields |-> Encode(fields[i])]

CodesOf(fields, values) ==
  [i \in DOMAIN values |-> Encode([kind |-> fields[i].kind, value |-> values[i]])]

(* The digits a VARINT reader has seen when it holds n.                    *)
Seen(n) == IF n = 0 THEN <<>> ELSE Marked(n - 1)

-----------------------------------------------------------------------------
Field == [kind : {"compact", "varint"}, value : 0..MaxU64]

LEMMA ConstantFacts ==
  /\ Fields \subseteq Field /\ MaxSize \in Nat /\ MaxSize <= MaxU64 /\ MaxFields \in Nat
  /\ Base \in Nat /\ Base >= 2 /\ Radix \in Nat /\ Radix = 2 * Base
  /\ MaxU64 \in Nat /\ 0 \in 0..MaxU64
BY WireAssumption, RadixValue, WordValue DEF WireAssumption, Field

LEMMA EncodeTyped ==
  ASSUME NEW f \in Field
  PROVE  Encode(f) \in Bytes
<1>1. f.value \in 0..MaxU64
  BY DEF Field
<1>2. WriteVarInt(f.value) \in Bytes
  BY <1>1, VarIntBytes
<1>3. PICK tag \in 0..Radix - 1, digits \in Bytes :
        WriteCompactSize(f.value) = <<tag>> \o digits
  BY <1>1, CompactReadsBack
<1>4. WriteCompactSize(f.value) \in Bytes
  BY <1>3, TagInFront
<1> QED
  BY <1>2, <1>4 DEF Encode

LEMMA CodesTyped ==
  ASSUME NEW w \in Seq(Fields)
  PROVE  /\ Codes(w) \in Seq(Bytes) /\ Len(Codes(w)) = Len(w)
         /\ \A i \in 1..Len(w) : Codes(w)[i] = Encode(w[i]) /\ w[i] \in Field
<1>1. /\ Len(w) \in Nat /\ DOMAIN w = 1..Len(w)
      /\ \A i \in 1..Len(w) : w[i] \in Field
  BY ConstantFacts
<1>2. \A i \in 1..Len(w) : Encode(w[i]) \in Bytes
  BY <1>1, EncodeTyped
<1>3. Codes(w) = [i \in 1..Len(w) |-> Encode(w[i])]
  BY <1>1 DEF Codes
<1>4. Codes(w) \in [1..Len(w) -> Bytes]
  BY <1>2, <1>3
<1> QED
  BY <1>1, <1>3, <1>4, SequenceOfFunction

LEMMA CodesOfTyped ==
  ASSUME NEW w \in Seq(Fields), NEW g \in Seq(0..MaxU64), Len(g) <= Len(w)
  PROVE  /\ CodesOf(w, g) \in Seq(Bytes) /\ Len(CodesOf(w, g)) = Len(g)
         /\ \A i \in 1..Len(g) :
              CodesOf(w, g)[i] = Encode([kind |-> w[i].kind, value |-> g[i]])
<1>1. /\ Len(g) \in Nat /\ DOMAIN g = 1..Len(g)
      /\ \A i \in 1..Len(g) : w[i] \in Field /\ g[i] \in 0..MaxU64
  BY ConstantFacts
<1>2. \A i \in 1..Len(g) : [kind |-> w[i].kind, value |-> g[i]] \in Field
  BY <1>1 DEF Field
<1>3. \A i \in 1..Len(g) : Encode([kind |-> w[i].kind, value |-> g[i]]) \in Bytes
  BY <1>2, EncodeTyped
<1>4. CodesOf(w, g)
        = [i \in 1..Len(g) |-> Encode([kind |-> w[i].kind, value |-> g[i]])]
  BY <1>1 DEF CodesOf
<1>5. CodesOf(w, g) \in [1..Len(g) -> Bytes]
  BY <1>3, <1>4
<1> QED
  BY <1>1, <1>4, <1>5, SequenceOfFunction

LEMMA FlattenAppend ==
  ASSUME NEW S, NEW ss \in Seq(Seq(S)), NEW s \in Seq(S)
  PROVE  /\ Append(ss, s) \in Seq(Seq(S))
         /\ FlattenSeq(Append(ss, s)) = FlattenSeq(ss) \o s
<1> DEFINE tt == Append(ss, s)
<1>1. /\ tt \in Seq(Seq(S)) /\ Len(tt) = Len(ss) + 1 /\ Len(ss) \in Nat
      /\ tt[Len(ss) + 1] = s /\ \A i \in 1..Len(ss) : tt[i] = ss[i]
  OBVIOUS
<1> HIDE DEF tt
<1>2. /\ FlattenSeq(ss) = Joined(ss)[Len(ss)] /\ FlattenSeq(tt) = Joined(tt)[Len(tt)]
      /\ \A i \in 0..Len(tt) - 1 : Joined(tt)[i + 1] = Joined(tt)[i] \o tt[i + 1]
  BY <1>1, JoinedEquations
<1>3. Joined(ss)[Len(ss)] = Joined(tt)[Len(ss)]
  <2>1. /\ Len(ss) <= Len(ss) /\ Len(ss) <= Len(tt)
        /\ \A i \in 1..Len(ss) : ss[i] = tt[i]
    BY <1>1
  <2> QED
    BY <1>1, <2>1, JoinedAlike
<1>4. Joined(tt)[Len(ss) + 1] = Joined(tt)[Len(ss)] \o s
  <2>1. Len(ss) \in 0..Len(tt) - 1
    BY <1>1
  <2> QED
    BY <1>1, <1>2, <2>1
<1> QED
  BY <1>1, <1>2, <1>3, <1>4 DEF tt

LEMMA FlattenTyped ==
  ASSUME NEW S, NEW ss \in Seq(Seq(S))
  PROVE  /\ FlattenSeq(ss) \in Seq(S)
         /\ Len(ss) = 0 => FlattenSeq(ss) = <<>>
<1>1. Len(ss) \in 0..Len(ss)
  OBVIOUS
<1> QED
  BY <1>1, JoinedEquations

(* One more field written, and one more value read.                        *)
LEMMA WriteAppends ==
  ASSUME NEW w \in Seq(Fields), NEW f \in Fields
  PROVE  FlattenSeq(Codes(Append(w, f))) = FlattenSeq(Codes(w)) \o Encode(f)
<1> DEFINE v == Append(w, f)
<1>1. /\ v \in Seq(Fields) /\ Len(v) = Len(w) + 1 /\ Len(w) \in Nat
      /\ v[Len(w) + 1] = f /\ \A i \in 1..Len(w) : v[i] = w[i]
  OBVIOUS
<1> HIDE DEF v
<1>2. /\ Codes(w) \in Seq(Bytes) /\ Len(Codes(w)) = Len(w)
      /\ \A i \in 1..Len(w) : Codes(w)[i] = Encode(w[i])
      /\ Codes(v) \in Seq(Bytes) /\ Len(Codes(v)) = Len(v)
      /\ \A i \in 1..Len(v) : Codes(v)[i] = Encode(v[i])
  BY <1>1, CodesTyped
<1>3. Encode(f) \in Bytes
  BY ConstantFacts, EncodeTyped
<1>4. /\ Append(Codes(w), Encode(f)) \in Seq(Bytes)
      /\ Len(Append(Codes(w), Encode(f))) = Len(w) + 1
      /\ Append(Codes(w), Encode(f))[Len(w) + 1] = Encode(f)
      /\ \A i \in 1..Len(w) : Append(Codes(w), Encode(f))[i] = Codes(w)[i]
  BY <1>2, <1>3
<1>5. \A i \in 1..Len(v) : Codes(v)[i] = Append(Codes(w), Encode(f))[i]
  BY <1>1, <1>2, <1>4
<1>6. Codes(v) = Append(Codes(w), Encode(f))
  BY <1>1, <1>2, <1>4, <1>5, SameSequence
<1> QED
  BY <1>2, <1>3, <1>6, FlattenAppend DEF v, Bytes

LEMMA ReadAppends ==
  ASSUME NEW w \in Seq(Fields), NEW g \in Seq(0..MaxU64), Len(g) < Len(w),
         NEW n \in 0..MaxU64
  PROVE  FlattenSeq(CodesOf(w, Append(g, n)))
           = FlattenSeq(CodesOf(w, g))
               \o Encode([kind |-> w[Len(g) + 1].kind, value |-> n])
<1> DEFINE h == Append(g, n)
           e == Encode([kind |-> w[Len(g) + 1].kind, value |-> n])
           a == CodesOf(w, g)
           b == CodesOf(w, h)
<1>1. /\ h \in Seq(0..MaxU64) /\ Len(h) = Len(g) + 1 /\ Len(g) \in Nat
      /\ h[Len(g) + 1] = n /\ \A i \in 1..Len(g) : h[i] = g[i]
  <2> DEFINE S == 0..MaxU64
  <2>1. g \in Seq(S) /\ n \in S
    OBVIOUS
  <2> HIDE DEF S
  <2>2. /\ h \in Seq(S) /\ Len(h) = Len(g) + 1 /\ Len(g) \in Nat
        /\ h[Len(g) + 1] = n /\ \A i \in 1..Len(g) : h[i] = g[i]
    BY <2>1
  <2> QED
    BY <2>2 DEF S
<1>2. Len(h) <= Len(w) /\ Len(g) <= Len(w) /\ Len(w) \in Nat
  BY <1>1
<1> HIDE DEF h
<1>3. /\ a \in Seq(Bytes) /\ Len(a) = Len(g)
      /\ \A i \in 1..Len(g) : a[i] = Encode([kind |-> w[i].kind, value |-> g[i]])
      /\ b \in Seq(Bytes) /\ Len(b) = Len(h)
      /\ \A i \in 1..Len(h) : b[i] = Encode([kind |-> w[i].kind, value |-> h[i]])
  BY <1>1, <1>2, CodesOfTyped
<1>4. e \in Bytes
  <2>1. w[Len(g) + 1] \in Field
    BY <1>1, <1>2, ConstantFacts
  <2>2. [kind |-> w[Len(g) + 1].kind, value |-> n] \in Field
    BY <2>1 DEF Field
  <2> QED
    BY <2>2, EncodeTyped
<1>5. b[Len(g) + 1] = e /\ \A i \in 1..Len(g) : b[i] = a[i]
  <2>1. Len(g) + 1 \in 1..Len(h)
    BY <1>1
  <2>2. b[Len(g) + 1] = e
    BY <1>1, <1>3, <2>1
  <2>3. ASSUME NEW i \in 1..Len(g)
        PROVE  b[i] = a[i]
    <3>1. i \in 1..Len(h) /\ h[i] = g[i]
      BY <1>1
    <3>2. b[i] = Encode([kind |-> w[i].kind, value |-> h[i]])
      BY <1>3, <3>1
    <3>3. a[i] = Encode([kind |-> w[i].kind, value |-> g[i]])
      BY <1>3
    <3> QED
      BY <3>1, <3>2, <3>3
  <2> QED
    BY <2>2, <2>3
<1> HIDE DEF a, b, e
<1>6. /\ Append(a, e) \in Seq(Bytes) /\ Len(Append(a, e)) = Len(g) + 1
      /\ Append(a, e)[Len(g) + 1] = e
      /\ \A i \in 1..Len(g) : Append(a, e)[i] = a[i]
  BY <1>3, <1>4
<1>7. \A i \in 1..Len(b) : b[i] = Append(a, e)[i]
  BY <1>1, <1>3, <1>5, <1>6
<1>8. b = Append(a, e)
  BY <1>1, <1>3, <1>6, <1>7, SameSequence
<1>9. FlattenSeq(b) = FlattenSeq(a) \o e
  BY <1>3, <1>4, <1>8, FlattenAppend DEF Bytes
<1> QED
  BY <1>9 DEF a, b, e, h

-----------------------------------------------------------------------------
(* What the steps do to a sequence.                                        *)
LEMMA OneMore ==
  ASSUME NEW S, NEW s \in Seq(S), NEW x \in S
  PROVE  /\ Append(s, x) \in Seq(S) /\ Len(Append(s, x)) = Len(s) + 1
         /\ Len(s) \in Nat /\ Append(s, x)[Len(s) + 1] = x
         /\ \A i \in 1..Len(s) : Append(s, x)[i] = s[i]
OBVIOUS

LEMMA Elements ==
  ASSUME NEW S, NEW s \in Seq(S)
  PROVE  /\ Len(s) \in Nat /\ DOMAIN s = 1..Len(s)
         /\ \A i \in 1..Len(s) : s[i] \in S
OBVIOUS

LEMMA Stretch ==
  ASSUME NEW S, NEW s \in Seq(S), NEW m \in Nat, m >= 1, NEW n \in Nat,
         m <= n + 1, n <= Len(s)
  PROVE  /\ SubSeq(s, m, n) \in Seq(S) /\ Len(SubSeq(s, m, n)) = n + 1 - m
         /\ \A i \in 1..n + 1 - m : SubSeq(s, m, n)[i] = s[m + i - 1]
OBVIOUS

LEMMA Changed ==
  ASSUME NEW S, NEW s \in Seq(S), NEW i \in DOMAIN s, NEW x \in S
  PROVE  [s EXCEPT ![i] = x] \in Seq(S) /\ Len([s EXCEPT ![i] = x]) = Len(s)
<1>1. /\ DOMAIN s = 1..Len(s) /\ Len(s) \in Nat /\ s \in [1..Len(s) -> S]
  OBVIOUS
<1>2. [s EXCEPT ![i] = x] \in [1..Len(s) -> S]
  BY <1>1
<1> QED
  BY <1>1, <1>2, SequenceOfFunction

LEMMA Digit ==
  ASSUME NEW ch \in 0..Radix - 1
  PROVE  /\ ch \in Nat /\ ch % Base \in 0..Base - 1
         /\ ch < Base => ch = ch % Base
         /\ ch >= Base => ch = (ch % Base) + Base
<1>1. Base \in Nat /\ Base >= 2 /\ Radix = 2 * Base /\ ch \in Nat /\ ch < 2 * Base
  BY ConstantFacts
<1>2. CASE ch < Base
  <2>1. (0 * Base + ch) % Base = ch
    BY <1>1, <1>2, DivModUnique
  <2> QED
    BY <1>1, <1>2, <2>1
<1>3. CASE ch >= Base
  <2>1. ch - Base \in 0..Base - 1
    BY <1>1, <1>3
  <2> DEFINE r == ch - Base
  <2>2. r \in 0..Base - 1 /\ ch = 1 * Base + r /\ ch = r + Base
    BY <1>1, <2>1
  <2> HIDE DEF r
  <2>3. (1 * Base + r) % Base = r
    BY <1>1, <2>2, DivModUnique
  <2>4. ch % Base = r
    BY <2>2, <2>3
  <2> QED
    BY <1>1, <1>3, <2>2, <2>4
<1> QED
  BY <1>1, <1>2, <1>3

(* What one digit does to a VARINT reader that holds a: the word does not  *)
(* overflow, and the bytes seen are those of the value it then holds.      *)
LEMMA NextDigit ==
  ASSUME NEW a \in 0..MaxU64, ~(a > MaxU64 \div Base), NEW d \in 0..Base - 1
  PROVE  /\ ((a * Base) % (MaxU64 + 1)) + d = a * Base + d
         /\ a * Base + d \in 0..MaxU64
         /\ WriteVarInt(a * Base + d) = Append(Seen(a), d)
         /\ Marked(a * Base + d) = Append(Seen(a), d + Base)
         /\ Seen((a * Base + d) + 1) = Marked(a * Base + d)
<1>1. /\ a \in Nat /\ d \in Nat /\ d < Base /\ Base \in Nat /\ Base >= 2 /\ MaxU64 \in Nat
  BY ConstantFacts
<1>2. PICK q \in Nat : MaxU64 + 1 = q * Base
  BY WordValue
<1> DEFINE p == a * Base
           n == p + d
<1>3. MaxU64 \div Base = q - 1
  <2>1. MaxU64 = (q - 1) * Base + (Base - 1)
    BY <1>1, <1>2
  <2>2. Base - 1 \in 0..Base - 1 /\ q - 1 \in Int
    BY <1>1
  <2>3. ((q - 1) * Base + (Base - 1)) \div Base = q - 1
    BY <1>1, <2>2, DivModUnique
  <2> QED
    BY <2>1, <2>3
<1>4. a <= q - 1
  <2>1. q - 1 \in Int
    OBVIOUS
  <2> QED
    BY <1>1, <1>3, <2>1
<1>5. p \in Nat /\ p <= (q - 1) * Base
  <2>1. q - 1 \in Nat
    BY <1>1, <1>4
  <2> QED
    BY <1>1, <1>4, <2>1, ProductBelow
<1>6. p + Base <= MaxU64 + 1
  <2>1. (q - 1) * Base = q * Base - Base
    BY <1>1
  <2> QED
    BY <1>1, <1>2, <1>5, <2>1
<1>7. p % (MaxU64 + 1) = p
  <2>1. p \in 0..MaxU64
    BY <1>1, <1>5, <1>6
  <2> DEFINE m == MaxU64 + 1
  <2>2. m \in Nat /\ m > 0 /\ p \in 0..m - 1
    BY <1>1, <2>1
  <2> HIDE DEF m, p
  <2>3. (0 * m + p) % m = p
    BY <2>2, DivModUnique
  <2>4. 0 * m + p = p
    BY <2>2
  <2> QED
    BY <2>3, <2>4 DEF m
<1>8. n \in 0..MaxU64
  BY <1>1, <1>5, <1>6
<1>9. n \div Base = a /\ n % Base = d
  BY <1>1, DivModUnique
<1>10. n >= Base <=> a >= 1
  <2>1. CASE a = 0
    BY <1>1, <2>1
  <2>2. CASE a >= 1
    <3>1. 1 * Base <= p
      BY <1>1, <2>2, ProductBelow
    <3> QED
      BY <1>1, <1>5, <2>2, <3>1
  <2> QED
    BY <1>1, <2>1, <2>2
<1> HIDE DEF n, p
<1>11. WriteVarInt(n) = Append(Seen(a), d) /\ Marked(n) = Append(Seen(a), d + Base)
  <2>1. CASE a = 0
    <3>1. n < Base /\ n \in Int
      BY <1>1, <1>8, <1>10, <2>1
    <3>2. n = d
      BY <1>1, <2>1 DEF n, p
    <3>3. Seen(a) = <<>>
      BY <2>1 DEF Seen
    <3>4. Append(<<>>, d) = <<d>> /\ Append(<<>>, d + Base) = <<d + Base>>
      OBVIOUS
    <3> QED
      BY <1>8, <3>1, <3>2, <3>3, <3>4, OneDigit, MarkedDigits
  <2>2. CASE a >= 1
    <3>1. n >= Base
      BY <1>10, <2>2
    <3>2. Seen(a) = Marked((n \div Base) - 1)
      BY <1>1, <1>9, <2>2 DEF Seen
    <3> QED
      BY <1>8, <1>9, <3>1, <3>2, MoreDigits, MarkedDigits
  <2> QED
    BY <1>1, <2>1, <2>2
<1>12. Seen(n + 1) = Marked(n)
  BY <1>1, <1>8 DEF Seen
<1> QED
  BY <1>7, <1>8, <1>11, <1>12 DEF n, p

LEMMA SeenTyped ==
  ASSUME NEW a \in 0..MaxU64
  PROVE  Seen(a) \in Seq(Int) /\ Len(Seen(a)) \in Nat /\ (a = 0 => Len(Seen(a)) = 0)
<1>1. a \in Nat /\ a <= MaxU64 /\ MaxU64 \in Nat
  BY ConstantFacts
<1>2. CASE a = 0
  BY <1>2 DEF Seen
<1>3. CASE a # 0
  <2>1. a - 1 \in 0..MaxU64
    BY <1>1, <1>3
  <2>2. Seen(a) = Marked(a - 1)
    BY <1>3 DEF Seen
  <2>3. Seen(a) \in Seq(Int)
    BY <2>1, <2>2, MarkedDigits
  <2> QED
    BY <1>3, <2>3
<1> QED
  BY <1>2, <1>3

-----------------------------------------------------------------------------
(* The invariant.  Before a buffer is delivered nothing has been read.     *)
Unread == status = "writing" => damage = "none" /\ cursor = 0 /\ acc = 0 /\ got = <<>>

(* What arrives, unless a byte of it was changed, is a prefix of what was  *)
(* written, and the whole of it unless it was cut short.                   *)
Arrives ==
  /\ damage # "corrupted" =>
       /\ Len(buf) <= Len(FlattenSeq(Codes(written)))
       /\ \A i \in 1..Len(buf) : buf[i] = FlattenSeq(Codes(written))[i]
  /\ damage = "none" => Len(buf) = Len(FlattenSeq(Codes(written)))
  /\ damage = "truncated" => Len(buf) < Len(FlattenSeq(Codes(written)))

(* The bytes of the values read, and where they end.                       *)
Before == FlattenSeq(CodesOf(written, got))
Start  == Len(Before)

Underway == status \notin Errors

(* The bytes before the cursor are those of the values read, then those of *)
(* the VARINT begun.                                                       *)
SameBytes ==
  /\ Start <= cursor
  /\ \A i \in 1..Start : buf[i] = Before[i]
  /\ status = "done" => Len(got) = Len(written)
  /\ Underway =>
       /\ cursor = Start + Len(Seen(acc))
       /\ \A i \in 1..Len(Seen(acc)) : buf[Start + i] = Seen(acc)[i]
  /\ Underway /\ acc # 0 =>
       Len(got) < Len(written) /\ written[Len(got) + 1].kind = "varint"

(* The turns of write_varint_u64's loop whose digits are still to come.    *)
Left == FinalTurn(written[Len(got) + 1].value) - (cursor - Start)

(* If no byte was changed the values read are those written, and a VARINT  *)
(* reader holds what its writer's loop held before the digits to come.     *)
SameValues ==
  damage # "corrupted" =>
    /\ \A i \in 1..Len(got) : got[i] = written[i].value
    /\ Underway /\ acc # 0 =>
         /\ Left >= 0
         /\ acc = Rest(written[Len(got) + 1].value)[Left] \div Base
    /\ damage = "none" /\ status \in Errors =>
         LET f == written[Len(got) + 1]
         IN  /\ status = "CompactSizeTooLarge"
             /\ f.kind = "compact" /\ f.value > MaxSize

WireInv == TypeOK /\ Unread /\ Arrives /\ SameBytes /\ SameValues

-----------------------------------------------------------------------------
(* The types of the state in the form the proofs use.                      *)
LEMMA Typed ==
  ASSUME TypeOK
  PROVE  /\ written \in Seq(Fields) /\ buf \in Bytes /\ got \in Seq(0..MaxU64)
         /\ Len(written) \in Nat /\ Len(buf) \in Nat /\ Len(got) \in Nat
         /\ Len(got) <= Len(written) /\ cursor \in Nat /\ cursor <= Len(buf)
         /\ acc \in 0..MaxU64 /\ acc \in Nat
         /\ \A i \in 1..Len(written) :
              /\ written[i] \in Field /\ written[i].value \in 0..MaxU64
              /\ written[i].kind \in {"compact", "varint"}
         /\ \A i \in 1..Len(buf) : buf[i] \in 0..Radix - 1
         /\ DOMAIN buf = 1..Len(buf)
<1>1. /\ written \in Seq(Fields) /\ buf \in Seq(0..Radix - 1) /\ got \in Seq(0..MaxU64)
      /\ cursor \in 0..Len(buf) /\ acc \in 0..MaxU64 /\ Len(got) <= Len(written)
  BY DEF TypeOK
<1>2. /\ Len(written) \in Nat /\ Len(buf) \in Nat /\ Len(got) \in Nat
      /\ cursor \in Nat /\ cursor <= Len(buf) /\ acc \in Nat /\ DOMAIN buf = 1..Len(buf)
  BY <1>1, ConstantFacts
<1>3. \A i \in 1..Len(written) : written[i] \in Fields
  BY <1>1
<1>4. \A i \in 1..Len(written) :
        /\ written[i] \in Field /\ written[i].value \in 0..MaxU64
        /\ written[i].kind \in {"compact", "varint"}
  BY <1>3, ConstantFacts DEF Field
<1>5. \A i \in 1..Len(buf) : buf[i] \in 0..Radix - 1
  BY <1>1, Elements
<1> QED
  BY <1>1, <1>2, <1>4, <1>5 DEF Bytes

LEMMA TagNumbers ==
  ASSUME NEW tag \in 0..Radix - 1
  PROVE  Width(tag) \in Nat /\ LeastOf(tag) \in Nat
<1>1. Radix \in Nat /\ Radix >= 4
  BY RadixValue
<1>2. RadixTo[2] \in Nat /\ RadixTo[4] \in Nat
  BY FormBounds
<1>3. 0 \in Nat /\ Radix - 3 \in Nat
  BY <1>1
<1>4. Width(tag) \in Nat
  BY TagWidths
<1>5. LeastOf(tag) \in {0, Radix - 3, RadixTo[2], RadixTo[4]}
  BY TagWidths
<1> QED
  BY <1>2, <1>3, <1>4, <1>5

(* A step of the CompactSize reader takes the bytes of the tag.            *)
LEMMA CompactHere ==
  ASSUME TypeOK, cursor < Len(buf), End(buf[cursor + 1]) <= Len(buf)
  PROVE  LET tag    == buf[cursor + 1]
             end    == End(tag)
             digits == SubSeq(buf, cursor + 2, end)
         IN  /\ tag \in 0..Radix - 1 /\ Width(tag) \in Nat /\ LeastOf(tag) \in Nat
             /\ end \in Nat /\ end = cursor + 1 + Width(tag)
             /\ digits \in Bytes /\ Len(digits) = Width(tag)
             /\ \A i \in 1..Width(tag) : digits[i] = buf[cursor + 1 + i]
             /\ Decoded(tag, digits) \in Nat
<1> DEFINE tag    == buf[cursor + 1]
           end    == End(tag)
           digits == SubSeq(buf, cursor + 2, end)
<1>1. cursor \in Nat /\ Len(buf) \in Nat /\ buf \in Bytes /\ cursor + 1 \in 1..Len(buf)
  BY Typed
<1>2. tag \in 0..Radix - 1
  BY <1>1, Typed
<1>3. end <= Len(buf)
  OBVIOUS
<1> HIDE DEF tag
<1>4. Width(tag) \in Nat /\ LeastOf(tag) \in Nat
  BY <1>2, TagNumbers
<1>5. end \in Nat /\ end = cursor + 1 + Width(tag)
  BY <1>1, <1>4 DEF End
<1> HIDE DEF end
<1>6. /\ digits \in Bytes /\ Len(digits) = Width(tag)
      /\ \A i \in 1..Width(tag) : digits[i] = buf[cursor + 1 + i]
  <2> DEFINE m == cursor + 2
  <2>1. m \in Nat /\ m >= 1 /\ m <= end + 1 /\ end + 1 - m = Width(tag)
    BY <1>1, <1>4, <1>5
  <2>2. \A i \in 1..Width(tag) : m + i - 1 = cursor + 1 + i
    BY <1>1, <1>4
  <2> HIDE DEF m
  <2>3. /\ SubSeq(buf, m, end) \in Bytes /\ Len(SubSeq(buf, m, end)) = end + 1 - m
        /\ \A i \in 1..end + 1 - m : SubSeq(buf, m, end)[i] = buf[m + i - 1]
    <3> DEFINE S == 0..Radix - 1
    <3>1. buf \in Seq(S)
      BY <1>1 DEF Bytes
    <3> HIDE DEF S
    <3>2. m \in Nat /\ m >= 1 /\ end \in Nat /\ m <= end + 1 /\ end <= Len(buf)
      BY <1>3, <1>5, <2>1
    <3>3. /\ SubSeq(buf, m, end) \in Seq(S) /\ Len(SubSeq(buf, m, end)) = end + 1 - m
          /\ \A i \in 1..end + 1 - m : SubSeq(buf, m, end)[i] = buf[m + i - 1]
      BY <3>1, <3>2, Stretch
    <3> QED
      BY <3>3 DEF S, Bytes
  <2>4. /\ SubSeq(buf, m, end) \in Bytes /\ Len(SubSeq(buf, m, end)) = Width(tag)
        /\ \A i \in 1..Width(tag) : SubSeq(buf, m, end)[i] = buf[cursor + 1 + i]
    BY <2>1, <2>2, <2>3
  <2> QED
    BY <2>4 DEF m
<1> HIDE DEF digits
<1>7. Decoded(tag, digits) \in Nat
  <2>1. LeValue(digits) \in 0..RadixTo[Len(digits)] - 1
    BY <1>6, LeBytesOfLeValue
  <2>2. LeValue(digits) \in Nat
    <3>1. RadixTo[Len(digits)] \in Nat
      BY <1>4, <1>6, RadixPowers
    <3> QED
      BY <2>1, <3>1
  <2>3. tag \in Nat
    BY <1>2, ConstantFacts
  <2> QED
    BY <2>2, <2>3 DEF Decoded
<1> QED
  BY <1>2, <1>4, <1>5, <1>6, <1>7 DEF tag, end, digits

-----------------------------------------------------------------------------
(* What one call of read_compact_size, and one turn of read_varint_u64, can *)
(* come to.                                                                *)
Refused(error) ==
  /\ status' = error /\ error \in Errors
  /\ cursor' \in Nat /\ cursor <= cursor' /\ cursor' <= Len(buf)
  /\ written' = written /\ buf' = buf /\ damage' = damage
  /\ acc' = acc /\ got' = got

Tag    == buf[cursor + 1]
Digits == SubSeq(buf, cursor + 2, End(Tag))
Size   == Decoded(Tag, Digits)

SizeFits == cursor < Len(buf) /\ End(Tag) <= Len(buf)

SizeOutcome ==
  \/ Refused("UnexpectedEof") /\ ~SizeFits
  \/ Refused("NonCanonicalCompactSize") /\ SizeFits /\ Size < LeastOf(Tag)
  \/ /\ Refused("CompactSizeTooLarge") /\ SizeFits
     /\ Size >= LeastOf(Tag) /\ Size > MaxSize
  \/ /\ Accept(Size, End(Tag)) /\ SizeFits
     /\ Size >= LeastOf(Tag) /\ Size <= MaxSize

LEMMA SizeRead ==
  ASSUME TypeOK, ReadCompactSize
  PROVE  /\ status = "reading" /\ Len(got) < Len(written)
         /\ written[Len(got) + 1].kind = "compact"
         /\ SizeOutcome
<1>1. /\ status = "reading" /\ Len(got) < Len(written)
      /\ written[Len(got) + 1].kind = "compact"
  BY DEF ReadCompactSize, NextIs
<1>2. cursor \in Nat /\ Len(buf) \in Nat /\ cursor <= Len(buf)
  BY Typed
<1>3. CASE cursor = Len(buf) /\ Fail("UnexpectedEof", cursor)
  BY <1>1, <1>2, <1>3 DEF Fail, SizeOutcome, Refused, Errors, SizeFits
<1>4. CASE cursor < Len(buf)
  <2>1. Tag \in 0..Radix - 1
    <3>1. cursor + 1 \in 1..Len(buf)
      BY <1>2, <1>4
    <3> QED
      BY <3>1, Typed DEF Tag
  <2>2. Width(Tag) \in Nat /\ End(Tag) = cursor + 1 + Width(Tag)
    BY <2>1, TagWidths DEF End
  <2>3. Size = IF Width(Tag) = 0 THEN Tag ELSE LeValue(Digits)
    BY DEF Size, Decoded
  <2>4. \/ End(Tag) > Len(buf) /\ Fail("UnexpectedEof", cursor + 1)
        \/ End(Tag) <= Len(buf) /\ Size < LeastOf(Tag)
             /\ Fail("NonCanonicalCompactSize", End(Tag))
        \/ End(Tag) <= Len(buf) /\ Size >= LeastOf(Tag) /\ Size > MaxSize
             /\ Fail("CompactSizeTooLarge", End(Tag))
        \/ End(Tag) <= Len(buf) /\ Size >= LeastOf(Tag) /\ Size <= MaxSize
             /\ Accept(Size, End(Tag))
    BY <1>2, <1>4, <2>3 DEF ReadCompactSize, Tag, Digits
  <2> QED
    BY <1>1, <1>2, <1>4, <2>2, <2>4 DEF Fail, SizeOutcome, Refused, Errors, SizeFits
<1>5. (cursor = Len(buf) /\ Fail("UnexpectedEof", cursor)) \/ cursor < Len(buf)
  BY DEF ReadCompactSize
<1> QED
  BY <1>1, <1>3, <1>4, <1>5

(* The value a VARINT reader has with the digit of the next byte.          *)
Taken == acc * Base + (Tag % Base)

VarIntOutcome ==
  \/ Refused("UnexpectedEof") /\ cursor = Len(buf)
  \/ /\ Refused("VarIntTooLarge") /\ cursor < Len(buf)
     /\ acc > MaxU64 \div Base \/ (Tag >= Base /\ Taken = MaxU64)
  \/ /\ cursor < Len(buf) /\ acc <= MaxU64 \div Base /\ Tag >= Base /\ Taken < MaxU64
     /\ acc' = Taken + 1 /\ cursor' = cursor + 1
     /\ UNCHANGED <<written, buf, damage, got, status>>
  \/ /\ cursor < Len(buf) /\ acc <= MaxU64 \div Base /\ Tag < Base
     /\ Accept(Taken, cursor + 1)

LEMMA DigitRead ==
  ASSUME TypeOK, ReadVarIntByte
  PROVE  /\ status = "reading" /\ Len(got) < Len(written)
         /\ written[Len(got) + 1].kind = "varint"
         /\ VarIntOutcome
<1>1. /\ status = "reading" /\ Len(got) < Len(written)
      /\ written[Len(got) + 1].kind = "varint"
  BY DEF ReadVarIntByte, NextIs
<1>2. cursor \in Nat /\ Len(buf) \in Nat /\ cursor <= Len(buf)
  BY Typed
<1>3. CASE cursor = Len(buf) /\ Fail("UnexpectedEof", cursor)
  BY <1>1, <1>2, <1>3 DEF Fail, VarIntOutcome, Refused, Errors
<1>4. CASE cursor < Len(buf)
  <2>1. Tag \in 0..Radix - 1 /\ Tag \in Nat /\ Base \in Nat /\ Tag % Base \in 0..Base - 1
    <3>1. cursor + 1 \in 1..Len(buf)
      BY <1>2, <1>4
    <3> QED
      BY <3>1, Typed, Digit, ConstantFacts DEF Tag
  <2>2. /\ acc \in 0..MaxU64 /\ MaxU64 \in Nat /\ MaxU64 \div Base \in Int
        /\ acc \in Nat
    BY Typed, ConstantFacts, DivMod
  <2>3. CASE LosesBits
    <3>1. Fail("VarIntTooLarge", cursor + 1)
      BY <1>2, <1>4, <2>3 DEF ReadVarIntByte
    <3> QED
      BY <1>1, <1>2, <1>4, <2>3, <3>1 DEF Fail, VarIntOutcome, Refused, Errors, LosesBits
  <2>4. CASE ~LosesBits
    <3>1. acc <= MaxU64 \div Base /\ ~(acc > MaxU64 \div Base)
      BY <2>2, <2>4 DEF LosesBits
    <3>2. Shifted(Tag % Base) = Taken /\ Taken \in 0..MaxU64
      BY <2>1, <2>2, <3>1, NextDigit DEF Shifted, Taken
    <3>3. \/ Tag >= Base /\ Taken = MaxU64 /\ Fail("VarIntTooLarge", cursor + 1)
          \/ Tag >= Base /\ Taken # MaxU64
             /\ acc' = Taken + 1 /\ cursor' = cursor + 1
             /\ UNCHANGED <<written, buf, damage, got, status>>
          \/ Tag < Base /\ Accept(Taken, cursor + 1)
      BY <1>2, <1>4, <2>4, <3>2 DEF ReadVarIntByte, Full, Tag
    <3>4. Taken # MaxU64 => Taken < MaxU64
      BY <2>2, <3>2
    <3> QED
      BY <1>1, <1>2, <1>4, <3>1, <3>3, <3>4 DEF Fail, VarIntOutcome, Refused, Errors
  <2> QED
    BY <2>3, <2>4
<1>5. (cursor = Len(buf) /\ Fail("UnexpectedEof", cursor)) \/ cursor < Len(buf)
  BY DEF ReadVarIntByte
<1> QED
  BY <1>1, <1>3, <1>4, <1>5

LEMMA SizeHere ==
  ASSUME TypeOK, SizeFits
  PROVE  /\ Tag \in 0..Radix - 1 /\ Width(Tag) \in Nat /\ LeastOf(Tag) \in Nat
         /\ End(Tag) \in Nat /\ End(Tag) = cursor + 1 + Width(Tag)
         /\ Digits \in Bytes /\ Len(Digits) = Width(Tag)
         /\ \A i \in 1..Width(Tag) : Digits[i] = buf[cursor + 1 + i]
         /\ Size \in Nat
BY CompactHere DEF Tag, Digits, Size, SizeFits

LEMMA DigitHere ==
  ASSUME TypeOK, cursor < Len(buf), acc <= MaxU64 \div Base
  PROVE  /\ Tag \in 0..Radix - 1 /\ Tag \in Nat /\ Tag % Base \in 0..Base - 1
         /\ Tag < Base => Tag = Tag % Base
         /\ Tag >= Base => Tag = (Tag % Base) + Base
         /\ Taken \in 0..MaxU64
         /\ WriteVarInt(Taken) = Append(Seen(acc), Tag % Base)
         /\ Seen(Taken + 1) = Append(Seen(acc), (Tag % Base) + Base)
<1>1. cursor + 1 \in 1..Len(buf) /\ acc \in 0..MaxU64 /\ acc \in Nat
  BY Typed
<1>2. Tag \in 0..Radix - 1
  BY <1>1, Typed DEF Tag
<1>3. /\ Tag \in Nat /\ Tag % Base \in 0..Base - 1
      /\ Tag < Base => Tag = Tag % Base
      /\ Tag >= Base => Tag = (Tag % Base) + Base
  BY <1>2, Digit
<1>4. ~(acc > MaxU64 \div Base)
  <2>1. MaxU64 \div Base \in Int
    BY ConstantFacts, DivMod
  <2> QED
    BY <1>1, <2>1
<1> QED
  BY <1>1, <1>2, <1>3, <1>4, NextDigit DEF Taken

-----------------------------------------------------------------------------
(* The types.                                                              *)
LEMMA TypeInit == Init => TypeOK /\ Unread
BY ConstantFacts DEF Init, TypeOK, Unread, Errors

LEMMA TypeWrite ==
  ASSUME TypeOK, Unread, NEW f \in Fields, Write(f)
  PROVE  TypeOK' /\ Unread'
<1>1. /\ written' = Append(written, f) /\ buf' = buf \o Encode(f)
      /\ UNCHANGED <<damage, cursor, acc, got, status>>
  BY DEF Write
<1>2. Encode(f) \in Bytes
  BY ConstantFacts, EncodeTyped
<1>3. written' \in Seq(Fields) /\ Len(written') = Len(written) + 1
  BY <1>1, Typed, OneMore
<1>4. buf' \in Bytes /\ Len(buf') = Len(buf) + Len(Encode(f)) /\ Len(Encode(f)) \in Nat
  <2>1. Len(Encode(f)) \in Nat
    BY <1>2, Elements DEF Bytes
  <2> QED
    BY <1>1, <1>2, <2>1, Typed, Concatenation DEF Bytes
<1>5. cursor' \in 0..Len(buf') /\ Len(got') <= Len(written')
  BY <1>1, <1>3, <1>4, Typed
<1>6. TypeOK'
  BY <1>1, <1>3, <1>4, <1>5 DEF TypeOK, Bytes
<1> QED
  BY <1>1, <1>6 DEF Unread

LEMMA TypeDeliver ==
  ASSUME TypeOK, Unread, NEW bytes \in Bytes,
         NEW how \in {"none", "truncated", "corrupted"}, Deliver(bytes, how)
  PROVE  TypeOK' /\ Unread'
<1>1. /\ status = "writing" /\ buf' = bytes /\ damage' = how /\ status' = "reading"
      /\ UNCHANGED <<written, cursor, acc, got>>
  BY DEF Deliver
<1>2. cursor = 0 /\ Len(bytes) \in Nat
  BY <1>1, Elements DEF Unread, Bytes
<1>3. cursor' \in 0..Len(buf')
  BY <1>1, <1>2
<1>4. TypeOK'
  BY <1>1, <1>3 DEF TypeOK, Bytes
<1> QED
  BY <1>1, <1>4 DEF Unread

(* The three ways a buffer is delivered.                                   *)
LEMMA Delivered ==
  ASSUME TypeOK, DeliverWhole \/ Truncate \/ Corrupt
  PROVE  \E bytes \in Bytes, how \in {"none", "truncated", "corrupted"} :
           /\ Deliver(bytes, how)
           /\ how # "corrupted" =>
                /\ Len(bytes) <= Len(buf) /\ \A i \in 1..Len(bytes) : bytes[i] = buf[i]
           /\ how = "none" => Len(bytes) = Len(buf)
           /\ how = "truncated" => Len(bytes) < Len(buf)
<1>1. buf \in Bytes /\ Len(buf) \in Nat
  BY Typed
<1>2. CASE DeliverWhole
  BY <1>1, <1>2 DEF DeliverWhole
<1>3. CASE Truncate
  <2>1. PICK k \in 0..Len(buf) - 1 : Deliver(SubSeq(buf, 1, k), "truncated")
    BY <1>3 DEF Truncate
  <2>2. k \in Nat /\ 1 <= k + 1 /\ k <= Len(buf) /\ k < Len(buf)
    BY <1>1
  <2>3. /\ SubSeq(buf, 1, k) \in Bytes /\ Len(SubSeq(buf, 1, k)) = k + 1 - 1
        /\ \A i \in 1..k + 1 - 1 : SubSeq(buf, 1, k)[i] = buf[1 + i - 1]
    <3> DEFINE S == 0..Radix - 1
    <3>1. buf \in Seq(S)
      BY <1>1 DEF Bytes
    <3> HIDE DEF S
    <3>2. 1 \in Nat /\ 1 >= 1
      OBVIOUS
    <3>3. /\ SubSeq(buf, 1, k) \in Seq(S) /\ Len(SubSeq(buf, 1, k)) = k + 1 - 1
          /\ \A i \in 1..k + 1 - 1 : SubSeq(buf, 1, k)[i] = buf[1 + i - 1]
      BY <2>2, <3>1, <3>2, Stretch
    <3> QED
      BY <3>3 DEF S, Bytes
  <2> DEFINE cut == SubSeq(buf, 1, k)
  <2>4. /\ cut \in Bytes /\ Len(cut) < Len(buf) /\ Len(cut) <= Len(buf)
        /\ \A i \in 1..Len(cut) : cut[i] = buf[i]
    BY <1>1, <2>2, <2>3
  <2> HIDE DEF cut
  <2>5. Deliver(cut, "truncated")
    BY <2>1 DEF cut
  <2> QED
    BY <2>4, <2>5
<1>4. CASE Corrupt
  <2>1. PICK i \in DOMAIN buf, b \in 0..Radix - 1 :
          Deliver([buf EXCEPT ![i] = b], "corrupted")
    BY <1>4 DEF Corrupt
  <2>2. [buf EXCEPT ![i] = b] \in Bytes
    BY <1>1, Changed DEF Bytes
  <2> QED
    BY <2>1, <2>2
<1> QED
  BY <1>2, <1>3, <1>4

LEMMA TypeRefused ==
  ASSUME TypeOK, NEW error, Refused(error)
  PROVE  TypeOK' /\ Unread'
<1>1. cursor' \in 0..Len(buf') /\ status' \in Errors
  BY Typed DEF Refused
<1>2. TypeOK'
  BY <1>1 DEF TypeOK, Refused
<1> QED
  BY <1>1, <1>2 DEF Unread, Errors

LEMMA TypeAccepted ==
  ASSUME TypeOK, status = "reading", Len(got) < Len(written),
         NEW n \in 0..MaxU64, NEW at \in 0..Len(buf), Accept(n, at)
  PROVE  TypeOK' /\ Unread'
<1>1. /\ got' = Append(got, n) /\ cursor' = at /\ acc' = 0
      /\ UNCHANGED <<written, buf, damage, status>>
  BY DEF Accept
<1>2. got' \in Seq(0..MaxU64) /\ Len(got') = Len(got) + 1
  BY <1>1, Typed, OneMore
<1>3. Len(got') <= Len(written')
  BY <1>1, <1>2, Typed
<1>4. acc' \in 0..MaxU64
  BY <1>1, ConstantFacts
<1>5. TypeOK'
  BY <1>1, <1>2, <1>3, <1>4 DEF TypeOK
<1> QED
  BY <1>1, <1>5 DEF Unread

LEMMA TypeNext ==
  ASSUME TypeOK, Unread, [Next]_vars
  PROVE  TypeOK' /\ Unread'
<1>1. ASSUME NEW f \in Fields, Write(f)
      PROVE  TypeOK' /\ Unread'
  BY <1>1, TypeWrite
<1>2. CASE DeliverWhole \/ Truncate \/ Corrupt
  <2>1. PICK bytes \in Bytes, how \in {"none", "truncated", "corrupted"} :
          Deliver(bytes, how)
    BY <1>2, Delivered
  <2> QED
    BY <2>1, TypeDeliver
<1>3. CASE ReadCompactSize
  <2>1. status = "reading" /\ Len(got) < Len(written) /\ SizeOutcome
    BY <1>3, SizeRead
  <2>2. ASSUME NEW error, Refused(error)
        PROVE  TypeOK' /\ Unread'
    BY <2>2, TypeRefused
  <2>3. CASE Accept(Size, End(Tag)) /\ SizeFits /\ Size <= MaxSize
    <3>1. Size \in Nat /\ End(Tag) \in Nat
      BY <2>3, SizeHere
    <3>2. Size \in 0..MaxU64 /\ End(Tag) \in 0..Len(buf)
      BY <2>3, <3>1, ConstantFacts, Typed DEF SizeFits
    <3> QED
      BY <2>1, <2>3, <3>2, TypeAccepted
  <2> QED
    BY <2>1, <2>2, <2>3 DEF SizeOutcome
<1>4. CASE ReadVarIntByte
  <2>1. status = "reading" /\ Len(got) < Len(written) /\ VarIntOutcome
    BY <1>4, DigitRead
  <2>2. ASSUME NEW error, Refused(error)
        PROVE  TypeOK' /\ Unread'
    BY <2>2, TypeRefused
  <2>3. ASSUME cursor < Len(buf), acc <= MaxU64 \div Base
        PROVE  Taken \in 0..MaxU64 /\ cursor + 1 \in 0..Len(buf)
    BY <2>3, Typed, DigitHere
  <2>4. CASE /\ cursor < Len(buf) /\ acc <= MaxU64 \div Base /\ Taken < MaxU64
             /\ acc' = Taken + 1 /\ cursor' = cursor + 1
             /\ UNCHANGED <<written, buf, damage, got, status>>
    <3>1. acc' \in 0..MaxU64 /\ cursor' \in 0..Len(buf')
      BY <2>3, <2>4, ConstantFacts
    <3>2. TypeOK'
      BY <2>4, <3>1 DEF TypeOK
    <3> QED
      BY <2>1, <2>4, <3>2 DEF Unread
  <2>5. CASE /\ cursor < Len(buf) /\ acc <= MaxU64 \div Base
             /\ Accept(Taken, cursor + 1)
    BY <2>1, <2>3, <2>5, TypeAccepted
  <2> QED
    BY <2>1, <2>2, <2>4, <2>5 DEF VarIntOutcome
<1>5. CASE Finish
  BY <1>5 DEF Finish, TypeOK, Unread
<1>6. CASE UNCHANGED vars
  BY <1>6 DEF vars, TypeOK, Unread
<1> QED
  BY <1>1, <1>2, <1>3, <1>4, <1>5, <1>6 DEF Next

-----------------------------------------------------------------------------
(* What arrives.                                                           *)
LEMMA NoFields ==
  /\ FlattenSeq(Codes(<<>>)) = <<>>
  /\ \A w \in Seq(Fields) : FlattenSeq(CodesOf(w, <<>>)) = <<>>
<1>1. <<>> \in Seq(Fields) /\ <<>> \in Seq(0..MaxU64) /\ Len(<<>>) = 0
  OBVIOUS
<1>2. FlattenSeq(Codes(<<>>)) = <<>>
  BY <1>1, CodesTyped, FlattenTyped DEF Bytes
<1>3. ASSUME NEW w \in Seq(Fields)
      PROVE  FlattenSeq(CodesOf(w, <<>>)) = <<>>
  <2>1. Len(<<>>) <= Len(w)
    BY <1>1
  <2> QED
    BY <1>1, <2>1, CodesOfTyped, FlattenTyped DEF Bytes
<1> QED
  BY <1>2, <1>3

LEMMA CodesFlat ==
  ASSUME NEW w \in Seq(Fields)
  PROVE  FlattenSeq(Codes(w)) \in Bytes /\ Len(FlattenSeq(Codes(w))) \in Nat
<1>1. FlattenSeq(Codes(w)) \in Bytes
  BY CodesTyped, FlattenTyped DEF Bytes
<1> QED
  BY <1>1, Elements DEF Bytes

LEMMA ArrivesInit == Init => Arrives
BY NoFields DEF Init, Arrives

LEMMA ArrivesWrite ==
  ASSUME TypeOK, Unread, Arrives, NEW f \in Fields, Write(f)
  PROVE  Arrives'
<1>1. /\ status = "writing" /\ written' = Append(written, f) /\ buf' = buf \o Encode(f)
      /\ UNCHANGED <<damage, cursor, acc, got, status>>
  BY DEF Write
<1> DEFINE code == FlattenSeq(Codes(written))
<1>2. damage = "none"
  BY <1>1 DEF Unread
<1>3. buf \in Bytes /\ code \in Bytes /\ Len(buf) = Len(code)
  BY <1>2, Typed, CodesFlat DEF Arrives
<1>4. \A i \in 1..Len(buf) : buf[i] = code[i]
  BY <1>2 DEF Arrives
<1>5. buf = code
  BY <1>3, <1>4, SameSequence DEF Bytes
<1>6. FlattenSeq(Codes(written')) = code \o Encode(f)
  BY <1>1, Typed, WriteAppends
<1>7. FlattenSeq(Codes(written')) = buf'
  BY <1>1, <1>5, <1>6
<1>8. damage' = "none" /\ Len(buf') \in Nat
  <2>1. written' \in Seq(Fields)
    BY <1>1, Typed, OneMore
  <2> QED
    BY <1>1, <1>2, <1>7, <2>1, CodesFlat
<1> QED
  BY <1>7, <1>8 DEF Arrives

LEMMA ArrivesDeliver ==
  ASSUME TypeOK, Unread, Arrives, DeliverWhole \/ Truncate \/ Corrupt
  PROVE  Arrives'
<1>1. PICK bytes \in Bytes, how \in {"none", "truncated", "corrupted"} :
        /\ Deliver(bytes, how)
        /\ how # "corrupted" =>
             /\ Len(bytes) <= Len(buf) /\ \A i \in 1..Len(bytes) : bytes[i] = buf[i]
        /\ how = "none" => Len(bytes) = Len(buf)
        /\ how = "truncated" => Len(bytes) < Len(buf)
  BY Delivered
<1>2. /\ status = "writing" /\ buf' = bytes /\ damage' = how /\ written' = written
  BY <1>1 DEF Deliver
<1> DEFINE code == FlattenSeq(Codes(written))
<1>3. /\ damage = "none" /\ Len(buf) = Len(code)
      /\ \A i \in 1..Len(buf) : buf[i] = code[i]
  BY <1>2 DEF Unread, Arrives
<1>4. Len(buf) \in Nat /\ Len(bytes) \in Nat
  BY Typed, Elements DEF Bytes
<1> HIDE DEF code
<1>5. how # "corrupted" =>
        Len(bytes) <= Len(code) /\ \A i \in 1..Len(bytes) : bytes[i] = code[i]
  BY <1>1, <1>3, <1>4
<1> QED
  BY <1>1, <1>2, <1>3, <1>5 DEF Arrives, code

LEMMA ArrivesNext ==
  ASSUME TypeOK, Unread, Arrives, [Next]_vars
  PROVE  Arrives'
<1>1. ASSUME UNCHANGED <<written, buf, damage>>
      PROVE  Arrives'
  BY <1>1 DEF Arrives
<1>2. CASE ReadCompactSize
  BY <1>1, <1>2 DEF ReadCompactSize, Fail, Accept
<1>3. CASE ReadVarIntByte
  BY <1>1, <1>3 DEF ReadVarIntByte, Fail, Accept
<1>4. CASE Finish \/ UNCHANGED vars
  BY <1>1, <1>4 DEF Finish, vars
<1> QED
  BY <1>2, <1>3, <1>4, ArrivesWrite, ArrivesDeliver DEF Next

-----------------------------------------------------------------------------
(* The bytes before the cursor.                                            *)
LEMMA BeforeTyped ==
  ASSUME NEW w \in Seq(Fields), NEW g \in Seq(0..MaxU64), Len(g) <= Len(w)
  PROVE  FlattenSeq(CodesOf(w, g)) \in Bytes /\ Len(FlattenSeq(CodesOf(w, g))) \in Nat
<1>1. FlattenSeq(CodesOf(w, g)) \in Bytes
  BY CodesOfTyped, FlattenTyped DEF Bytes
<1> QED
  BY <1>1, Elements DEF Bytes

LEMMA ReadOn ==
  ASSUME NEW w \in Seq(Fields), NEW g \in Seq(0..MaxU64), Len(g) < Len(w),
         NEW n \in 0..MaxU64, NEW b, NEW e \in Bytes,
         e = Encode([kind |-> w[Len(g) + 1].kind, value |-> n]),
         \A i \in 1..Len(FlattenSeq(CodesOf(w, g))) : b[i] = FlattenSeq(CodesOf(w, g))[i],
         \A i \in 1..Len(e) : b[Len(FlattenSeq(CodesOf(w, g))) + i] = e[i]
  PROVE  /\ Len(FlattenSeq(CodesOf(w, Append(g, n))))
              = Len(FlattenSeq(CodesOf(w, g))) + Len(e)
         /\ \A i \in 1..Len(FlattenSeq(CodesOf(w, Append(g, n)))) :
              b[i] = FlattenSeq(CodesOf(w, Append(g, n)))[i]
<1> DEFINE s == FlattenSeq(CodesOf(w, g))
           t == FlattenSeq(CodesOf(w, Append(g, n)))
<1>1. Len(g) <= Len(w) /\ Len(g) \in Nat /\ Len(w) \in Nat
  OBVIOUS
<1>2. s \in Bytes /\ Len(s) \in Nat
  BY <1>1, BeforeTyped
<1>3. t = s \o e
  BY ReadAppends
<1>4. /\ \A i \in 1..Len(s) : b[i] = s[i]
      /\ \A i \in 1..Len(e) : b[Len(s) + i] = e[i]
  OBVIOUS
<1> HIDE DEF s, t
<1>5. /\ Len(t) = Len(s) + Len(e) /\ Len(e) \in Nat
      /\ \A i \in 1..Len(s) : t[i] = s[i]
      /\ \A i \in 1..Len(e) : t[Len(s) + i] = e[i]
  <2>1. Len(e) \in Nat
    BY Elements DEF Bytes
  <2> QED
    BY <1>2, <1>3, <2>1, Concatenation DEF Bytes
<1>6. ASSUME NEW i \in 1..Len(t)
      PROVE  b[i] = t[i]
  <2>1. CASE i <= Len(s)
    BY <1>2, <1>4, <1>5, <2>1
  <2>2. CASE i > Len(s)
    <3> DEFINE j == i - Len(s)
    <3>1. j \in 1..Len(e) /\ Len(s) + j = i
      BY <1>2, <1>5, <2>2
    <3> HIDE DEF j
    <3>2. b[Len(s) + j] = e[j] /\ t[Len(s) + j] = e[j]
      BY <1>4, <1>5, <3>1
    <3> QED
      BY <3>1, <3>2
  <2> QED
    BY <1>2, <1>5, <2>1, <2>2
<1>7. Len(t) = Len(s) + Len(e) /\ \A i \in 1..Len(t) : b[i] = t[i]
  BY <1>5, <1>6
<1> QED
  BY <1>7 DEF s, t

(* Nothing read yet.                                                       *)
LEMMA BytesFresh ==
  ASSUME TypeOK', got' = <<>>, cursor' = 0, acc' = 0, status' \in {"writing", "reading"}
  PROVE  SameBytes' /\ SameValues'
<1>1. written' \in Seq(Fields)
  BY DEF TypeOK
<1>2. Before' = <<>> /\ Start' = 0
  BY <1>1, NoFields DEF Before, Start
<1>3. Len(Seen(acc')) = 0
  BY ConstantFacts, SeenTyped
<1>4. SameBytes'
  BY <1>2, <1>3 DEF SameBytes, Underway
<1>5. SameValues'
  BY DEF SameValues, Underway, Errors
<1> QED
  BY <1>4, <1>5

LEMMA BytesInit == Init => SameBytes /\ SameValues
<1> SUFFICES ASSUME Init PROVE SameBytes /\ SameValues
  OBVIOUS
<1>1. written = <<>> /\ got = <<>> /\ cursor = 0 /\ acc = 0 /\ status = "writing"
  BY DEF Init
<1>2. Before = <<>> /\ Start = 0
  <2>1. written \in Seq(Fields)
    BY <1>1
  <2>2. FlattenSeq(CodesOf(written, <<>>)) = <<>> /\ Len(<<>>) = 0
    BY <2>1, NoFields
  <2>3. got = <<>>
    BY <1>1
  <2> QED
    BY <2>2, <2>3 DEF Before, Start
<1>3. Len(Seen(acc)) = 0
  BY <1>1, ConstantFacts, SeenTyped
<1>4. SameBytes
  BY <1>1, <1>2, <1>3 DEF SameBytes, Underway
<1>5. SameValues
  BY <1>1 DEF SameValues, Underway, Errors
<1> QED
  BY <1>4, <1>5

LEMMA StartTyped ==
  ASSUME TypeOK
  PROVE  Before \in Bytes /\ Start \in Nat
BY Typed, BeforeTyped DEF Before, Start

LEMMA BytesRefused ==
  ASSUME TypeOK, SameBytes, NEW error, Refused(error)
  PROVE  SameBytes'
<1>1. Before' = Before /\ Start' = Start /\ buf' = buf
  BY DEF Refused, Before, Start
<1>2. ~Underway' /\ status' # "done"
  BY DEF Refused, Underway, Errors
<1>3. Start <= cursor'
  BY StartTyped, Typed DEF Refused, SameBytes
<1>4. \A i \in 1..Start : buf'[i] = Before'[i]
  BY <1>1 DEF SameBytes
<1> QED
  BY <1>1, <1>2, <1>3, <1>4 DEF SameBytes

LEMMA BytesAccepted ==
  ASSUME TypeOK, SameBytes, status = "reading", Len(got) < Len(written),
         NEW n \in 0..MaxU64, NEW at, Accept(n, at), NEW e \in Bytes,
         e = Encode([kind |-> written[Len(got) + 1].kind, value |-> n]),
         at = Start + Len(e), \A i \in 1..Len(e) : buf[Start + i] = e[i]
  PROVE  SameBytes'
<1>1. /\ got' = Append(got, n) /\ cursor' = at /\ acc' = 0
      /\ UNCHANGED <<written, buf, damage, status>>
  BY DEF Accept
<1>2. \A i \in 1..Start : buf[i] = Before[i]
  BY DEF SameBytes
<1>3. /\ Len(FlattenSeq(CodesOf(written, Append(got, n)))) = Start + Len(e)
      /\ \A i \in 1..Len(FlattenSeq(CodesOf(written, Append(got, n)))) :
           buf[i] = FlattenSeq(CodesOf(written, Append(got, n)))[i]
  <2>1. Start = Len(FlattenSeq(CodesOf(written, got)))
    BY DEF Before, Start
  <2>2. written \in Seq(Fields) /\ got \in Seq(0..MaxU64)
    BY Typed
  <2>3. /\ \A i \in 1..Len(FlattenSeq(CodesOf(written, got))) :
             buf[i] = FlattenSeq(CodesOf(written, got))[i]
        /\ \A i \in 1..Len(e) :
             buf[Len(FlattenSeq(CodesOf(written, got))) + i] = e[i]
    BY <1>2, <2>1 DEF Before
  <2>4. /\ Len(FlattenSeq(CodesOf(written, Append(got, n))))
              = Len(FlattenSeq(CodesOf(written, got))) + Len(e)
        /\ \A i \in 1..Len(FlattenSeq(CodesOf(written, Append(got, n)))) :
             buf[i] = FlattenSeq(CodesOf(written, Append(got, n)))[i]
    BY ZenonT(30), <2>2, <2>3, ReadOn
  <2> QED
    BY <2>1, <2>4
<1>4. Start' = at /\ \A i \in 1..Start' : buf'[i] = Before'[i]
  BY <1>1, <1>3 DEF Before, Start
<1>5. Len(Seen(acc')) = 0 /\ Start' \in Nat
  <2>1. Len(e) \in Nat
    BY Elements DEF Bytes
  <2> QED
    BY <1>1, <1>4, <2>1, ConstantFacts, SeenTyped, StartTyped
<1> QED
  BY <1>1, <1>4, <1>5 DEF SameBytes, Underway

(* What an accepted or unfinished integer is read from.                    *)
LEMMA SizeBytes ==
  ASSUME TypeOK, SizeFits, Size >= LeastOf(Tag), Size <= MaxSize,
         NEW f, f.kind = "compact", f.value = Size
  PROVE  /\ Encode(f) \in Bytes /\ Len(Encode(f)) = 1 + Width(Tag)
         /\ \A i \in 1..Len(Encode(f)) : buf[cursor + i] = Encode(f)[i]
<1>1. /\ Tag \in 0..Radix - 1 /\ Width(Tag) \in Nat
      /\ Digits \in Bytes /\ Len(Digits) = Width(Tag)
      /\ \A i \in 1..Width(Tag) : Digits[i] = buf[cursor + 1 + i]
  BY SizeHere
<1>2. Encode(f) = <<Tag>> \o Digits
  BY <1>1, CompactCanonical DEF Encode, Size
<1>3. /\ Encode(f) \in Bytes /\ Len(Encode(f)) = 1 + Width(Tag)
      /\ Encode(f)[1] = Tag
      /\ \A i \in 1..Width(Tag) : Encode(f)[1 + i] = Digits[i]
  BY <1>1, <1>2, TagInFront
<1>4. ASSUME NEW i \in 1..1 + Width(Tag)
      PROVE  buf[cursor + i] = Encode(f)[i]
  <2>1. CASE i = 1
    BY <1>3, <2>1 DEF Tag
  <2>2. CASE i > 1
    <3> DEFINE j == i - 1
    <3>1. j \in 1..Width(Tag) /\ i = 1 + j /\ cursor + i = cursor + 1 + j
      BY <1>1, <2>2, Typed
    <3> HIDE DEF j
    <3> QED
      BY <1>1, <1>3, <3>1
  <2> QED
    BY <1>1, <2>1, <2>2
<1> QED
  BY <1>3, <1>4

LEMMA DigitBytes ==
  ASSUME TypeOK, SameBytes, status = "reading", cursor < Len(buf),
         acc <= MaxU64 \div Base, NEW d, d = Tag
  PROVE  /\ Len(Append(Seen(acc), d)) = Len(Seen(acc)) + 1
         /\ cursor + 1 = Start + Len(Append(Seen(acc), d))
         /\ \A i \in 1..Len(Append(Seen(acc), d)) :
              buf[Start + i] = Append(Seen(acc), d)[i]
<1> DEFINE seen == Seen(acc)
           more == Append(seen, d)
<1>1. Tag \in Nat /\ cursor \in Nat /\ Start \in Nat /\ acc \in 0..MaxU64
  BY DigitHere, Typed, StartTyped
<1>2. seen \in Seq(Int) /\ Len(seen) \in Nat
  BY <1>1, SeenTyped
<1>3. /\ cursor = Start + Len(seen)
      /\ \A i \in 1..Len(seen) : buf[Start + i] = seen[i]
  BY DEF SameBytes, Underway, Errors
<1>4. d \in Int
  BY <1>1
<1> HIDE DEF seen
<1>5. /\ Len(more) = Len(seen) + 1 /\ more[Len(seen) + 1] = d
      /\ \A i \in 1..Len(seen) : more[i] = seen[i]
  BY <1>2, <1>4, OneMore
<1>6. buf[Start + (Len(seen) + 1)] = d
  <2>1. cursor + 1 = Start + (Len(seen) + 1)
    BY <1>1, <1>2, <1>3
  <2> QED
    BY <2>1 DEF Tag
<1> HIDE DEF more
<1>7. ASSUME NEW i \in 1..Len(more)
      PROVE  buf[Start + i] = more[i]
  <2>1. CASE i = Len(seen) + 1
    BY <1>5, <1>6, <2>1
  <2>2. CASE i \in 1..Len(seen)
    BY <1>3, <1>5, <2>2
  <2> QED
    BY <1>2, <1>5, <2>1, <2>2
<1>8. cursor + 1 = Start + Len(more)
  BY <1>1, <1>2, <1>3, <1>5
<1> QED
  BY <1>5, <1>7, <1>8 DEF more, seen

LEMMA BytesSize ==
  ASSUME TypeOK, SameBytes, ReadCompactSize
  PROVE  SameBytes'
<1>1. /\ status = "reading" /\ Len(got) < Len(written)
      /\ written[Len(got) + 1].kind = "compact" /\ SizeOutcome
  BY SizeRead
<1>2. ASSUME NEW error, Refused(error)
      PROVE  SameBytes'
  BY <1>2, BytesRefused
<1>3. CASE /\ Accept(Size, End(Tag)) /\ SizeFits
           /\ Size >= LeastOf(Tag) /\ Size <= MaxSize
  <2> DEFINE f == [kind |-> written[Len(got) + 1].kind, value |-> Size]
             e == Encode(f)
  <2>1. f.kind = "compact" /\ f.value = Size
    BY <1>1
  <2> HIDE DEF f
  <2>2. /\ e \in Bytes /\ Len(e) = 1 + Width(Tag)
        /\ \A i \in 1..Len(e) : buf[cursor + i] = e[i]
    BY <1>3, <2>1, SizeBytes
  <2>3. cursor = Start
    <3>1. acc = 0 /\ acc \in 0..MaxU64
      BY <1>1, Typed DEF SameBytes, Underway, Errors
    <3>2. cursor = Start + Len(Seen(acc)) /\ Len(Seen(acc)) = 0
      BY <1>1, <3>1, SeenTyped DEF SameBytes, Underway, Errors
    <3> QED
      BY <3>2, StartTyped
  <2>4. End(Tag) = Start + Len(e) /\ \A i \in 1..Len(e) : buf[Start + i] = e[i]
    <3>1. Width(Tag) \in Nat /\ End(Tag) = cursor + 1 + Width(Tag) /\ Start \in Nat
      BY <1>3, SizeHere, StartTyped
    <3> HIDE DEF e
    <3>2. End(Tag) = Start + Len(e)
      BY <2>2, <2>3, <3>1
    <3> QED
      BY <2>2, <2>3, <3>2
  <2>5. Size \in 0..MaxU64
    BY <1>3, SizeHere, ConstantFacts
  <2> HIDE DEF e
  <2>6. e = Encode([kind |-> written[Len(got) + 1].kind, value |-> Size])
    BY DEF e, f
  <2> QED
    BY <1>1, <1>3, <2>2, <2>4, <2>5, <2>6, BytesAccepted
<1> QED
  BY <1>1, <1>2, <1>3 DEF SizeOutcome

LEMMA BytesDigit ==
  ASSUME TypeOK, SameBytes, ReadVarIntByte
  PROVE  SameBytes'
<1>1. /\ status = "reading" /\ Len(got) < Len(written)
      /\ written[Len(got) + 1].kind = "varint" /\ VarIntOutcome
  BY DigitRead
<1>2. ASSUME NEW error, Refused(error)
      PROVE  SameBytes'
  BY <1>2, BytesRefused
<1>3. CASE /\ cursor < Len(buf) /\ acc <= MaxU64 \div Base /\ Tag >= Base
           /\ acc' = Taken + 1 /\ cursor' = cursor + 1
           /\ UNCHANGED <<written, buf, damage, got, status>>
  <2> DEFINE more == Append(Seen(acc), Tag)
  <2>1. Seen(acc') = more
    BY <1>3, DigitHere
  <2>2. /\ cursor + 1 = Start + Len(more)
        /\ \A i \in 1..Len(more) : buf[Start + i] = more[i]
    BY <1>1, <1>3, DigitBytes
  <2> HIDE DEF more
  <2>3. Before' = Before /\ Start' = Start
    BY <1>3 DEF Before, Start
  <2>4. Start <= cursor /\ \A i \in 1..Start : buf[i] = Before[i]
    BY DEF SameBytes
  <2>5. Start' <= cursor' /\ \A i \in 1..Start' : buf'[i] = Before'[i]
    BY <1>3, <2>3, <2>4, StartTyped, Typed
  <2>6. /\ cursor' = Start' + Len(Seen(acc'))
        /\ \A i \in 1..Len(Seen(acc')) : buf'[Start' + i] = Seen(acc')[i]
    BY <1>3, <2>1, <2>2, <2>3
  <2>7. /\ status' = "reading" /\ Len(got') < Len(written')
        /\ written'[Len(got') + 1].kind = "varint"
    BY <1>1, <1>3
  <2> QED
    BY <2>5, <2>6, <2>7 DEF SameBytes
<1>4. CASE /\ cursor < Len(buf) /\ acc <= MaxU64 \div Base /\ Tag < Base
           /\ Accept(Taken, cursor + 1)
  <2> DEFINE f == [kind |-> written[Len(got) + 1].kind, value |-> Taken]
             e == Encode(f)
  <2>1. Taken \in 0..MaxU64 /\ e = Append(Seen(acc), Tag)
    <3>1. f.kind = "varint" /\ f.value = Taken
      BY <1>1
    <3> HIDE DEF f
    <3>2. e = WriteVarInt(Taken)
      BY <3>1 DEF Encode
    <3> QED
      BY <1>4, <3>2, DigitHere
  <2>2. e \in Bytes
    <3>1. f.kind = "varint" /\ f.value = Taken
      BY <1>1
    <3> HIDE DEF f
    <3> QED
      BY <2>1, <3>1, VarIntBytes DEF Encode
  <2>3. cursor + 1 = Start + Len(e) /\ \A i \in 1..Len(e) : buf[Start + i] = e[i]
    <3> HIDE DEF e
    <3> QED
      BY <1>1, <1>4, <2>1, DigitBytes
  <2> HIDE DEF e
  <2>4. e = Encode([kind |-> written[Len(got) + 1].kind, value |-> Taken])
    BY DEF e, f
  <2> QED
    BY <1>1, <1>4, <2>1, <2>2, <2>3, <2>4, BytesAccepted
<1> QED
  BY <1>1, <1>2, <1>3, <1>4 DEF VarIntOutcome

LEMMA BytesNext ==
  ASSUME TypeOK, Unread, SameBytes, [Next]_vars
  PROVE  SameBytes'
<1>1. TypeOK'
  BY TypeNext
<1>2. ASSUME NEW f \in Fields, Write(f)
      PROVE  SameBytes'
  BY <1>1, <1>2, BytesFresh DEF Write, Unread
<1>3. CASE DeliverWhole \/ Truncate \/ Corrupt
  <2>1. PICK bytes \in Bytes, how \in {"none", "truncated", "corrupted"} :
          Deliver(bytes, how)
    BY <1>3, Delivered
  <2> QED
    BY <1>1, <2>1, BytesFresh DEF Deliver, Unread
<1>4. CASE Finish
  <2>1. acc = 0
    BY <1>4, Typed DEF Finish, SameBytes, Underway, Errors
  <2>2. Before' = Before /\ Start' = Start
    BY <1>4 DEF Finish, Before, Start
  <2> QED
    BY <1>4, <2>1, <2>2 DEF Finish, SameBytes, Underway, Errors
<1>5. CASE UNCHANGED vars
  BY <1>5 DEF vars, SameBytes, Before, Start, Underway
<1> QED
  BY <1>2, <1>3, <1>4, <1>5, BytesSize, BytesDigit DEF Next

-----------------------------------------------------------------------------
(* The values read.                                                        *)
LEMMA DivBelow ==
  ASSUME NEW n \in Nat, n > 0, NEW x \in Nat, NEW y \in Nat, x <= y
  PROVE  x \div n <= y \div n
<1> DEFINE a == x \div n
           b == y \div n
<1>1. /\ x = a * n + (x % n) /\ x % n \in 0..n - 1 /\ a \in Int /\ a >= 0
      /\ y = b * n + (y % n) /\ y % n \in 0..n - 1 /\ b \in Int /\ b >= 0
  BY DivMod
<1> HIDE DEF a, b
<1>2. CASE a >= b + 1
  <2>1. (b + 1) * n <= a * n /\ b * n \in Nat /\ a * n \in Nat
    BY <1>1, <1>2, ProductBelow
  <2>2. (b + 1) * n = b * n + n
    BY <1>1
  <2> QED
    BY <1>1, <2>1, <2>2
<1>3. a <= b
  BY <1>1, <1>2
<1> QED
  BY <1>3 DEF a, b

(* The digit of one turn of write_varint_u64's loop, and what the reader   *)
(* holds before and after it.                                              *)
LEMMA TurnDigit ==
  ASSUME NEW v \in 0..MaxU64, NEW k \in 0..FinalTurn(v)
  PROVE  LET r == Rest(v)[k]
         IN  /\ r \in 0..MaxU64 /\ r \div Base \in Int
             /\ r \div Base <= MaxU64 \div Base
             /\ (r \div Base) * Base + (r % Base) = r /\ r % Base \in 0..Base - 1
             /\ WriteVarInt(v)[FinalTurn(v) + 1 - k]
                  = (r % Base) + (IF k = 0 THEN 0 ELSE Base)
             /\ k = 0 => r = v
             /\ k > 0 => r < MaxU64 /\ r + 1 = Rest(v)[k - 1] \div Base
             /\ k = FinalTurn(v) => r \div Base = 0
<1> DEFINE r == Rest(v)[k]
<1>1. /\ Base \in Nat /\ Base >= 2 /\ MaxU64 \in Nat /\ v \in Nat /\ v <= MaxU64
      /\ FinalTurn(v) \in Nat
  BY ConstantFacts, VarIntBytes
<1>2. /\ r \in 0..v
      /\ k > 0 => r < v /\ Rest(v)[k - 1] \div Base = r + 1
  BY RestBounds
<1>3. Rest(v)[0] = v
  BY RestFacts
<1>4. WriteVarInt(v)[FinalTurn(v) + 1 - k] = (r % Base) + (IF k = 0 THEN 0 ELSE Base)
  BY VarIntBytes
<1>5. k = FinalTurn(v) => r < Base
  BY FinalTurnExists DEF IsFinal
<1>6. k = 0 => r = v
  BY <1>3
<1> HIDE DEF r
<1>7. r \in Nat /\ r \in 0..MaxU64 /\ r <= MaxU64
  BY <1>1, <1>2
<1>8. r \div Base <= MaxU64 \div Base
  BY <1>1, <1>7, DivBelow
<1>9. /\ r = ((r \div Base) * Base) + (r % Base) /\ r % Base \in 0..Base - 1
      /\ r \div Base \in Int
  BY <1>1, <1>7, DivMod
<1>10. r < Base => r \div Base = 0
  <2>1. ASSUME r < Base
        PROVE  r \div Base = 0
    <3>1. r \in 0..Base - 1 /\ 0 * Base + r = r
      BY <1>1, <1>7, <2>1
    <3>2. (0 * Base + r) \div Base = 0
      BY <1>1, <3>1, DivModUnique
    <3> QED
      BY <3>1, <3>2
  <2> QED
    BY <2>1
<1>11. k > 0 => r < MaxU64 /\ r + 1 = Rest(v)[k - 1] \div Base
  BY <1>1, <1>2, <1>7
<1> QED
  BY <1>4, <1>5, <1>6, <1>7, <1>8, <1>9, <1>10, <1>11 DEF r

LEMMA SameRecord ==
  ASSUME NEW f \in Field
  PROVE  [kind |-> f.kind, value |-> f.value] = f
BY DEF Field

(* The bytes of the next field are where the reader starts on it.          *)
LEMMA NextFieldHere ==
  ASSUME TypeOK, Arrives, damage # "corrupted", Len(got) < Len(written),
         \A i \in 1..Len(got) : got[i] = written[i].value,
         NEW f, f = written[Len(got) + 1]
  PROVE  /\ f \in Field /\ f.value \in 0..MaxU64
         /\ Encode(f) \in Bytes /\ Len(Encode(f)) \in Nat
         /\ \A i \in 1..Len(Encode(f)) :
              Start + i <= Len(buf) => buf[Start + i] = Encode(f)[i]
         /\ damage = "none" => Start + Len(Encode(f)) <= Len(buf)
<1> DEFINE c == Codes(written)
           a == CodesOf(written, got)
           m == Len(got)
<1>1. /\ m \in Nat /\ m <= Len(written) /\ Len(written) \in Nat /\ Len(buf) \in Nat
      /\ m + 1 \in 1..Len(written)
  BY Typed
<1>2. f \in Field /\ f.value \in 0..MaxU64
  BY <1>1, Typed
<1>3. /\ c \in Seq(Bytes) /\ Len(c) = Len(written)
      /\ \A i \in 1..Len(written) : c[i] = Encode(written[i]) /\ written[i] \in Field
  BY Typed, CodesTyped
<1>4. /\ a \in Seq(Bytes) /\ Len(a) = m
      /\ \A i \in 1..m : a[i] = Encode([kind |-> written[i].kind, value |-> got[i]])
  BY <1>1, Typed, CodesOfTyped
<1>5. ASSUME NEW i \in 1..m
      PROVE  a[i] = c[i]
  <2>1. i \in 1..Len(written) /\ got[i] = written[i].value
    BY <1>1
  <2>2. a[i] = Encode([kind |-> written[i].kind, value |-> written[i].value])
    BY <1>4, <2>1
  <2> QED
    BY <1>3, <2>1, <2>2, SameRecord
<1>6. Encode(f) = c[m + 1]
  BY <1>1, <1>3
<1>7. /\ Len(buf) <= Len(FlattenSeq(c)) /\ \A i \in 1..Len(buf) : buf[i] = FlattenSeq(c)[i]
      /\ damage = "none" => Len(buf) = Len(FlattenSeq(c))
  BY DEF Arrives
<1>8. Encode(f) \in Bytes
  BY <1>2, EncodeTyped
<1>9. Len(Encode(f)) \in Nat
  BY <1>8, Elements DEF Bytes
<1>10. Start = Len(FlattenSeq(a)) /\ Start \in Nat
  BY StartTyped DEF Start, Before
<1> HIDE DEF a, c, m
<1>11. Joined(a)[m] = Joined(c)[m]
  <2> DEFINE S == 0..Radix - 1
  <2>1. a \in Seq(Seq(S)) /\ c \in Seq(Seq(S))
    BY <1>3, <1>4 DEF Bytes
  <2>2. m <= Len(a) /\ m <= Len(c) /\ \A i \in 1..m : a[i] = c[i]
    BY <1>1, <1>3, <1>4, <1>5
  <2> HIDE DEF S
  <2> QED
    BY <1>1, <2>1, <2>2, JoinedAlike
<1>12. Start = Len(Joined(c)[m])
  <2>1. FlattenSeq(a) = Joined(a)[Len(a)]
    BY <1>4, JoinedEquations DEF Bytes
  <2> QED
    BY <1>4, <1>10, <1>11, <2>1
<1>13. /\ Start + Len(Encode(f)) <= Len(FlattenSeq(c))
       /\ \A i \in 1..Len(Encode(f)) : FlattenSeq(c)[Start + i] = Encode(f)[i]
  <2>1. m \in 0..Len(c) /\ m < Len(c)
    BY <1>1, <1>3
  <2>2. /\ Len(Joined(c)[m]) + Len(c[m + 1]) <= Len(FlattenSeq(c))
        /\ \A i \in 1..Len(c[m + 1]) : FlattenSeq(c)[Len(Joined(c)[m]) + i] = c[m + 1][i]
    <3> DEFINE S == 0..Radix - 1
    <3>1. c \in Seq(Seq(S))
      BY <1>3 DEF Bytes
    <3> HIDE DEF S
    <3> QED
      BY ZenonT(30), <2>1, <3>1, JoinedPlaces
  <2> QED
    BY <1>6, <1>12, <2>2
<1>14. \A i \in 1..Len(Encode(f)) :
         Start + i <= Len(buf) => buf[Start + i] = Encode(f)[i]
  BY SMTT(20), <1>1, <1>7, <1>9, <1>10, <1>13
<1>15. damage = "none" => Start + Len(Encode(f)) <= Len(buf)
  BY <1>7, <1>13
<1> QED
  BY <1>2, <1>8, <1>9, <1>14, <1>15

(* read_compact_size on what was written finds the value written.          *)
LEMMA SizeSame ==
  ASSUME TypeOK, Arrives, damage # "corrupted", Len(got) < Len(written),
         \A i \in 1..Len(got) : got[i] = written[i].value,
         NEW f, f = written[Len(got) + 1], f.kind = "compact", cursor = Start
  PROVE  /\ SizeFits => Size = f.value /\ ~(Size < LeastOf(Tag))
         /\ damage = "none" => SizeFits
<1>1. /\ f.value \in 0..MaxU64 /\ Encode(f) \in Bytes
      /\ \A i \in 1..Len(Encode(f)) :
           Start + i <= Len(buf) => buf[Start + i] = Encode(f)[i]
      /\ damage = "none" => Start + Len(Encode(f)) <= Len(buf)
  BY NextFieldHere
<1>2. PICK tag \in 0..Radix - 1, digits \in Bytes :
        /\ WriteCompactSize(f.value) = <<tag>> \o digits /\ Len(digits) = Width(tag)
        /\ Decoded(tag, digits) = f.value /\ LeastOf(tag) <= f.value
  BY <1>1, CompactReadsBack
<1>3. Width(tag) \in Nat /\ LeastOf(tag) \in Nat
  BY TagNumbers
<1>4. /\ Len(Encode(f)) = 1 + Width(tag) /\ Encode(f)[1] = tag
      /\ \A i \in 1..Width(tag) : Encode(f)[1 + i] = digits[i]
  <2>1. Encode(f) = <<tag>> \o digits
    BY <1>2 DEF Encode
  <2> QED
    BY <1>2, <2>1, TagInFront
<1>5. Len(buf) \in Nat /\ cursor \in Nat
  BY Typed
<1>6. cursor < Len(buf) => Tag = tag
  <2>1. 1 \in 1..Len(Encode(f))
    BY <1>3, <1>4
  <2>2. cursor < Len(buf) => buf[Start + 1] = Encode(f)[1]
    BY <1>1, <1>5, <2>1
  <2> QED
    BY <1>4, <2>2 DEF Tag
<1>7. End(tag) = cursor + 1 + Width(tag)
  BY DEF End
<1>8. ASSUME damage = "none"
      PROVE  SizeFits
  <2>1. cursor + (1 + Width(tag)) <= Len(buf)
    BY <1>1, <1>4, <1>8
  <2>2. cursor < Len(buf)
    BY <1>3, <1>5, <2>1
  <2>3. End(tag) <= Len(buf)
    BY <1>3, <1>5, <1>7, <2>1
  <2> QED
    BY <1>6, <2>2, <2>3 DEF SizeFits
<1>9. ASSUME SizeFits
      PROVE  Size = f.value /\ ~(Size < LeastOf(Tag))
  <2>1. Tag = tag
    BY <1>6, <1>9 DEF SizeFits
  <2>2. /\ Digits \in Bytes /\ Len(Digits) = Width(tag)
        /\ \A i \in 1..Width(tag) : Digits[i] = buf[cursor + 1 + i]
        /\ End(tag) <= Len(buf)
    BY <1>9, <2>1, SizeHere DEF SizeFits
  <2>3. ASSUME NEW i \in 1..Width(tag)
        PROVE  Digits[i] = digits[i]
    <3> DEFINE j == 1 + i
    <3>1. /\ j \in 1..Len(Encode(f)) /\ Start + j <= Len(buf)
          /\ Start + j = cursor + 1 + i
      <4>1. cursor + 1 + Width(tag) <= Len(buf)
        BY <1>7, <2>2
      <4>2. i \in Nat /\ i >= 1 /\ i <= Width(tag) /\ cursor = Start
        BY <1>3
      <4>3. j \in 1..1 + Width(tag)
        BY <1>3, <4>2
      <4>4. Start + j = cursor + 1 + i /\ Start + j <= Len(buf)
        BY <1>3, <1>5, <4>1, <4>2
      <4> QED
        BY <1>4, <4>3, <4>4
    <3>2. Encode(f)[j] = digits[i]
      BY <1>4
    <3> HIDE DEF j
    <3>3. buf[Start + j] = Encode(f)[j]
      BY <1>1, <3>1
    <3>4. Digits[i] = buf[Start + j]
      BY <2>2, <3>1
    <3> QED
      BY <3>2, <3>3, <3>4
  <2>4. Digits = digits
    BY <1>2, <2>2, <2>3, SameSequence DEF Bytes
  <2>5. Size = f.value
    BY <1>2, <2>1, <2>4 DEF Size
  <2>6. f.value \in Nat
    BY <1>1, ConstantFacts
  <2> QED
    BY <1>2, <1>3, <2>1, <2>5, <2>6
<1> QED
  BY <1>8, <1>9

(* What a VARINT reader holds whether it has begun or not.                 *)
LEMMA Holds ==
  ASSUME TypeOK, Arrives, SameBytes, SameValues, damage # "corrupted",
         status = "reading", Len(got) < Len(written),
         NEW v, v = written[Len(got) + 1].value
  PROVE  /\ v \in 0..MaxU64 /\ FinalTurn(v) \in Nat
         /\ Left = FinalTurn(v) - (cursor - Start) /\ Left \in 0..FinalTurn(v)
         /\ acc = Rest(v)[Left] \div Base
<1>1. v \in 0..MaxU64
  BY Typed
<1>2. FinalTurn(v) \in Nat
  BY <1>1, VarIntBytes
<1>3. /\ Left = FinalTurn(v) - (cursor - Start)
      /\ cursor \in Nat /\ Start \in Nat /\ Start <= cursor /\ acc \in 0..MaxU64
  BY Typed, StartTyped DEF Left, SameBytes
<1>4. CASE acc = 0
  <2>1. cursor = Start
    <3>1. cursor = Start + Len(Seen(acc)) /\ Len(Seen(acc)) = 0
      BY <1>3, <1>4, SeenTyped DEF SameBytes, Underway, Errors
    <3> QED
      BY <1>3, <3>1
  <2>2. Left = FinalTurn(v) /\ Left \in 0..FinalTurn(v)
    BY <1>2, <1>3, <2>1
  <2>3. Rest(v)[FinalTurn(v)] \div Base = 0
    <3>1. FinalTurn(v) \in 0..FinalTurn(v)
      BY <1>2
    <3> QED
      BY <1>1, <3>1, TurnDigit
  <2> QED
    BY <1>1, <1>2, <1>3, <1>4, <2>2, <2>3
<1>5. CASE acc # 0
  <2>1. Left >= 0 /\ acc = Rest(v)[Left] \div Base
    BY <1>5 DEF SameValues, Underway, Errors
  <2>2. Left \in 0..FinalTurn(v)
    BY <1>2, <1>3, <2>1
  <2> QED
    BY <1>1, <1>2, <1>3, <2>1, <2>2
<1> QED
  BY <1>4, <1>5

(* One turn of read_varint_u64 on what was written.                        *)
LEMMA DigitSame ==
  ASSUME TypeOK, Arrives, SameBytes, SameValues, damage # "corrupted",
         status = "reading", Len(got) < Len(written),
         NEW f, f = written[Len(got) + 1], f.kind = "varint"
  PROVE  /\ damage = "none" => cursor < Len(buf)
         /\ cursor < Len(buf) =>
              /\ acc <= MaxU64 \div Base
              /\ Tag < Base => Left = 0 /\ Taken = f.value
              /\ Tag >= Base => /\ Left - 1 \in Nat /\ Taken < MaxU64
                                /\ Taken + 1 = Rest(f.value)[Left - 1] \div Base
<1> DEFINE v == f.value
           K == FinalTurn(v)
           r == Rest(v)[Left]
<1>1. /\ v \in 0..MaxU64 /\ K \in Nat /\ Left = K - (cursor - Start) /\ Left \in 0..K
      /\ acc = r \div Base
  BY Holds
<1>2. /\ \A i \in 1..Len(Encode(f)) :
           Start + i <= Len(buf) => buf[Start + i] = Encode(f)[i]
      /\ damage = "none" => Start + Len(Encode(f)) <= Len(buf)
  BY NextFieldHere DEF SameValues
<1>3. Encode(f) = WriteVarInt(v) /\ Len(WriteVarInt(v)) = K + 1
  BY <1>1, VarIntBytes DEF Encode
<1>4. /\ cursor \in Nat /\ Start \in Nat /\ Len(buf) \in Nat /\ Base \in Nat
  BY Typed, StartTyped, ConstantFacts
<1> DEFINE j == K + 1 - Left
<1>5. j \in 1..K + 1 /\ Start + j = cursor + 1
  <2> HIDE DEF K, r
  <2>1. Left \in Int /\ Left >= 0 /\ Left <= K /\ j = (cursor - Start) + 1
    BY <1>1, <1>4
  <2> QED
    BY <1>1, <1>4, <2>1
<1>6. /\ r \in 0..MaxU64 /\ r \div Base <= MaxU64 \div Base
      /\ (r \div Base) * Base + (r % Base) = r /\ r % Base \in 0..Base - 1
      /\ WriteVarInt(v)[j] = (r % Base) + (IF Left = 0 THEN 0 ELSE Base)
      /\ Left = 0 => r = v
      /\ Left > 0 => r < MaxU64 /\ r + 1 = Rest(v)[Left - 1] \div Base
  <2> DEFINE left == Left
  <2>1. v \in 0..MaxU64 /\ left \in 0..FinalTurn(v)
    BY <1>1
  <2> HIDE DEF v, left
  <2>2. /\ Rest(v)[left] \in 0..MaxU64 /\ Rest(v)[left] \div Base <= MaxU64 \div Base
        /\ (Rest(v)[left] \div Base) * Base + (Rest(v)[left] % Base) = Rest(v)[left]
        /\ Rest(v)[left] % Base \in 0..Base - 1
        /\ WriteVarInt(v)[FinalTurn(v) + 1 - left]
             = (Rest(v)[left] % Base) + (IF left = 0 THEN 0 ELSE Base)
        /\ left = 0 => Rest(v)[left] = v
        /\ left > 0 => /\ Rest(v)[left] < MaxU64
                       /\ Rest(v)[left] + 1 = Rest(v)[left - 1] \div Base
    BY <2>1, TurnDigit
  <2> QED
    BY <2>2 DEF left
<1>7. Left = 0 \/ (Left > 0 /\ Left - 1 \in Nat)
  BY <1>1
<1> HIDE DEF v, K, r, j
<1>8. damage = "none" => cursor < Len(buf)
  BY <1>1, <1>2, <1>3, <1>4, <1>5
<1>9. ASSUME cursor < Len(buf)
      PROVE  /\ acc <= MaxU64 \div Base
             /\ Tag < Base => Left = 0 /\ Taken = v
             /\ Tag >= Base => /\ Left - 1 \in Nat /\ Taken < MaxU64
                               /\ Taken + 1 = Rest(v)[Left - 1] \div Base
  <2>1. Tag = WriteVarInt(v)[j]
    <3>1. j \in 1..Len(Encode(f)) /\ Start + j <= Len(buf)
      BY <1>3, <1>4, <1>5, <1>9
    <3> QED
      BY <1>2, <1>3, <1>5, <3>1 DEF Tag
  <2>2. Tag = (r % Base) + (IF Left = 0 THEN 0 ELSE Base)
    BY <1>6, <2>1
  <2>3. Tag < Base <=> Left = 0
    BY <1>4, <1>6, <2>2
  <2>4. Tag % Base = r % Base
    <3>1. acc <= MaxU64 \div Base
      BY <1>1, <1>6
    <3>2. /\ Tag < Base => Tag = Tag % Base
          /\ Tag >= Base => Tag = (Tag % Base) + Base
          /\ Tag % Base \in 0..Base - 1
      BY <1>9, <3>1, DigitHere
    <3>3. Tag % Base \in Int /\ r % Base \in Int
      BY <1>4, <1>6, <3>2
    <3>4. CASE Left = 0
      BY <2>2, <2>3, <3>2, <3>3, <3>4
    <3>5. CASE Left # 0
      <4>1. Tag = (r % Base) + Base /\ Tag >= Base
        BY <1>4, <1>6, <2>2, <3>5
      <4>2. Tag = (Tag % Base) + Base
        BY <3>2, <4>1
      <4> QED
        BY <1>4, <3>3, <4>1, <4>2
    <3> QED
      BY <3>4, <3>5
  <2>5. Taken = r
    BY <1>1, <1>6, <2>4 DEF Taken
  <2>6. acc <= MaxU64 \div Base
    BY <1>1, <1>6
  <2>7. Tag >= Base => Left > 0
    <3>1. Tag \in Nat
      BY <1>9, <2>6, DigitHere
    <3> QED
      BY <1>4, <1>7, <2>3, <3>1
  <2> QED
    BY <1>6, <1>7, <2>3, <2>5, <2>6, <2>7
<1> QED
  BY <1>8, <1>9 DEF v

LEMMA ValuesRefused ==
  ASSUME TypeOK, SameValues, NEW error, Refused(error),
         damage = "none" =>
           /\ error = "CompactSizeTooLarge"
           /\ written[Len(got) + 1].kind = "compact"
           /\ written[Len(got) + 1].value > MaxSize
  PROVE  SameValues'
<1>1. /\ status' = error /\ error \in Errors /\ written' = written /\ damage' = damage
      /\ got' = got
  BY DEF Refused
<1>2. damage # "corrupted" => \A i \in 1..Len(got) : got[i] = written[i].value
  BY DEF SameValues
<1> QED
  BY <1>1, <1>2 DEF SameValues, Underway

LEMMA ValuesAccepted ==
  ASSUME TypeOK, SameValues, status = "reading", Len(got) < Len(written),
         NEW n \in 0..MaxU64, NEW at, Accept(n, at),
         damage # "corrupted" => n = written[Len(got) + 1].value
  PROVE  SameValues'
<1>1. /\ got' = Append(got, n) /\ acc' = 0
      /\ UNCHANGED <<written, buf, damage, status>>
  BY DEF Accept
<1>2. /\ Len(got') = Len(got) + 1 /\ Len(got) \in Nat /\ got'[Len(got) + 1] = n
      /\ \A i \in 1..Len(got) : got'[i] = got[i]
  BY <1>1, Typed, OneMore
<1>3. ASSUME damage # "corrupted", NEW i \in 1..Len(got')
      PROVE  got'[i] = written[i].value
  <2>1. CASE i = Len(got) + 1
    BY <1>2, <1>3, <2>1
  <2>2. CASE i \in 1..Len(got)
    BY <1>2, <1>3, <2>2 DEF SameValues
  <2> QED
    BY <1>2, <2>1, <2>2
<1> QED
  BY <1>1, <1>3 DEF SameValues, Errors

LEMMA ValuesSize ==
  ASSUME TypeOK, Arrives, SameBytes, SameValues, ReadCompactSize
  PROVE  SameValues'
<1>1. /\ status = "reading" /\ Len(got) < Len(written)
      /\ written[Len(got) + 1].kind = "compact" /\ SizeOutcome
  BY SizeRead
<1>2. cursor = Start
  <2>1. acc = 0 /\ acc \in 0..MaxU64
    BY <1>1, Typed DEF SameBytes, Underway, Errors
  <2>2. cursor = Start + Len(Seen(acc)) /\ Len(Seen(acc)) = 0
    BY <1>1, <2>1, SeenTyped DEF SameBytes, Underway, Errors
  <2> QED
    BY <2>2, StartTyped
<1>3. ASSUME damage # "corrupted"
      PROVE  /\ SizeFits => /\ Size = written[Len(got) + 1].value
                            /\ ~(Size < LeastOf(Tag))
             /\ damage = "none" => SizeFits
  <2>1. \A i \in 1..Len(got) : got[i] = written[i].value
    BY <1>3 DEF SameValues
  <2> QED
    BY <1>1, <1>2, <1>3, <2>1, SizeSame
<1>4. CASE Refused("UnexpectedEof") /\ ~SizeFits
  <2>1. damage # "none"
    BY <1>3, <1>4
  <2> QED
    BY <1>4, <2>1, ValuesRefused
<1>5. CASE Refused("NonCanonicalCompactSize") /\ SizeFits /\ Size < LeastOf(Tag)
  <2>1. damage # "none"
    BY <1>3, <1>5
  <2> QED
    BY <1>5, <2>1, ValuesRefused
<1>6. CASE Refused("CompactSizeTooLarge") /\ SizeFits /\ Size > MaxSize
  <2>1. damage = "none" => written[Len(got) + 1].value > MaxSize
    BY <1>3, <1>6
  <2> QED
    BY <1>1, <1>6, <2>1, ValuesRefused
<1>7. CASE Accept(Size, End(Tag)) /\ SizeFits /\ Size <= MaxSize
  <2>1. Size \in 0..MaxU64
    BY <1>7, SizeHere, ConstantFacts
  <2>2. damage # "corrupted" => Size = written[Len(got) + 1].value
    BY <1>3, <1>7
  <2> QED
    BY <1>1, <1>7, <2>1, <2>2, ValuesAccepted
<1> QED
  BY <1>1, <1>4, <1>5, <1>6, <1>7 DEF SizeOutcome

LEMMA ValuesDigit ==
  ASSUME TypeOK, Arrives, SameBytes, SameValues, ReadVarIntByte
  PROVE  SameValues'
<1>1. /\ status = "reading" /\ Len(got) < Len(written)
      /\ written[Len(got) + 1].kind = "varint" /\ VarIntOutcome
  BY DigitRead
<1> DEFINE v == written[Len(got) + 1].value
<1>2. ASSUME damage # "corrupted"
      PROVE  /\ damage = "none" => cursor < Len(buf)
             /\ cursor < Len(buf) =>
                  /\ acc <= MaxU64 \div Base
                  /\ Tag < Base => Left = 0 /\ Taken = v
                  /\ Tag >= Base => /\ Left - 1 \in Nat /\ Taken < MaxU64
                                    /\ Taken + 1 = Rest(v)[Left - 1] \div Base
  BY <1>1, <1>2, DigitSame
<1>3. /\ MaxU64 \in Nat /\ MaxU64 \div Base \in Int /\ acc \in Nat /\ cursor \in Nat
      /\ Start \in Nat /\ Len(buf) \in Nat
  BY ConstantFacts, DivMod, Typed, StartTyped
<1>4. CASE Refused("UnexpectedEof") /\ cursor = Len(buf)
  <2>1. damage # "none"
    BY <1>2, <1>3, <1>4
  <2> QED
    BY <1>4, <2>1, ValuesRefused
<1>5. CASE /\ Refused("VarIntTooLarge") /\ cursor < Len(buf)
           /\ acc > MaxU64 \div Base \/ (Tag >= Base /\ Taken = MaxU64)
  <2>1. ASSUME damage # "corrupted"
        PROVE  FALSE
    BY <1>2, <1>3, <1>5, <2>1
  <2> QED
    BY <1>5, <2>1, ValuesRefused
<1>6. CASE /\ cursor < Len(buf) /\ Tag >= Base
           /\ acc' = Taken + 1 /\ cursor' = cursor + 1
           /\ UNCHANGED <<written, buf, damage, got, status>>
  <2>1. ASSUME damage # "corrupted"
        PROVE  /\ \A i \in 1..Len(got) : got[i] = written[i].value
               /\ Left - 1 >= 0 /\ acc' = Rest(v)[Left - 1] \div Base
    BY <1>2, <1>6, <2>1 DEF SameValues
  <2>2. Left' = Left - 1
    <3>1. Start' = Start
      BY <1>6 DEF Start, Before
    <3>2. v \in 0..MaxU64
      BY <1>1, Typed
    <3>3. FinalTurn(v) \in Nat
      BY <3>2, VarIntBytes
    <3>4. Left = FinalTurn(v) - (cursor - Start)
      BY DEF Left
    <3>5. Left' = FinalTurn(v) - ((cursor + 1) - Start)
      BY <1>6, <3>1 DEF Left
    <3> HIDE DEF v
    <3> QED
      BY <1>3, <3>3, <3>4, <3>5
  <2>3. status' = "reading"
    BY <1>1, <1>6
  <2> QED
    BY <1>6, <2>1, <2>2, <2>3 DEF SameValues, Errors
<1>7. CASE /\ cursor < Len(buf) /\ acc <= MaxU64 \div Base /\ Tag < Base
           /\ Accept(Taken, cursor + 1)
  <2>1. Taken \in 0..MaxU64
    BY <1>7, DigitHere
  <2>2. damage # "corrupted" => Taken = v
    BY <1>2, <1>7
  <2> QED
    BY <1>1, <1>7, <2>1, <2>2, ValuesAccepted
<1> QED
  BY <1>1, <1>4, <1>5, <1>6, <1>7 DEF VarIntOutcome

LEMMA ValuesNext ==
  ASSUME WireInv, [Next]_vars
  PROVE  SameValues'
<1>1. TypeOK /\ Unread /\ Arrives /\ SameBytes /\ SameValues
  BY DEF WireInv
<1>2. TypeOK'
  BY <1>1, TypeNext
<1>3. ASSUME NEW f \in Fields, Write(f)
      PROVE  SameValues'
  BY <1>1, <1>2, <1>3, BytesFresh DEF Write, Unread
<1>4. CASE DeliverWhole \/ Truncate \/ Corrupt
  <2>1. PICK bytes \in Bytes, how \in {"none", "truncated", "corrupted"} :
          Deliver(bytes, how)
    BY <1>1, <1>4, Delivered
  <2> QED
    BY <1>1, <1>2, <2>1, BytesFresh DEF Deliver, Unread
<1>5. CASE Finish
  <2>1. acc = 0
    BY <1>1, <1>5, Typed DEF Finish, SameBytes, Underway, Errors
  <2> QED
    BY <1>1, <1>5, <2>1 DEF Finish, SameValues, Errors
<1>6. CASE UNCHANGED vars
  BY <1>1, <1>6 DEF vars, SameValues, Left, Start, Before, Underway
<1> QED
  BY <1>1, <1>3, <1>4, <1>5, <1>6, ValuesSize, ValuesDigit DEF Next

LEMMA WireInvInit == Init => WireInv
BY TypeInit, ArrivesInit, BytesInit DEF WireInv

LEMMA WireInvNext == WireInv /\ [Next]_vars => WireInv'
BY TypeNext, ArrivesNext, BytesNext, ValuesNext DEF WireInv

LEMMA WireInvariant == Spec => []WireInv
BY WireInvInit, WireInvNext, PTL DEF Spec

-----------------------------------------------------------------------------
(* The buffer, the reader's cursor and its word stay in their ranges: no   *)
(* cursor leaves the buffer and no integer the u64 it is kept in, whatever *)
(* bytes arrive (wire.rs).                                                 *)
THEOREM WireTypeCorrect == Spec => []TypeOK
<1>1. WireInv => TypeOK
  BY DEF WireInv
<1> QED
  BY <1>1, WireInvariant, PTL

(* When every value written has been read, its bytes are those written.    *)
LEMMA AllBytes ==
  ASSUME TypeOK, Arrives, SameBytes, SameValues, damage # "corrupted", status = "done"
  PROVE  cursor = Len(FlattenSeq(Codes(written)))
<1>1. /\ Len(got) = Len(written) /\ cursor = Start + Len(Seen(acc)) /\ acc = 0
  BY Typed DEF SameBytes, Underway, Errors
<1>2. cursor = Start
  <2>1. Len(Seen(acc)) = 0
    BY <1>1, Typed, SeenTyped
  <2> QED
    BY <1>1, <2>1, StartTyped
<1>3. /\ CodesOf(written, got) \in Seq(Bytes) /\ Len(CodesOf(written, got)) = Len(got)
      /\ \A i \in 1..Len(got) :
           CodesOf(written, got)[i]
             = Encode([kind |-> written[i].kind, value |-> got[i]])
      /\ Codes(written) \in Seq(Bytes) /\ Len(Codes(written)) = Len(written)
      /\ \A i \in 1..Len(written) :
           Codes(written)[i] = Encode(written[i]) /\ written[i] \in Field
  BY Typed, CodesOfTyped, CodesTyped
<1>4. ASSUME NEW i \in 1..Len(CodesOf(written, got))
      PROVE  CodesOf(written, got)[i] = Codes(written)[i]
  <2>1. i \in 1..Len(got) /\ i \in 1..Len(written) /\ got[i] = written[i].value
    BY <1>1, <1>3 DEF SameValues
  <2> QED
    BY <1>3, <2>1, SameRecord
<1>5. CodesOf(written, got) = Codes(written)
  BY <1>1, <1>3, <1>4, SameSequence
<1> QED
  BY <1>2, <1>5 DEF Start, Before

(* No proper prefix of a buffer reads as all of its fields: had it, the    *)
(* bytes read would be all that was written (the end-of-buffer tests of    *)
(* Reader).                                                                *)
THEOREM TruncationIsNoticed == Spec => []TruncationNoticed
<1>1. WireInv => TruncationNoticed
  <2>1. ASSUME WireInv, damage = "truncated", status = "done"
        PROVE  FALSE
    <3>1. cursor = Len(FlattenSeq(Codes(written))) /\ cursor <= Len(buf)
      BY <2>1, AllBytes, Typed DEF WireInv
    <3>2. Len(buf) < Len(FlattenSeq(Codes(written)))
      BY <2>1 DEF WireInv, Arrives
    <3>3. cursor \in Nat /\ Len(buf) \in Nat
      BY <2>1, Typed DEF WireInv
    <3> QED
      BY <3>1, <3>2, <3>3
  <2> QED
    BY <2>1 DEF TruncationNoticed
<1> QED
  BY <1>1, WireInvariant, PTL

(* Whatever the bytes, a value is accepted only from the bytes its writer  *)
(* would have written for it (the canonicity and overflow tests of         *)
(* read_compact_size and read_varint_u64).                                 *)
THEOREM EncodingIsUnique == Spec => []NoOtherEncoding
<1>1. WireInv => NoOtherEncoding
  <2>1. ASSUME WireInv
        PROVE  /\ Before = SubSeq(buf, 1, Start)
               /\ acc = 0 => status \in Errors \/ cursor = Start
    <3>1. TypeOK /\ SameBytes
      BY <2>1 DEF WireInv
    <3>2. /\ Before \in Bytes /\ Start \in Nat /\ Start = Len(Before) /\ buf \in Bytes
          /\ Len(buf) \in Nat /\ cursor \in Nat /\ cursor <= Len(buf)
          /\ Start <= cursor /\ \A i \in 1..Start : buf[i] = Before[i]
      BY <3>1, StartTyped, Typed DEF Start, SameBytes
    <3>3. Before = SubSeq(buf, 1, Start)
      <4> DEFINE S == 0..Radix - 1
                 front == SubSeq(buf, 1, Start)
      <4>1. buf \in Seq(S) /\ Before \in Seq(S)
        BY <3>2 DEF Bytes
      <4>2. 1 \in Nat /\ 1 >= 1 /\ 1 <= Start + 1 /\ Start <= Len(buf)
        BY <3>2
      <4> HIDE DEF S
      <4>3. /\ front \in Seq(S) /\ Len(front) = Start + 1 - 1
            /\ \A i \in 1..Start + 1 - 1 : front[i] = buf[1 + i - 1]
        BY <3>2, <4>1, <4>2, Stretch
      <4> HIDE DEF front
      <4>4. Len(Before) = Len(front) /\ \A i \in 1..Len(Before) : Before[i] = front[i]
        BY <3>2, <4>3
      <4> QED
        BY <4>1, <4>3, <4>4, SameSequence DEF front
    <3>4. acc = 0 => status \in Errors \/ cursor = Start
      <4>1. ASSUME acc = 0, status \notin Errors
            PROVE  cursor = Start
        <5>1. cursor = Start + Len(Seen(acc)) /\ Len(Seen(acc)) = 0
          BY <3>1, <4>1, Typed, SeenTyped DEF SameBytes, Underway
        <5> QED
          BY <3>2, <5>1
      <4> QED
        BY <4>1
    <3> QED
      BY <3>3, <3>4
  <2> QED
    BY <2>1 DEF NoOtherEncoding, Before, Start, CodesOf
<1> QED
  BY <1>1, WireInvariant, PTL

(* An undamaged buffer reads back as what was written, in order and to the *)
(* last byte, but for a CompactSize above MAX_SIZE (the readers and        *)
(* writers of wire.rs).                                                    *)
THEOREM WhatIsWrittenIsRead == Spec => []ReadsBack
<1>1. WireInv => ReadsBack
  <2>1. ASSUME WireInv, damage = "none"
        PROVE  /\ got = SubSeq(Values(written), 1, Len(got))
               /\ status \in Errors =>
                    LET f == written[Len(got) + 1]
                    IN  /\ status = "CompactSizeTooLarge"
                        /\ f.kind = "compact" /\ f.value > MaxSize
               /\ status = "done" => cursor = Len(buf)
    <3>1. TypeOK /\ Arrives /\ SameBytes /\ SameValues
      BY <2>1 DEF WireInv
    <3>2. /\ written \in Seq(Fields) /\ got \in Seq(0..MaxU64) /\ Len(written) \in Nat
          /\ Len(got) \in Nat /\ Len(got) <= Len(written) /\ cursor \in Nat
          /\ \A i \in 1..Len(written) : written[i].value \in 0..MaxU64
      BY <3>1, Typed
    <3>3. \A i \in 1..Len(got) : got[i] = written[i].value
      BY <2>1, <3>1 DEF SameValues
    <3>4. got = SubSeq(Values(written), 1, Len(got))
      <4> DEFINE S == 0..MaxU64
                 all == Values(written)
                 front == SubSeq(all, 1, Len(got))
      <4>1. all = [i \in 1..Len(written) |-> written[i].value]
        BY <3>2, Elements DEF Values
      <4>2. all \in [1..Len(written) -> S]
        BY <3>2, <4>1
      <4>3. /\ all \in Seq(S) /\ Len(all) = Len(written) /\ got \in Seq(S)
            /\ \A i \in 1..Len(written) : all[i] = written[i].value
        BY <3>2, <4>1, <4>2, SequenceOfFunction
      <4>4. /\ 1 \in Nat /\ 1 >= 1 /\ 1 <= Len(got) + 1 /\ Len(got) \in Nat
            /\ Len(got) <= Len(all)
        BY <3>2, <4>3
      <4> HIDE DEF S, all
      <4>5. /\ front \in Seq(S) /\ Len(front) = Len(got) + 1 - 1
            /\ \A i \in 1..Len(got) + 1 - 1 : front[i] = all[1 + i - 1]
        BY <4>3, <4>4, Stretch
      <4> HIDE DEF front
      <4>6. Len(got) = Len(front) /\ \A i \in 1..Len(got) : got[i] = front[i]
        BY <3>2, <3>3, <4>3, <4>5
      <4>7. got = front
        BY <4>3, <4>5, <4>6, SameSequence
      <4> QED
        BY <4>7 DEF front, all
    <3>5. status \in Errors =>
            LET f == written[Len(got) + 1]
            IN  /\ status = "CompactSizeTooLarge"
                /\ f.kind = "compact" /\ f.value > MaxSize
      BY <2>1, <3>1 DEF SameValues
    <3>6. status = "done" => cursor = Len(buf)
      BY <2>1, <3>1, AllBytes DEF Arrives
    <3> QED
      BY <3>4, <3>5, <3>6
  <2> QED
    BY <2>1 DEF ReadsBack
<1> QED
  BY <1>1, WireInvariant, PTL
=============================================================================
