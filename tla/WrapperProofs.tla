--------------------------- MODULE WrapperProofs ---------------------------
(***************************************************************************)
(* The properties of Wrapper for every set of arguments, every key length  *)
(* and every u32.  What a call has normalised and read so far is a         *)
(* function of its place and its argument; the properties follow at the    *)
(* places where the call ends.                                             *)
(***************************************************************************)
EXTENDS Wrapper, TLAPS

Fields    == DOMAIN NoCore
KeyFields == {"outerVdxfKey", "systemId"}
Texts     == {"label", "mimeType"}
Index     == "dataDepositVoutIndex"

(* What encryptDescriptor puts into the request for a field.               *)
Normalized(i, f) ==
  CASE f = "plaintext"   -> PlaintextBytes(i.plaintext)
    [] f \in KeyFields   -> TwentyBytes(i[f])
    [] f = "signature"   -> IF Nullish(i[f]) THEN Null ELSE Uint8(i[f])
    [] f \in Texts       -> IF Nullish(i[f]) THEN Null ELSE i[f]
    [] OTHER             -> i[f]

(* A field it does not refuse.                                             *)
Passes(i, f) ==
  CASE f = "plaintext"   -> ~PlaintextRefusal(i.plaintext)[1]
    [] f \in KeyFields   -> ~TwentyByteRefusal(i[f], f)[1]
    [] f = "signature"   -> Nullish(i[f]) \/ IsBytes(i[f])
    [] OTHER             -> TRUE

(* What the core is asked to encrypt for it.                               *)
Asked(i, f) ==
  CASE f = "plaintext"             -> PlaintextBytes(i.plaintext).data
    [] f \in KeyFields             -> MeantKey(i[f])
    [] f \in Texts                 -> IF Nullish(i[f]) THEN None ELSE i[f].data.utf8
    [] f = Index     -> i[f].data \div 2
    [] OTHER                       -> IF Nullish(i[f]) THEN None ELSE i[f].data

(* A field that no layer before the core refuses.                          *)
Readable(i, f) ==
  \/ WellFormed(i, f) \/ f \in Overlooked(i)
  \/ f \in Texts /\ i[f].type = "string"

-----------------------------------------------------------------------------
(* The fields encryptDescriptor has normalised, and those the binding has  *)
(* read, when the call is at a place.                                      *)
DoneAt(place) ==
  CASE place = <<"wrapper", "plaintext">>     -> {}
    [] place = <<"wrapper", "outerVdxfKey">>  -> {"plaintext"}
    [] place = <<"wrapper", "systemId">>      -> {"plaintext", "outerVdxfKey"}
    [] place = <<"wrapper", "signature">>     -> {"plaintext"} \cup KeyFields
    [] place = <<"wrapper", "call">>          -> Fields \ (Texts \cup {Index})
    [] OTHER                                  -> Fields

Done == IF entry = "encryptDescriptor" THEN DoneAt(pc) ELSE {}

ReadAt(place) ==
  CASE place[1] = "wrapper" /\ place[2] # "copy"  -> {}
    [] place = <<"binding", "plaintext">>         -> {}
    [] place = <<"binding", "outerVdxfKey">>      -> {"plaintext"}
    [] place = <<"binding", "systemId">>          -> {"plaintext", "outerVdxfKey"}
    [] place = <<"binding", "label">>             -> {"plaintext"} \cup KeyFields
    [] place = <<"binding", "mimeType">>          -> Fields \ {"mimeType", Index, "signature"}
    [] place = <<"binding", Index>>               -> Fields \ {Index, "signature"}
    [] place = <<"binding", "signature">>         -> Fields \ {"signature"}
    [] OTHER                                      -> Fields

WrapperPlaces ==
  {"wrapper"} \X ({"plaintext", "signature", "call", "copy"} \cup KeyFields)

Places ==
  WrapperPlaces \cup ({"binding"} \X (Fields \cup {"build"})) \cup {<<"core", "run">>}

(* The state of a call between its first step and its last.                *)
CallInv ==
  /\ entry \in {"encryptDescriptor", "encryptPublicDecrypt"}
  /\ pc \in WrapperPlaces => entry = "encryptDescriptor"
  /\ input \in Inputs /\ input # None /\ outcome = None
  /\ DOMAIN request = Fields
  /\ \A f \in Fields :
       request[f] = IF f \in Done THEN Normalized(input, f) ELSE input[f]
  /\ \A f \in Done : Passes(input, f)
  /\ core = [f \in Fields |-> IF f \in ReadAt(pc) THEN Asked(input, f) ELSE None]
  /\ \A f \in ReadAt(pc) : Readable(input, f)

(* What the core returned, and the scripts the binding has copied.         *)
Answered ==
  /\ Faulty(input) \subseteq Overlooked(input)
  /\ result.cmm_entry =
       <<Asked(input, "outerVdxfKey"), [f \in Fields |-> Asked(input, f)]>>
  /\ result.data_deposit_output_scripts \in Seq(Nat)
  /\ \E n \in 0..Len(result.data_deposit_output_scripts) :
       scripts = [i \in 1..n |-> ToUint8Array(result.data_deposit_output_scripts[i])]

(* The object handed out when all are copied.                              *)
Handed == IF entry = "encryptDescriptor" THEN Copied(Built) ELSE Built

Refusal(refused) ==
  /\ DOMAIN refused = {"error", "field"} /\ refused.error \in Layers
  /\ \/ refused.error = "DiversifierSearchExhausted"
     \/ input = None
     \/ /\ ~(Faulty(input) \subseteq Overlooked(input))
        /\ \/ refused.field \in Faulty(input)
           \/ /\ refused = [error |-> "Wire", field |-> None]
              /\ Faulty(input) \subseteq Overlooked(input) \cup Texts
           \/ /\ refused = [error |-> "wrapper", field |-> None]
              /\ entry = "encryptDescriptor" /\ ThrownOn(input) # {}

WrapperInv ==
  \/ /\ pc = <<"caller", "idle">> /\ scripts = <<>>
     /\ entry = None /\ input = None /\ outcome = None /\ core = NoCore
  \/ /\ pc \in Places /\ CallInv
     /\ pc[2] \in {"build", "copy"} => Answered
     /\ pc[2] \notin {"build", "copy"} => scripts = <<>>
     /\ pc[2] = "copy" => AllPushed
  \/ /\ pc = <<"caller", "returned">>
     /\ entry \in {"encryptDescriptor", "encryptPublicDecrypt"}
     /\ input \in Inputs
     /\ \A f \in KeyFields : core[f] = None \/ Len(core[f]) = KeyBytes
     /\ core.dataDepositVoutIndex \in 0..U32Max \cup {None}
     /\ \/ Refusal(outcome) /\ scripts = <<>>
        \/ /\ input # None /\ Answered /\ AllPushed
           /\ outcome = [error |-> None, value |-> Handed]
-----------------------------------------------------------------------------
LEMMA FieldNames ==
  Fields = {"plaintext", "outerVdxfKey", "systemId", "label", "mimeType",
            "dataDepositVoutIndex", "signature"}
BY DEF Fields, NoCore

(* Which fields are faulty depends on the entry and the argument alone.    *)
LEMMA SameFaults ==
  ASSUME UNCHANGED <<entry, input>>
  PROVE  /\ Faulty(input)' = Faulty(input)
         /\ Overlooked(input)' = Overlooked(input)
         /\ \A f : Readable(input, f)' <=> Readable(input, f)
<1>1. AcceptsAlsoText' = AcceptsAlsoText
  BY DEF AcceptsAlsoText
<1>2. \A f : WellFormed(input, f)' <=> WellFormed(input, f)
  BY <1>1 DEF WellFormed
<1>3. Overlooked(input)' = Overlooked(input)
  BY <1>1 DEF Overlooked, PassesForPlain
<1> QED
  BY <1>2, <1>3 DEF Faulty, Readable

(* Reversing changes no length.                                            *)
LEMMA ReverseKey ==
  ASSUME NEW bytes, Len(bytes) = KeyBytes
  PROVE  /\ Len(Reverse(bytes)) = KeyBytes
         /\ Reverse(bytes) = [k \in 1..KeyBytes |-> bytes[KeyBytes + 1 - k]]
<1>1. KeyBytes \in Nat
  BY WrapperAssumption
<1>2. Reverse(bytes) = [k \in 1..KeyBytes |-> bytes[KeyBytes + 1 - k]]
  BY <1>1 DEF Reverse
<1>3. Len([k \in 1..KeyBytes |-> bytes[KeyBytes + 1 - k]]) = KeyBytes
  BY <1>1
<1> QED
  BY <1>2, <1>3

(* What encryptDescriptor lets through as a payload is one it documents or *)
(* passes for one, and what it refuses is neither.                         *)
LEMMA PlaintextPasses ==
  ASSUME NEW i \in Inputs, i # None, entry = "encryptDescriptor"
  PROVE  /\ Passes(i, "plaintext")
              <=> WellFormed(i, "plaintext") \/ "plaintext" \in Overlooked(i)
         /\ IsBytes(Normalized(i, "plaintext"))
         /\ ~Passes(i, "plaintext") =>
              \/ PlaintextRefusal(i.plaintext) = Names("plaintext")
              \/ /\ PlaintextRefusal(i.plaintext) = TypeError
                 /\ "plaintext" \in ThrownOn(i)
<1> DEFINE p == i.plaintext
<1>1. CASE IsBytes(p) \/ p.type = "string"
  <2>1. PlaintextRefusal(p) = Accepted
    BY <1>1 DEF PlaintextRefusal, IsBytes
  <2>2. IsBytes(Normalized(i, "plaintext"))
    BY <1>1 DEF Normalized, PlaintextBytes, IsBytes, Uint8, JS, KeyFields, Texts
  <2> QED
    BY <1>1, <2>1, <2>2 DEF Passes, Accepted, WellFormed, AcceptsAlsoText, KeyFields
<1>2. CASE ~(IsBytes(p) \/ p.type = "string")
  <2>1. IsBytes(Normalized(i, "plaintext"))
    BY <1>2 DEF Normalized, PlaintextBytes, IsBytes, JS, KeyFields, Texts
  <2>2. WellFormed(i, "plaintext") <=> IsPlainOrArray(p) /\ Stringifies(p)
    BY <1>2 DEF WellFormed, AcceptsAlsoText
  <2>3. "plaintext" \in Overlooked(i)
          <=> p.type = "object" /\ p.data.proto = "root" /\ Stringifies(p)
    BY DEF Overlooked, PassesForPlain, AcceptsAlsoText
  <2>4. WellFormed(i, "plaintext") \/ "plaintext" \in Overlooked(i)
          <=> p.type = "object" /\ PlainOrArray(p.data) /\ Stringifies(p)
    BY <2>2, <2>3 DEF IsPlainOrArray, PlainOrArray
  <2>5. CASE p.type = "object" /\ PlainOrArray(p.data) /\ p.data.toJSON # "own"
    <3>1. PlaintextRefusal(p) = IF JsonText(p.data) = None THEN TypeError ELSE Accepted
      BY <1>2, <2>5 DEF PlaintextRefusal
    <3>2. CASE JsonText(p.data) = None
      <4>1. PlaintextRefusal(p) = TypeError /\ ~Passes(i, "plaintext")
        BY <3>1, <3>2 DEF Passes, TypeError, KeyFields
      <4>2. "plaintext" \in ThrownOn(i)
        BY <2>5, <3>2 DEF ThrownOn
      <4> QED
        BY <2>1, <2>4, <3>2, <4>1, <4>2 DEF Stringifies
    <3>3. CASE JsonText(p.data) # None
      <4>1. Passes(i, "plaintext")
        BY <3>1, <3>3 DEF Passes, Accepted, KeyFields
      <4> QED
        BY <2>1, <2>4, <2>5, <3>3, <4>1 DEF Stringifies
    <3> QED
      BY <3>2, <3>3
  <2>6. CASE ~(p.type = "object" /\ PlainOrArray(p.data) /\ p.data.toJSON # "own")
    <3>1. PlaintextRefusal(p) = Names("plaintext")
      BY <1>2, <2>6 DEF PlaintextRefusal
    <3> QED
      BY <2>1, <2>4, <2>6, <3>1 DEF Passes, Names, KeyFields, Stringifies
  <2> QED
    BY <2>5, <2>6
<1> QED
  BY <1>1, <1>2

(* Likewise for a key: what is refused is no documented key.               *)
LEMMA KeyPasses ==
  ASSUME NEW i \in Inputs, i # None, NEW f \in KeyFields,
         entry = "encryptDescriptor", ~Passes(i, f)
  PROVE  /\ ~WellFormed(i, f)
         /\ \/ TwentyByteRefusal(i[f], f) = Names(f)
            \/ TwentyByteRefusal(i[f], f) = TypeError /\ Nullish(i[f])
<1> DEFINE v == i[f]
<1>1. TwentyByteRefusal(v, f)[1]
  BY DEF Passes, KeyFields
<1>2. WellFormed(i, f) <=> \/ IsBytes(v) /\ Len(v.data) = KeyBytes
                           \/ v.type = "string" /\ IsKeyHex(v.data)
  BY DEF WellFormed, AcceptsAlsoText, KeyFields
<1>3. CASE Nullish(v)
  BY <1>2, <1>3 DEF TwentyByteRefusal, Nullish, IsBytes
<1>4. CASE v.type = "string"
  <2>1. TwentyByteRefusal(v, f) = IF IsKeyHex(v.data) THEN Accepted ELSE Names(f)
    BY <1>4 DEF TwentyByteRefusal, Nullish
  <2>2. ~IsKeyHex(v.data)
    BY <1>1, <2>1 DEF Accepted
  <2> QED
    BY <1>2, <1>4, <2>1, <2>2 DEF IsBytes
<1>5. CASE v.type = "number"
  BY <1>2, <1>5 DEF TwentyByteRefusal, Nullish, IsBytes
<1>6. CASE ~Nullish(v) /\ v.type # "string" /\ v.type # "number"
  <2>1. TwentyByteRefusal(v, f) =
          IF Len(v.data) = KeyBytes THEN Accepted ELSE Names(f)
    BY <1>6 DEF TwentyByteRefusal
  <2>2. Len(v.data) # KeyBytes
    BY <1>1, <2>1 DEF Accepted
  <2> QED
    BY <1>2, <1>6, <2>1, <2>2
<1> QED
  BY <1>3, <1>4, <1>5, <1>6

(* The binding takes a key from the request exactly where the caller gave  *)
(* one, and takes its bytes in wire order.                                 *)
LEMMA KeyReads ==
  ASSUME NEW i \in Inputs, i # None, NEW f \in KeyFields, NEW r,
         \/ entry = "encryptDescriptor" /\ Passes(i, f) /\ r = Normalized(i, f)
         \/ entry # "encryptDescriptor" /\ r = i[f]
  PROVE  /\ Is20b(r) <=> WellFormed(i, f)
         /\ Is20b(r) => r.data = Asked(i, f) /\ Len(Asked(i, f)) = KeyBytes
<1> DEFINE v == i[f]
<1>1. Asked(i, f) = MeantKey(v)
  BY DEF Asked, KeyFields, Texts, Index
<1>2. WellFormed(i, f) <=>
        \/ IsBytes(v) /\ Len(v.data) = KeyBytes
        \/ entry = "encryptDescriptor" /\ v.type = "string" /\ IsKeyHex(v.data)
  BY DEF WellFormed, AcceptsAlsoText, KeyFields
<1>3. CASE entry = "encryptDescriptor" /\ v.type = "string"
  <2>1. r = JS("Uint8Array", Reverse(v.data.bytes))
    BY <1>3 DEF Normalized, TwentyBytes, KeyFields, Texts
  <2>2. TwentyByteRefusal(v, f) = IF IsKeyHex(v.data) THEN Accepted ELSE Names(f)
    BY <1>3 DEF TwentyByteRefusal, Nullish
  <2>3. IsKeyHex(v.data)
    BY <1>3, <2>2 DEF Passes, Names, KeyFields
  <2>4. /\ Len(Reverse(v.data.bytes)) = KeyBytes
        /\ Reverse(v.data.bytes) = MeantKey(v)
    BY <1>3, <2>3, ReverseKey DEF IsKeyHex, MeantKey
  <2> QED
    BY <1>1, <1>2, <1>3, <2>1, <2>3, <2>4 DEF Is20b, IsBytes, JS
<1>4. CASE ~(entry = "encryptDescriptor" /\ v.type = "string")
  <2>1. (IsBytes(r) <=> IsBytes(v)) /\ r.data = v.data
    BY <1>4 DEF Normalized, TwentyBytes, Uint8, IsBytes, JS, KeyFields,
                   Texts
  <2>2. IsBytes(v) => MeantKey(v) = v.data
    BY DEF MeantKey, IsBytes
  <2> QED
    BY <1>1, <1>2, <1>4, <2>1, <2>2 DEF Is20b
<1> QED
  BY <1>3, <1>4

(* The other fields, likewise.                                             *)
LEMMA PlaintextReads ==
  ASSUME NEW i \in Inputs, i # None, NEW r,
         \/ /\ entry = "encryptDescriptor" /\ Passes(i, "plaintext")
            /\ r = Normalized(i, "plaintext")
         \/ entry # "encryptDescriptor" /\ r = i.plaintext
  PROVE  /\ IsBytes(r) <=> Readable(i, "plaintext")
         /\ IsBytes(r) => r.data = Asked(i, "plaintext")
<1>1. Asked(i, "plaintext") = PlaintextBytes(i.plaintext).data
  BY DEF Asked, KeyFields, Texts, Index
<1>2. Readable(i, "plaintext")
        <=> WellFormed(i, "plaintext") \/ "plaintext" \in Overlooked(i)
  BY DEF Readable, Texts
<1>3. CASE entry = "encryptDescriptor"
  <2>1. r = PlaintextBytes(i.plaintext) /\ r = Normalized(i, "plaintext")
    BY <1>3 DEF Normalized, KeyFields, Texts
  <2> QED
    BY <1>1, <1>2, <1>3, <2>1, PlaintextPasses
<1>4. CASE entry # "encryptDescriptor"
  <2>1. Readable(i, "plaintext") <=> IsBytes(i.plaintext)
    BY <1>2, <1>4 DEF WellFormed, Overlooked, PassesForPlain, AcceptsAlsoText
  <2>2. IsBytes(i.plaintext) => PlaintextBytes(i.plaintext).data = i.plaintext.data
    BY DEF PlaintextBytes, IsBytes, Uint8, JS
  <2> QED
    BY <1>1, <1>4, <2>1, <2>2
<1> QED
  BY <1>3, <1>4

LEMMA TextReads ==
  ASSUME NEW i \in Inputs, i # None, NEW f \in Texts, NEW r,
         r \in {i[f], Normalized(i, f)}
  PROVE  /\ Nullish(r) \/ r.type = "string" <=> Readable(i, f)
         /\ Nullish(r) \/ r.type = "string" =>
              (IF Nullish(r) THEN None ELSE r.data.utf8) = Asked(i, f)
<1>1. Normalized(i, f) = IF Nullish(i[f]) THEN Null ELSE i[f]
  BY DEF Normalized, KeyFields, Texts
<1>2. Asked(i, f) = IF Nullish(i[f]) THEN None ELSE i[f].data.utf8
  BY DEF Asked, KeyFields, Texts, Index
<1>3. Nullish(Null)
  BY DEF Nullish, Null, JS
<1>4. Readable(i, f) <=> Nullish(i[f]) \/ i[f].type = "string"
  BY DEF Readable, WellFormed, Overlooked, Texts
<1> QED
  BY <1>1, <1>2, <1>3, <1>4

LEMMA IndexReads ==
  ASSUME NEW i \in Inputs, i # None, NEW r, r \in {i[Index], Normalized(i, Index)}
  PROVE  /\ r.type = "number" /\ FitsU32(r.data) <=> WellFormed(i, Index)
         /\ r.type = "number" /\ FitsU32(r.data) =>
              AsU32(r.data) = Asked(i, Index) /\ Asked(i, Index) \in 0..U32Max
<1>1. r = i[Index]
  BY DEF Normalized, KeyFields, Texts, Index
<1>2. i[Index].type = "number" => i[Index].data \in Int \cup {None}
  BY InputsAssumption DEF Index
<1>3. WellFormed(i, Index) <=>
        i[Index].type = "number" /\ i[Index].data \in {2 * n : n \in 0..U32Max}
  BY DEF WellFormed, Index
<1>4. Asked(i, Index) = i[Index].data \div 2
  BY DEF Asked, KeyFields, Texts, Index
<1>5. ASSUME NEW t \in Int \cup {None}
      PROVE  /\ FitsU32(t) <=> t \in {2 * n : n \in 0..U32Max}
             /\ FitsU32(t) => AsU32(t) = t \div 2 /\ t \div 2 \in 0..U32Max
  <2>1. CASE t = None
    BY <2>1, WrapperAssumption DEF FitsU32
  <2>2. CASE t \in Int
    <3>1. t # None
      BY <2>2, WrapperAssumption
    <3>2. FitsU32(t) => t = 2 * (t \div 2) /\ t \div 2 \in 0..U32Max
      BY <2>2, WrapperAssumption DEF FitsU32
    <3>3. t \in {2 * n : n \in 0..U32Max} => FitsU32(t)
      BY <2>2, <3>1, WrapperAssumption DEF FitsU32
    <3>4. FitsU32(t) => AsU32(t) = t \div 2
      BY <2>2, WrapperAssumption DEF FitsU32, AsU32
    <3> QED
      BY <3>2, <3>3, <3>4
  <2> QED
    BY <2>1, <2>2
<1> QED
  BY <1>1, <1>2, <1>3, <1>4, <1>5

LEMMA SignatureReads ==
  ASSUME NEW i \in Inputs, i # None, NEW r,
         r \in {i.signature, Normalized(i, "signature")}
  PROVE  /\ Nullish(r) \/ IsBytes(r) <=> WellFormed(i, "signature")
         /\ Nullish(r) \/ IsBytes(r) =>
              (IF Nullish(r) THEN None ELSE r.data) = Asked(i, "signature")
<1> DEFINE s == i.signature
<1>1. Normalized(i, "signature") = IF Nullish(s) THEN Null ELSE Uint8(s)
  BY DEF Normalized, KeyFields, Texts
<1>2. Asked(i, "signature") = IF Nullish(s) THEN None ELSE s.data
  BY DEF Asked, KeyFields, Texts, Index
<1>3. Nullish(Null)
  BY DEF Nullish, Null, JS
<1>4. /\ IsBytes(Uint8(s)) <=> IsBytes(s)
      /\ Nullish(Uint8(s)) <=> Nullish(s)
      /\ Uint8(s).data = s.data
  BY DEF Uint8, IsBytes, Nullish, JS
<1>5. WellFormed(i, "signature") <=> Nullish(s) \/ IsBytes(s)
  BY DEF WellFormed
<1> QED
  BY <1>1, <1>2, <1>3, <1>4, <1>5

-----------------------------------------------------------------------------
LEMMA InsideACall ==
  ASSUME WrapperInv, NEW layer, NEW step, pc = <<layer, step>>, layer # "caller"
  PROVE  /\ CallInv /\ pc \in Places
         /\ step \in {"build", "copy"} => Answered
         /\ step \notin {"build", "copy"} => scripts = <<>>
         /\ step = "copy" => AllPushed
BY DEF WrapperInv

(* The keys and the index of the core are in their types.                  *)
LEMMA CoreTyped ==
  ASSUME CallInv
  PROVE  /\ \A f \in KeyFields : core[f] = None \/ Len(core[f]) = KeyBytes
         /\ core.dataDepositVoutIndex \in 0..U32Max \cup {None}
<1>1. ASSUME NEW f \in KeyFields PROVE core[f] = None \/ Len(core[f]) = KeyBytes
  <2>1. f \in Fields
    BY FieldNames DEF KeyFields
  <2>2. CASE f \in ReadAt(pc)
    <3>1. WellFormed(input, f) /\ core[f] = Asked(input, f)
      BY <2>1, <2>2 DEF CallInv, Readable, Overlooked, Texts, KeyFields
    <3>2. CASE input[f].type = "string"
      <4>1. IsKeyHex(input[f].data)
        BY <3>1, <3>2 DEF WellFormed, KeyFields, IsBytes
      <4> QED
        BY <3>1, <3>2, <4>1, ReverseKey DEF Asked, MeantKey, IsKeyHex, KeyFields, Texts, Index
    <3>3. CASE input[f].type # "string"
      BY <3>1, <3>3 DEF WellFormed, Asked, MeantKey, KeyFields, Texts, Index
    <3> QED
      BY <3>2, <3>3
  <2> QED
    BY <2>1, <2>2 DEF CallInv
<1>2. core.dataDepositVoutIndex \in 0..U32Max \cup {None}
  <2>1. Index \in Fields /\ core.dataDepositVoutIndex = core[Index]
    BY FieldNames DEF Index
  <2>2. CASE Index \in ReadAt(pc)
    <3>1. WellFormed(input, Index)
      BY <2>2 DEF CallInv, Readable, Overlooked, Texts, Index
    <3>2. Asked(input, Index) \in 0..U32Max
      BY <3>1, IndexReads DEF CallInv
    <3> QED
      BY <2>1, <2>2, <3>2 DEF CallInv
  <2> QED
    BY <2>1, <2>2 DEF CallInv
<1> QED
  BY <1>1, <1>2

(* What the invariant says once a call has ended, without a result ...     *)
LEMMA Refused ==
  ASSUME CallInv, UNCHANGED <<entry, input, core>>, scripts' = <<>>,
         pc' = <<"caller", "returned">>, Refusal(outcome')
  PROVE  WrapperInv'
<1>1. Refusal(outcome)'
  BY SameFaults DEF Refusal
<1> QED
  BY <1>1, CoreTyped DEF WrapperInv, CallInv

(* ... and with one.                                                       *)
LEMMA Answers ==
  ASSUME Answered, UNCHANGED <<entry, input, answer>>
  PROVE  Answered'
<1>1. UNCHANGED <<input, result, scripts>>
  BY DEF answer
<1>2. \A f : Asked(input, f)' = Asked(input, f)
  BY <1>1
<1> QED
  BY <1>1, <1>2, SameFaults DEF Answered

LEMMA HandedOut ==
  ASSUME CallInv, Answered, AllPushed, UNCHANGED <<entry, input, core, answer>>,
         pc' = <<"caller", "returned">>,
         outcome' = [error |-> None, value |-> Handed]
  PROVE  WrapperInv'
<1>1. UNCHANGED <<entry, result, scripts>>
  BY DEF answer
<1>2. AllPushed' /\ Handed' = Handed
  BY <1>1 DEF AllPushed, Handed, Copied, Built
<1> QED
  BY <1>2, CoreTyped, Answers DEF WrapperInv, CallInv

(* One field of encryptDescriptor.                                         *)
LEMMA NormalizeStep ==
  ASSUME WrapperInv, NEW f, NEW refusal, NEW value, NEW next,
         f \in {"plaintext", "signature"} \cup KeyFields,
         Normalize(f, refusal, value, next),
         next \in WrapperPlaces, next[2] # "copy",
         DoneAt(next) = DoneAt(<<"wrapper", f>>) \cup {f},
         value = Normalized(input, f),
         refusal[1] \/ Passes(input, f),
         refusal[1] =>
           /\ f \in Faulty(input) \ Overlooked(input)
           /\ \/ refusal[2] = f
              \/ refusal[2] = None /\ f \in ThrownOn(input)
  PROVE  WrapperInv'
<1>1. CallInv /\ pc \in Places /\ pc = <<"wrapper", f>>
  BY InsideACall DEF Normalize
<1>2. entry = "encryptDescriptor" /\ f \in Fields /\ f \notin {"copy", "call", "build"}
  BY <1>1, FieldNames DEF CallInv, WrapperPlaces, KeyFields
<1>3. scripts = <<>> /\ scripts' = scripts
  BY <1>1, <1>2, InsideACall DEF Normalize, answer
<1>4. CASE refusal[1]
  <2>1. /\ pc' = <<"caller", "returned">> /\ UNCHANGED <<entry, input, core>>
        /\ outcome' = [error |-> "wrapper", field |-> refusal[2]]
    BY <1>4 DEF Normalize, Throw
  <2>2. Refusal(outcome')
    BY <1>2, <1>4, <2>1 DEF Refusal, Layers
  <2> QED
    BY <1>1, <1>3, <2>1, <2>2, Refused
<1>5. CASE ~refusal[1]
  <2>1. /\ request' = [request EXCEPT ![f] = value] /\ pc' = next
        /\ UNCHANGED <<entry, input, core, outcome>>
    BY <1>5 DEF Normalize
  <2>2. next \in Places /\ next[1] = "wrapper" /\ next[2] \notin {"build", "copy"}
    BY FieldNames DEF Places, WrapperPlaces, KeyFields
  <2>3. ReadAt(next) = {} /\ ReadAt(pc) = {}
    BY <1>1, <1>2, <2>2 DEF ReadAt
  <2>4. Done = DoneAt(pc) /\ Done' = DoneAt(next) /\ Done' = Done \cup {f}
    BY <1>1, <1>2, <2>1 DEF Done
  <2>5. /\ DOMAIN request' = Fields
        /\ \A g \in Fields : request'[g] = IF g \in Done'
                             THEN Normalized(input, g) ELSE input[g]
    BY <1>1, <1>2, <2>1, <2>4 DEF CallInv
  <2>6. \A g \in Done' : Passes(input, g)
    BY <1>1, <1>5, <2>4 DEF CallInv
  <2>7. core = [g \in Fields |-> IF g \in ReadAt(next) THEN Asked(input, g) ELSE None]
    BY <1>1, <2>3 DEF CallInv
  <2>8. CallInv'
    BY <1>1, <1>2, <2>1, <2>3, <2>5, <2>6, <2>7 DEF CallInv
  <2> QED
    BY <1>3, <2>1, <2>2, <2>8 DEF WrapperInv
<1> QED
  BY <1>4, <1>5

(* One field of the binding.                                               *)
LEMMA ReadStep ==
  ASSUME WrapperInv, NEW f \in Fields, NEW accepted, NEW value, NEW next,
         Read(f, accepted, value, next),
         next \in Places, next[1] # "wrapper", next[2] \notin {"build", "copy"},
         ReadAt(next) = ReadAt(<<"binding", f>>) \cup {f},
         accepted <=> Readable(input, f),
         accepted => value = Asked(input, f)
  PROVE  WrapperInv'
<1>1. CallInv /\ pc = <<"binding", f>>
  BY InsideACall DEF Read
<1>2. scripts = <<>> /\ scripts' = scripts
  BY <1>1, InsideACall, FieldNames DEF Read, answer
<1>3. CASE ~accepted
  <2>1. /\ pc' = <<"caller", "returned">> /\ UNCHANGED <<entry, input, core>>
        /\ outcome' = [error |-> "binding", field |-> f]
    BY <1>3 DEF Read, Throw
  <2>2. f \in Faulty(input) \ Overlooked(input)
    BY <1>1, <1>3, InputsAssumption DEF Faulty, Readable, CallInv, Fields
  <2>3. Refusal(outcome')
    BY <2>1, <2>2 DEF Refusal, Layers
  <2> QED
    BY <1>1, <1>2, <2>1, <2>3, Refused
<1>4. CASE accepted
  <2>1. /\ core' = [core EXCEPT ![f] = value] /\ pc' = next
        /\ UNCHANGED <<entry, input, request, outcome>>
    BY <1>4 DEF Read
  <2>2. next \notin WrapperPlaces
    BY DEF WrapperPlaces
  <2>3. DoneAt(pc) = Fields /\ DoneAt(next) = Fields
    BY <1>1 DEF DoneAt
  <2>4. Done' = Done
    BY <2>1, <2>3 DEF Done
  <2>5. core' = [g \in Fields |-> IF g \in ReadAt(next) THEN Asked(input, g) ELSE None]
    BY <1>1, <1>4, <2>1 DEF CallInv
  <2>6. \A g \in ReadAt(next) : Readable(input, g)
    BY <1>1, <1>4 DEF CallInv
  <2>7. \A g \in ReadAt(next) : Readable(input, g)'
    BY <2>1, <2>6, SameFaults
  <2>8. CallInv'
    BY <1>1, <2>1, <2>2, <2>4, <2>5, <2>7 DEF CallInv
  <2> QED
    BY <1>2, <2>1, <2>8 DEF WrapperInv
<1> QED
  BY <1>3, <1>4

(* What the binding finds in the request.                                  *)
LEMMA RequestAtBinding ==
  ASSUME CallInv, NEW f \in Fields, pc[1] = "binding"
  PROVE  /\ input \in Inputs /\ input # None
         /\ \/ /\ entry = "encryptDescriptor" /\ Passes(input, f)
               /\ request[f] = Normalized(input, f)
            \/ entry # "encryptDescriptor" /\ request[f] = input[f]
<1>1. DoneAt(pc) = Fields
  BY DEF DoneAt
<1> QED
  BY <1>1 DEF CallInv, Done

LEMMA CallStep ==
  ASSUME WrapperInv, NEW a \in Inputs, CallWrapper(a) \/ CallBinding(a)
  PROVE  WrapperInv'
<1>1. /\ pc = <<"caller", "idle">> /\ input' = a /\ request' = a /\ core' = core
      /\ scripts' = scripts
  BY DEF CallWrapper, CallBinding, Calling, answer
<1>2. outcome = None /\ core = NoCore /\ scripts = <<>>
  BY <1>1 DEF WrapperInv, Places, WrapperPlaces
<1>3. CASE a = None
  <2>1. /\ pc' = <<"caller", "returned">>
        /\ entry' \in {"encryptDescriptor", "encryptPublicDecrypt"}
        /\ \/ outcome' = [error |-> "wrapper", field |-> None]
           \/ outcome' = [error |-> "binding", field |-> "plaintext"]
    BY <1>3 DEF CallWrapper, CallBinding, Calling, Throw
  <2>2. Refusal(outcome)'
    BY <1>1, <1>3, <2>1 DEF Refusal, Layers
  <2>3. /\ \A f \in KeyFields : core'[f] = None
        /\ core'.dataDepositVoutIndex = None
    BY <1>1, <1>2 DEF NoCore, KeyFields
  <2> QED
    BY <1>1, <1>2, <2>1, <2>2, <2>3 DEF WrapperInv
<1>4. CASE a # None
  <2>1. /\ outcome' = outcome
        /\ \/ entry' = "encryptDescriptor" /\ pc' = <<"wrapper", "plaintext">>
           \/ entry' = "encryptPublicDecrypt" /\ pc' = <<"binding", "plaintext">>
    BY <1>4 DEF CallWrapper, CallBinding, Calling, Throw
  <2>2. /\ ReadAt(<<"wrapper", "plaintext">>) = {}
        /\ ReadAt(<<"binding", "plaintext">>) = {}
    BY DEF ReadAt, Index
  <2>3. DoneAt(<<"wrapper", "plaintext">>) = {}
    BY DEF DoneAt
  <2>4. ReadAt(pc') = {} /\ Done' = {}
    BY <2>1, <2>2, <2>3 DEF Done
  <2>5. core' = [f \in Fields |-> None]
    BY <1>1, <1>2 DEF NoCore, Fields
  <2>6. DOMAIN request' = Fields /\ request' = input'
    BY <1>1, <1>4, InputsAssumption DEF Fields
  <2>7. /\ pc' \in Places
        /\ pc' \in WrapperPlaces => entry' = "encryptDescriptor"
        /\ pc'[2] \notin {"build", "copy"}
    BY <2>1, FieldNames DEF Places, WrapperPlaces
  <2>8. CallInv'
    BY <1>1, <1>2, <1>4, <2>1, <2>4, <2>5, <2>6, <2>7 DEF CallInv
  <2> QED
    BY <1>1, <1>2, <2>7, <2>8 DEF WrapperInv
<1> QED
  BY <1>3, <1>4

LEMMA CrossStep ==
  ASSUME WrapperInv, CrossBoundary
  PROVE  WrapperInv'
<1>1. CallInv /\ pc = <<"wrapper", "call">> /\ scripts = <<>>
  BY InsideACall DEF CrossBoundary
<1>2. entry = "encryptDescriptor"
  BY <1>1 DEF CallInv, WrapperPlaces
<1>3. /\ pc' = <<"binding", "plaintext">>
      /\ UNCHANGED <<entry, input, core, scripts, outcome>>
  BY DEF CrossBoundary, answer
<1>4. /\ DoneAt(pc) = Fields \ (Texts \cup {Index}) /\ DoneAt(pc') = Fields
      /\ ReadAt(pc) = {} /\ ReadAt(pc') = {}
  BY <1>1, <1>3 DEF DoneAt, ReadAt, Index
<1>5. Done = DoneAt(pc) /\ Done' = DoneAt(pc')
  BY <1>2, <1>3 DEF Done
<1>6. DOMAIN request' = Fields /\ \A f \in Fields \ Texts : request'[f] = request[f]
  BY <1>1 DEF CrossBoundary, CallInv, Texts
<1>7. \A f \in Texts :
        /\ f \in Fields /\ request[f] = input[f]
        /\ request'[f] = IF Nullish(request[f]) THEN Null ELSE request[f]
  BY <1>1, <1>4, <1>5, FieldNames DEF CrossBoundary, CallInv, Texts
<1>8. \A f \in Fields : request'[f] = Normalized(input, f)
  <2>1. \A f \in Texts : request'[f] = Normalized(input, f)
    BY <1>7 DEF Normalized, Texts, KeyFields
  <2>2. request[Index] = Normalized(input, Index)
    BY <1>1, <1>4, <1>5, FieldNames DEF CallInv, Normalized, Texts, KeyFields, Index
  <2>3. \A f \in Fields \ (Texts \cup {Index}) : request[f] = Normalized(input, f)
    BY <1>1, <1>4, <1>5 DEF CallInv
  <2> QED
    BY <1>6, <2>1, <2>2, <2>3
<1>9. \A f \in Fields : Passes(input, f)
  <2>1. \A f \in Texts \cup {Index} : Passes(input, f)
    BY DEF Passes, Texts, Index, KeyFields
  <2> QED
    BY <1>1, <1>4, <1>5, <2>1 DEF CallInv
<1>10. pc' \in Places /\ pc' \notin WrapperPlaces /\ pc'[2] \notin {"build", "copy"}
  BY <1>3, FieldNames DEF Places, WrapperPlaces
<1>11. CallInv'
  BY <1>1, <1>2, <1>3, <1>4, <1>5, <1>6, <1>8, <1>9, <1>10 DEF CallInv
<1> QED
  BY <1>1, <1>3, <1>10, <1>11 DEF WrapperInv

LEMMA CoreStep ==
  ASSUME WrapperInv, RunCore
  PROVE  WrapperInv'
<1>1. CallInv /\ pc = <<"core", "run">> /\ scripts = <<>>
  BY InsideACall DEF RunCore
<1>2. UNCHANGED <<entry, input, request, core, scripts>>
  BY DEF RunCore
<1>3. ReadAt(pc) = Fields /\ ReadAt(<<"binding", "build">>) = Fields
  BY <1>1 DEF ReadAt, Index
<1>4. /\ core = [f \in Fields |-> Asked(input, f)]
      /\ \A f \in Fields : Readable(input, f)
  BY <1>1, <1>3 DEF CallInv
<1>5. /\ Faulty(input) \subseteq Overlooked(input) \cup Texts
      /\ Overlooked(input) \cap Texts = {}
  BY <1>1, <1>4, InputsAssumption
     DEF Faulty, Readable, Overlooked, CallInv, Fields, Texts
<1>6. Oversized <=> ~(Faulty(input) \subseteq Overlooked(input))
  <2>1. ASSUME NEW f \in Texts, NEW cap, cap = IF f = "label" THEN LabelCap ELSE MimeCap
        PROVE  TooLong(core[f], cap) <=> f \in Faulty(input)
    <3>1. f \in Fields /\ f \in DOMAIN input
      BY <1>1, FieldNames, InputsAssumption DEF CallInv, Texts, Fields
    <3>2. WellFormed(input, f) <=>
            \/ Nullish(input[f])
            \/ input[f].type = "string" /\ input[f].data.utf8.len <= cap
      BY <2>1 DEF WellFormed, Texts
    <3>3. core[f] = IF Nullish(input[f]) THEN None ELSE input[f].data.utf8
      BY <1>4, <3>1 DEF Asked, Texts, KeyFields, Index
    <3>4. Nullish(input[f]) \/ input[f].type = "string"
      BY <1>4, <3>1, <3>2 DEF Readable, Overlooked, Texts
    <3>5. CASE Nullish(input[f])
      BY <3>1, <3>2, <3>3, <3>5 DEF TooLong, Faulty
    <3>6. CASE ~Nullish(input[f])
      <4>1. input[f].data.utf8 # None /\ input[f].data.utf8.len \in Nat
        BY <1>1, <3>4, <3>6, InputsAssumption DEF CallInv, Texts
      <4>2. cap \in Nat
        BY <2>1 DEF LabelCap, MimeCap
      <4> QED
        BY <3>1, <3>2, <3>3, <3>4, <3>6, <4>1, <4>2 DEF TooLong, Faulty
    <3> QED
      BY <3>5, <3>6
  <2>2. TooLong(core.label, LabelCap) <=> "label" \in Faulty(input)
    BY <2>1 DEF Texts
  <2>3. TooLong(core.mimeType, MimeCap) <=> "mimeType" \in Faulty(input)
    BY <2>1 DEF Texts
  <2> QED
    BY <1>5, <2>2, <2>3 DEF Oversized, Texts
<1>7. CASE Throw("DiversifierSearchExhausted", None)
  <2>1. Refusal(outcome') /\ pc' = <<"caller", "returned">>
    BY <1>7 DEF Throw, Refusal, Layers
  <2> QED
    BY <1>1, <1>2, <2>1, Refused
<1>8. CASE Oversized /\ Throw("Wire", None)
  <2>1. Refusal(outcome') /\ pc' = <<"caller", "returned">>
    BY <1>5, <1>6, <1>8 DEF Throw, Refusal, Layers
  <2> QED
    BY <1>1, <1>2, <2>1, Refused
<1>9. CASE ~Oversized /\ pc' = <<"binding", "build">> /\ UNCHANGED outcome
  <2>1. PICK n \in 1..MaxScripts : result' = EncryptResult(n)
    BY <1>9 DEF RunCore, Throw
  <2>2. core.outerVdxfKey = Asked(input, "outerVdxfKey")
    BY <1>4, FieldNames
  <2>3. /\ result'.cmm_entry =
             <<Asked(input, "outerVdxfKey"), [f \in Fields |-> Asked(input, f)]>>
        /\ result'.data_deposit_output_scripts = [i \in 1..n |-> i]
    BY <1>4, <2>1, <2>2 DEF EncryptResult
  <2>4. result'.data_deposit_output_scripts \in Seq(Nat)
    BY <2>3, WrapperAssumption
  <2>5. scripts' = [i \in 1..0 |-> ToUint8Array(result'.data_deposit_output_scripts[i])]
    BY <1>1, <1>2
  <2>6. Answered'
    <3>1. 0 \in 0..Len(result'.data_deposit_output_scripts)
      BY <2>4
    <3>2. (Faulty(input) \subseteq Overlooked(input))'
      BY <1>2, <1>6, <1>9, SameFaults
    <3> QED
      BY <1>2, <2>3, <2>4, <2>5, <3>1, <3>2 DEF Answered
  <2>7. DoneAt(pc) = Fields /\ DoneAt(pc') = Fields
    BY <1>1, <1>9 DEF DoneAt
  <2>8. Done' = Done /\ ReadAt(pc') = ReadAt(pc)
    BY <1>2, <1>1, <1>3, <1>9, <2>7 DEF Done
  <2>9. pc' \in Places /\ pc' \notin WrapperPlaces
    BY <1>9 DEF Places, WrapperPlaces
  <2>10. \A f \in Fields : Readable(input, f)'
    BY <1>2, <1>4, SameFaults
  <2>11. CallInv'
    BY <1>1, <1>2, <1>3, <1>9, <2>8, <2>9, <2>10 DEF CallInv
  <2> QED
    BY <1>9, <2>6, <2>9, <2>11 DEF WrapperInv
<1> QED
  BY <1>7, <1>8, <1>9 DEF RunCore

(* One turn of the binding's loop over the scripts.                        *)
LEMMA PushStep ==
  ASSUME WrapperInv, PushScript
  PROVE  WrapperInv'
<1> DEFINE placed == result.data_deposit_output_scripts
<1>1. CallInv /\ Answered /\ pc \in Places /\ pc = <<"binding", "build">>
  BY InsideACall DEF PushScript
<1>2. UNCHANGED <<pc, entry, input, request, core, result, outcome>>
  BY DEF PushScript
<1>3. PICK n \in 0..Len(placed) : scripts = [i \in 1..n |-> ToUint8Array(placed[i])]
  BY <1>1 DEF Answered
<1>4. placed \in Seq(Nat) /\ Len(placed) \in Nat
  BY <1>1 DEF Answered
<1>5. Len(scripts) = n
  BY <1>3, <1>4
<1>6. n + 1 \in 0..Len(placed)
  BY <1>4, <1>5 DEF PushScript, AllPushed
<1>7. scripts' = [i \in 1..n + 1 |-> ToUint8Array(placed[i])]
  <2>1. scripts' = Append(scripts, ToUint8Array(placed[n + 1]))
    BY <1>5 DEF PushScript
  <2> QED
    BY <1>3, <1>4, <1>5, <2>1
<1>8. Answered'
  <2>1. (Faulty(input) \subseteq Overlooked(input))'
    BY <1>1, <1>2, SameFaults DEF Answered
  <2> QED
    BY <1>1, <1>2, <1>6, <1>7, <2>1 DEF Answered
<1>9. CallInv'
  <2>1. Done' = Done
    BY <1>2 DEF Done
  <2> QED
    BY <1>1, <1>2, <2>1, SameFaults DEF CallInv
<1> QED
  BY <1>1, <1>2, <1>8, <1>9 DEF WrapperInv

LEMMA ResultSteps ==
  ASSUME WrapperInv, BuildResult \/ CopyResult
  PROVE  WrapperInv'
<1>1. CallInv /\ Answered /\ AllPushed
  BY InsideACall DEF BuildResult, CopyResult
<1>2. CASE /\ pc = <<"binding", "build">> /\ pc' = <<"wrapper", "copy">>
           /\ entry = "encryptDescriptor"
           /\ UNCHANGED <<entry, input, request, core, answer, outcome>>
  <2>1. ReadAt(pc) = Fields /\ ReadAt(pc') = Fields
    BY <1>2 DEF ReadAt, Index
  <2>2. DoneAt(pc) = Fields /\ DoneAt(pc') = Fields
    BY <1>2 DEF DoneAt
  <2>3. Done' = Done
    BY <1>2, <2>2 DEF Done
  <2>4. \A f \in Fields : Readable(input, f)' <=> Readable(input, f)
    BY <1>2, SameFaults
  <2>5. CallInv'
    BY <1>1, <1>2, <2>1, <2>3, <2>4 DEF CallInv
  <2>6. Answered' /\ AllPushed'
    BY <1>1, <1>2, Answers DEF AllPushed, answer
  <2>7. pc' \in Places
    BY <1>2 DEF Places, WrapperPlaces
  <2> QED
    BY <1>2, <2>5, <2>6, <2>7 DEF WrapperInv
<1>3. CASE /\ Return(Built) /\ entry = "encryptPublicDecrypt"
           /\ UNCHANGED <<entry, input, core, answer>>
  <2>1. Handed = Built
    BY <1>3 DEF Handed
  <2> QED
    BY <1>1, <1>3, <2>1, HandedOut DEF Return
<1>4. CASE CopyResult
  <2>1. Handed = Copied(Built)
    BY <1>1, <1>4 DEF Handed, CopyResult, CallInv, WrapperPlaces
  <2>2. Return(Handed) /\ UNCHANGED <<entry, input, core, answer>>
    BY <1>4, <2>1 DEF CopyResult
  <2> QED
    BY <1>1, <2>2, HandedOut DEF Return
<1> QED
  BY <1>2, <1>3, <1>4 DEF BuildResult

LEMMA NextStep ==
  ASSUME WrapperInv, Next
  PROVE  WrapperInv'
<1>1. CASE \E a \in Inputs : CallWrapper(a) \/ CallBinding(a)
  BY <1>1, CallStep
<1>2. CASE NormalizePlaintext
  <2> DEFINE p == input.plaintext
  <2>1. CallInv /\ entry = "encryptDescriptor"
    BY <1>2, InsideACall DEF NormalizePlaintext, Normalize, CallInv, WrapperPlaces
  <2>2. <<"wrapper", "outerVdxfKey">> \in WrapperPlaces /\ "plaintext" \in DOMAIN input
    BY <2>1, FieldNames, InputsAssumption DEF CallInv, WrapperPlaces, KeyFields, Fields
  <2>3. DoneAt(<<"wrapper", "outerVdxfKey">>)
          = DoneAt(<<"wrapper", "plaintext">>) \cup {"plaintext"}
    BY DEF DoneAt
  <2>4. PlaintextBytes(p) = Normalized(input, "plaintext")
    BY DEF Normalized, KeyFields, Texts
  <2>5. PlaintextRefusal(p)[1] <=> ~Passes(input, "plaintext")
    BY DEF Passes, KeyFields
  <2>6. ASSUME PlaintextRefusal(p)[1]
        PROVE  /\ "plaintext" \in Faulty(input) \ Overlooked(input)
               /\ \/ PlaintextRefusal(p)[2] = "plaintext"
                  \/ PlaintextRefusal(p)[2] = None /\ "plaintext" \in ThrownOn(input)
    <3>1. ~Passes(input, "plaintext")
      BY <2>5, <2>6
    <3>2. /\ ~WellFormed(input, "plaintext") /\ "plaintext" \notin Overlooked(input)
          /\ \/ PlaintextRefusal(p) = Names("plaintext")
             \/ PlaintextRefusal(p) = TypeError /\ "plaintext" \in ThrownOn(input)
      BY <2>1, <3>1, PlaintextPasses DEF CallInv
    <3>3. Names("plaintext")[2] = "plaintext" /\ TypeError[2] = None
      BY DEF Names, TypeError
    <3> QED
      BY <2>2, <3>2, <3>3 DEF Faulty, Overlooked, ThrownOn
  <2> QED
    BY <1>2, <2>2, <2>3, <2>4, <2>5, <2>6, NormalizeStep DEF NormalizePlaintext
<1>3. CASE NormalizeTwentyByte("outerVdxfKey", <<"wrapper", "systemId">>)
  <2> DEFINE refusal == TwentyByteRefusal(input["outerVdxfKey"], "outerVdxfKey")
  <2>1. CallInv /\ entry = "encryptDescriptor"
    BY <1>3, InsideACall
       DEF NormalizeTwentyByte, Normalize, CallInv, WrapperPlaces, KeyFields
  <2>2. /\ <<"wrapper", "systemId">> \in WrapperPlaces /\ "outerVdxfKey" \in KeyFields
        /\ "outerVdxfKey" \in DOMAIN input
    BY <2>1, FieldNames, InputsAssumption DEF CallInv, WrapperPlaces, KeyFields, Fields
  <2>3. DoneAt(<<"wrapper", "systemId">>) = DoneAt(<<"wrapper", "outerVdxfKey">>) \cup {"outerVdxfKey"}
    BY DEF DoneAt, KeyFields
  <2>4. TwentyBytes(input["outerVdxfKey"]) = Normalized(input, "outerVdxfKey")
    BY <2>2 DEF Normalized, KeyFields, Texts
  <2>5. refusal[1] <=> ~Passes(input, "outerVdxfKey")
    BY <2>2 DEF Passes, KeyFields
  <2>6. ASSUME refusal[1]
        PROVE  /\ "outerVdxfKey" \in Faulty(input) \ Overlooked(input)
               /\ \/ refusal[2] = "outerVdxfKey"
                  \/ refusal[2] = None /\ "outerVdxfKey" \in ThrownOn(input)
    <3>1. ~Passes(input, "outerVdxfKey")
      BY <2>5, <2>6
    <3>2. /\ ~WellFormed(input, "outerVdxfKey")
          /\ \/ refusal = Names("outerVdxfKey")
             \/ refusal = TypeError /\ Nullish(input["outerVdxfKey"])
      BY <2>1, <2>2, <3>1, KeyPasses DEF CallInv
    <3>3. Names("outerVdxfKey")[2] = "outerVdxfKey" /\ TypeError[2] = None
      BY DEF Names, TypeError
    <3> QED
      BY <2>2, <3>2, <3>3 DEF Faulty, Overlooked, ThrownOn
  <2> QED
    BY <1>3, <2>2, <2>3, <2>4, <2>5, <2>6, NormalizeStep DEF NormalizeTwentyByte
<1>4. CASE NormalizeTwentyByte("systemId", <<"wrapper", "signature">>)
  <2> DEFINE refusal == TwentyByteRefusal(input["systemId"], "systemId")
  <2>1. CallInv /\ entry = "encryptDescriptor"
    BY <1>4, InsideACall
       DEF NormalizeTwentyByte, Normalize, CallInv, WrapperPlaces, KeyFields
  <2>2. /\ <<"wrapper", "signature">> \in WrapperPlaces /\ "systemId" \in KeyFields
        /\ "systemId" \in DOMAIN input
    BY <2>1, FieldNames, InputsAssumption DEF CallInv, WrapperPlaces, KeyFields, Fields
  <2>3. DoneAt(<<"wrapper", "signature">>) = DoneAt(<<"wrapper", "systemId">>) \cup {"systemId"}
    BY DEF DoneAt, KeyFields
  <2>4. TwentyBytes(input["systemId"]) = Normalized(input, "systemId")
    BY <2>2 DEF Normalized, KeyFields, Texts
  <2>5. refusal[1] <=> ~Passes(input, "systemId")
    BY <2>2 DEF Passes, KeyFields
  <2>6. ASSUME refusal[1]
        PROVE  /\ "systemId" \in Faulty(input) \ Overlooked(input)
               /\ \/ refusal[2] = "systemId"
                  \/ refusal[2] = None /\ "systemId" \in ThrownOn(input)
    <3>1. ~Passes(input, "systemId")
      BY <2>5, <2>6
    <3>2. /\ ~WellFormed(input, "systemId")
          /\ \/ refusal = Names("systemId")
             \/ refusal = TypeError /\ Nullish(input["systemId"])
      BY <2>1, <2>2, <3>1, KeyPasses DEF CallInv
    <3>3. Names("systemId")[2] = "systemId" /\ TypeError[2] = None
      BY DEF Names, TypeError
    <3> QED
      BY <2>2, <3>2, <3>3 DEF Faulty, Overlooked, ThrownOn
  <2> QED
    BY <1>4, <2>2, <2>3, <2>4, <2>5, <2>6, NormalizeStep DEF NormalizeTwentyByte
<1>5. CASE NormalizeSignature
  <2> DEFINE s == input.signature
             refusal == IF Nullish(s) \/ IsBytes(s) THEN Accepted ELSE Names("signature")
  <2>1. CallInv
    BY <1>5, InsideACall DEF NormalizeSignature, Normalize
  <2>2. /\ <<"wrapper", "call">> \in WrapperPlaces /\ "signature" \in DOMAIN input
        /\ DoneAt(<<"wrapper", "call">>)
              = DoneAt(<<"wrapper", "signature">>) \cup {"signature"}
    BY <2>1, FieldNames, InputsAssumption
       DEF CallInv, WrapperPlaces, Fields, DoneAt, KeyFields, Texts, Index
  <2>3. (IF Nullish(s) THEN Null ELSE Uint8(s)) = Normalized(input, "signature")
    BY DEF Normalized, KeyFields, Texts
  <2>4. Passes(input, "signature") <=> Nullish(s) \/ IsBytes(s)
    BY DEF Passes, KeyFields
  <2>5. WellFormed(input, "signature") <=> Nullish(s) \/ IsBytes(s)
    BY DEF WellFormed
  <2>6. /\ refusal[1] \/ Passes(input, "signature")
        /\ refusal[1] => /\ "signature" \in Faulty(input) \ Overlooked(input)
                         /\ refusal[2] = "signature"
    BY <2>2, <2>4, <2>5 DEF Accepted, Names, Faulty, Overlooked
  <2> QED
    BY <1>5, <2>2, <2>3, <2>6, NormalizeStep DEF NormalizeSignature
<1>6. CASE CrossBoundary
  BY <1>6, CrossStep
<1>7. CASE ReadUint8Array("plaintext", <<"binding", "outerVdxfKey">>)
  <2> DEFINE r         == request["plaintext"]
             accepted  == IsBytes(r)
             value     == r.data
             next      == <<"binding", "outerVdxfKey">>
  <2>1. CallInv /\ pc = <<"binding", "plaintext">> /\ "plaintext" \in Fields
    BY <1>7, InsideACall, FieldNames DEF ReadUint8Array, Read
  <2>2. /\ next \in Places /\ next[1] # "wrapper" /\ next[2] \notin {"build", "copy"}
        /\ ReadAt(next) = ReadAt(<<"binding", "plaintext">>) \cup {"plaintext"}
    BY FieldNames DEF Places, ReadAt, Index, KeyFields, Texts
  <2>3. /\ accepted <=> Readable(input, "plaintext")
        /\ accepted => value = Asked(input, "plaintext")
    BY <2>1, RequestAtBinding, PlaintextReads
  <2>4. Read("plaintext", accepted, value, next)
    BY <1>7 DEF ReadUint8Array
  <2> HIDE DEF accepted, value, next
  <2> QED
    BY <2>1, <2>2, <2>3, <2>4, ReadStep
<1>8. CASE ReadUint8Array20b("outerVdxfKey", <<"binding", "systemId">>)
  <2> DEFINE r         == request["outerVdxfKey"]
             accepted  == Is20b(r)
             value     == r.data
             next      == <<"binding", "systemId">>
  <2>1. CallInv /\ pc = <<"binding", "outerVdxfKey">> /\ "outerVdxfKey" \in Fields
    BY <1>8, InsideACall, FieldNames DEF ReadUint8Array20b, Read
  <2>2. /\ next \in Places /\ next[1] # "wrapper" /\ next[2] \notin {"build", "copy"}
        /\ ReadAt(next) = ReadAt(<<"binding", "outerVdxfKey">>) \cup {"outerVdxfKey"}
    BY FieldNames DEF Places, ReadAt, Index, KeyFields, Texts
  <2>3. /\ accepted <=> Readable(input, "outerVdxfKey")
        /\ accepted => value = Asked(input, "outerVdxfKey")
    BY <2>1, RequestAtBinding, KeyReads
       DEF Readable, Overlooked, Texts, KeyFields
  <2>4. Read("outerVdxfKey", accepted, value, next)
    BY <1>8 DEF ReadUint8Array20b
  <2> HIDE DEF accepted, value, next
  <2> QED
    BY <2>1, <2>2, <2>3, <2>4, ReadStep
<1>9. CASE ReadUint8Array20b("systemId", <<"binding", "label">>)
  <2> DEFINE r         == request["systemId"]
             accepted  == Is20b(r)
             value     == r.data
             next      == <<"binding", "label">>
  <2>1. CallInv /\ pc = <<"binding", "systemId">> /\ "systemId" \in Fields
    BY <1>9, InsideACall, FieldNames DEF ReadUint8Array20b, Read
  <2>2. /\ next \in Places /\ next[1] # "wrapper" /\ next[2] \notin {"build", "copy"}
        /\ ReadAt(next) = ReadAt(<<"binding", "systemId">>) \cup {"systemId"}
    BY FieldNames DEF Places, ReadAt, Index, KeyFields, Texts
  <2>3. /\ accepted <=> Readable(input, "systemId")
        /\ accepted => value = Asked(input, "systemId")
    BY <2>1, RequestAtBinding, KeyReads
       DEF Readable, Overlooked, Texts, KeyFields
  <2>4. Read("systemId", accepted, value, next)
    BY <1>9 DEF ReadUint8Array20b
  <2> HIDE DEF accepted, value, next
  <2> QED
    BY <2>1, <2>2, <2>3, <2>4, ReadStep
<1>10. CASE ReadOptionalString("label", <<"binding", "mimeType">>)
  <2> DEFINE r         == request["label"]
             accepted  == (Nullish(r) \/ r.type = "string")
             value     == (IF Nullish(r) THEN None ELSE r.data.utf8)
             next      == <<"binding", "mimeType">>
  <2>1. CallInv /\ pc = <<"binding", "label">> /\ "label" \in Fields
    BY <1>10, InsideACall, FieldNames DEF ReadOptionalString, Read
  <2>2. /\ next \in Places /\ next[1] # "wrapper" /\ next[2] \notin {"build", "copy"}
        /\ ReadAt(next) = ReadAt(<<"binding", "label">>) \cup {"label"}
    BY FieldNames DEF Places, ReadAt, Index, KeyFields, Texts
  <2>3. /\ accepted <=> Readable(input, "label")
        /\ accepted => value = Asked(input, "label")
    BY <2>1, RequestAtBinding, TextReads
       DEF Texts
  <2>4. Read("label", accepted, value, next)
    BY <1>10 DEF ReadOptionalString
  <2> HIDE DEF accepted, value, next
  <2> QED
    BY <2>1, <2>2, <2>3, <2>4, ReadStep
<1>11. CASE ReadOptionalString("mimeType", <<"binding", "dataDepositVoutIndex">>)
  <2> DEFINE r         == request["mimeType"]
             accepted  == (Nullish(r) \/ r.type = "string")
             value     == (IF Nullish(r) THEN None ELSE r.data.utf8)
             next      == <<"binding", "dataDepositVoutIndex">>
  <2>1. CallInv /\ pc = <<"binding", "mimeType">> /\ "mimeType" \in Fields
    BY <1>11, InsideACall, FieldNames DEF ReadOptionalString, Read
  <2>2. /\ next \in Places /\ next[1] # "wrapper" /\ next[2] \notin {"build", "copy"}
        /\ ReadAt(next) = ReadAt(<<"binding", "mimeType">>) \cup {"mimeType"}
    BY FieldNames DEF Places, ReadAt, Index, KeyFields, Texts
  <2>3. /\ accepted <=> Readable(input, "mimeType")
        /\ accepted => value = Asked(input, "mimeType")
    BY <2>1, RequestAtBinding, TextReads
       DEF Texts
  <2>4. Read("mimeType", accepted, value, next)
    BY <1>11 DEF ReadOptionalString
  <2> HIDE DEF accepted, value, next
  <2> QED
    BY <2>1, <2>2, <2>3, <2>4, ReadStep
<1>12. CASE ReadU32("dataDepositVoutIndex", <<"binding", "signature">>)
  <2> DEFINE r         == request["dataDepositVoutIndex"]
             accepted  == (r.type = "number" /\ FitsU32(r.data))
             value     == AsU32(r.data)
             next      == <<"binding", "signature">>
  <2>1. CallInv /\ pc = <<"binding", "dataDepositVoutIndex">> /\ "dataDepositVoutIndex" \in Fields
    BY <1>12, InsideACall, FieldNames DEF ReadU32, Read
  <2>2. /\ next \in Places /\ next[1] # "wrapper" /\ next[2] \notin {"build", "copy"}
        /\ ReadAt(next) = ReadAt(<<"binding", "dataDepositVoutIndex">>) \cup {"dataDepositVoutIndex"}
    BY FieldNames DEF Places, ReadAt, Index, KeyFields, Texts
  <2>3. /\ accepted <=> Readable(input, "dataDepositVoutIndex")
        /\ accepted => value = Asked(input, "dataDepositVoutIndex")
    BY <2>1, RequestAtBinding, IndexReads
       DEF Readable, Overlooked, Texts, Index
  <2>4. Read("dataDepositVoutIndex", accepted, value, next)
    BY <1>12 DEF ReadU32
  <2> HIDE DEF accepted, value, next
  <2> QED
    BY <2>1, <2>2, <2>3, <2>4, ReadStep
<1>13. CASE ReadOptionalUint8Array("signature", <<"core", "run">>)
  <2> DEFINE r         == request["signature"]
             accepted  == (Nullish(r) \/ IsBytes(r))
             value     == (IF Nullish(r) THEN None ELSE r.data)
             next      == <<"core", "run">>
  <2>1. CallInv /\ pc = <<"binding", "signature">> /\ "signature" \in Fields
    BY <1>13, InsideACall, FieldNames DEF ReadOptionalUint8Array, Read
  <2>2. /\ next \in Places /\ next[1] # "wrapper" /\ next[2] \notin {"build", "copy"}
        /\ ReadAt(next) = ReadAt(<<"binding", "signature">>) \cup {"signature"}
    BY FieldNames DEF Places, ReadAt, Index, KeyFields, Texts
  <2>3. /\ accepted <=> Readable(input, "signature")
        /\ accepted => value = Asked(input, "signature")
    BY <2>1, RequestAtBinding, SignatureReads
       DEF Readable, Overlooked, Texts
  <2>4. Read("signature", accepted, value, next)
    BY <1>13 DEF ReadOptionalUint8Array
  <2> HIDE DEF accepted, value, next
  <2> QED
    BY <2>1, <2>2, <2>3, <2>4, ReadStep
<1>14. CASE RunCore
  BY <1>14, CoreStep
<1>15. CASE PushScript
  BY <1>15, PushStep
<1>16. CASE BuildResult \/ CopyResult
  BY <1>16, ResultSteps
<1> QED
  BY <1>1, <1>2, <1>3, <1>4, <1>5, <1>6, <1>7, <1>8, <1>9, <1>10, <1>11,
     <1>12, <1>13, <1>14, <1>15, <1>16 DEF Next

LEMMA WrapperInvariant == Spec => []WrapperInv
<1>1. Init => WrapperInv
  BY DEF Init, WrapperInv
<1>2. WrapperInv /\ [Next]_vars => WrapperInv'
  <2> SUFFICES ASSUME WrapperInv, [Next]_vars PROVE WrapperInv'
    OBVIOUS
  <2>1. CASE UNCHANGED vars
    <3>1. UNCHANGED <<pc, entry, input, request, core, answer, result, scripts, outcome>>
      BY <2>1 DEF vars, answer
    <3>2. Done' = Done
      BY <3>1 DEF Done
    <3>3. CallInv => CallInv'
      BY <3>1, <3>2, SameFaults DEF CallInv
    <3>4. Answered => Answered'
      BY <3>1, Answers
    <3>5. AllPushed' = AllPushed /\ Handed' = Handed
      BY <3>1 DEF AllPushed, Handed, Copied, Built
    <3>6. Refusal(outcome) => Refusal(outcome)'
      BY <3>1, SameFaults DEF Refusal
    <3> QED
      BY <3>1, <3>3, <3>4, <3>5, <3>6 DEF WrapperInv
  <2> QED
    BY <2>1, NextStep
<1> QED
  BY <1>1, <1>2, PTL DEF Spec

-----------------------------------------------------------------------------
(* Types, for every set of arguments: a key the core is given has its      *)
(* length, an output index its range (Is20b, FitsU32).                     *)
THEOREM WrapperTypeCorrect == Spec => []TypeOK
<1>1. WrapperInv => TypeOK
  <2> SUFFICES ASSUME WrapperInv PROVE TypeOK
    OBVIOUS
  <2>1. /\ pc \in {"caller", "wrapper", "binding", "core"} \X
                  (Fields \cup {"idle", "returned", "call", "run", "build", "copy"})
        /\ entry \in {None, "encryptDescriptor", "encryptPublicDecrypt"}
        /\ input = None \/ input \in Inputs
    BY FieldNames DEF WrapperInv, CallInv, Places, WrapperPlaces, KeyFields
  <2>2. /\ \A f \in KeyFields : core[f] = None \/ Len(core[f]) = KeyBytes
        /\ core.dataDepositVoutIndex \in 0..U32Max \cup {None}
    <3>1. core = NoCore => /\ \A f \in KeyFields : core[f] = None
                           /\ core.dataDepositVoutIndex = None
      BY DEF NoCore, KeyFields
    <3> QED
      BY <3>1, CoreTyped DEF WrapperInv
  <2>3. outcome # None => outcome.error \in Layers \cup {None}
    BY DEF WrapperInv, CallInv, Refusal
  <2>4. \A i \in DOMAIN scripts : IsBytes(scripts[i])
    <3>1. CASE scripts = <<>>
      BY <3>1
    <3>2. CASE Answered
      BY <3>2 DEF Answered, ToUint8Array, JS, IsBytes
    <3> QED
      BY <3>1, <3>2 DEF WrapperInv
  <2> QED
    BY <2>1, <2>2, <2>3, <2>4, InputsAssumption DEF TypeOK, KeyFields, Fields
<1> QED
  BY <1>1, WrapperInvariant, PTL

(* What an entry point returns is under the caller's key and holds all the *)
(* caller meant, each field in its place and each key in wire order, beside*)
(* the core's scripts in their order and its keys under their names, as    *)
(* arrays of the documented type, from either entry (encryptDescriptor,    *)
(* encrypt_public_decrypt_js and what copies their results).               *)
THEOREM ReturnsWhatWasMeant == Spec => []AnswersTheRequest
<1>1. WrapperInv => AnswersTheRequest
  <2> SUFFICES ASSUME WrapperInv, outcome # None, outcome.error = None
               PROVE  AnswersTheRequest
    BY DEF AnswersTheRequest
  <2> DEFINE placed    == result.data_deposit_output_scripts
             type      == IF entry = "encryptDescriptor" THEN "Buffer" ELSE "Uint8Array"
             Got(data) == JS(type, data)
  <2>1. /\ input \in Inputs /\ input # None /\ Answered /\ AllPushed
        /\ outcome.value = Handed
    BY WrapperAssumption DEF WrapperInv, CallInv, Refusal
  <2>2. Asked(input, "outerVdxfKey") = MeantKey(input.outerVdxfKey)
    BY DEF Asked, KeyFields, Texts, Index
  <2>3. Asked(input, "plaintext") = MeantPlaintext(input.plaintext)
    <3> DEFINE p == input.plaintext
    <3>1. Asked(input, "plaintext") = PlaintextBytes(p).data
      BY DEF Asked, KeyFields, Texts, Index
    <3>2. CASE IsBytes(p) \/ p.type = "string"
      BY <3>1, <3>2 DEF PlaintextBytes, MeantPlaintext, IsBytes, Uint8, JS
    <3>3. CASE ~(IsBytes(p) \/ p.type = "string")
      <4>1. WellFormed(input, "plaintext") \/ "plaintext" \in Overlooked(input)
        BY <2>1, InputsAssumption, FieldNames DEF Answered, Faulty, Fields
      <4>2. p.type = "object" /\ p.data.toJSON # "own"
        BY <3>3, <4>1 DEF WellFormed, Overlooked, PassesForPlain, IsPlainOrArray, Stringifies
      <4>3. p.data.toJSON \in {"nowhere", "inherited"}
        BY <2>1, <4>2, InputsAssumption
      <4> QED
        BY <3>1, <3>3, <4>3 DEF PlaintextBytes, MeantPlaintext, JsonText, JS
    <3> QED
      BY <3>2, <3>3
  <2>4. [f \in Fields |-> Asked(input, f)] = Meant(input)
    <3>1. \A f \in Fields : Asked(input, f) = Meant(input)[f]
      BY <2>3, FieldNames DEF Asked, Meant, KeyFields, Texts, Index
    <3>2. Meant(input) = [f \in Fields |-> Meant(input)[f]]
      BY FieldNames DEF Meant
    <3> QED
      BY <3>1, <3>2
  <2>5. result.cmm_entry = <<MeantKey(input.outerVdxfKey), Meant(input)>>
    BY <2>1, <2>2, <2>4 DEF Answered
  <2>6. /\ placed \in Seq(Nat)
        /\ scripts = [i \in 1..Len(placed) |-> ToUint8Array(placed[i])]
    <3>1. PICK n \in 0..Len(placed) : scripts = [i \in 1..n |-> ToUint8Array(placed[i])]
      BY <2>1 DEF Answered
    <3>2. placed \in Seq(Nat) /\ n = Len(scripts)
      BY <2>1, <3>1 DEF Answered
    <3> QED
      BY <2>1, <3>1, <3>2 DEF AllPushed
  <2>7. /\ DOMAIN placed = 1..Len(placed) /\ DOMAIN scripts = DOMAIN placed
        /\ \A i \in DOMAIN placed : scripts[i] = ToUint8Array(placed[i])
    BY <2>6
  <2>8. outcome.value =
          [cmmEntry |-> [vdxfKey |-> Got(MeantKey(input.outerVdxfKey)),
                         value   |-> Got(Meant(input))],
           dataDepositOutputScripts |-> [i \in DOMAIN placed |-> Got(placed[i])],
           publishedIvk         |-> Got(result.published_ivk),
           outerEpk             |-> Got(result.outer_epk),
           ephemeralDiversifier |-> Got(result.ephemeral_diversifier),
           ephemeralPkD         |-> Got(result.ephemeral_pk_d)]
    <3>1. CASE entry = "encryptDescriptor"
      <4>1. \A data : ToBuffer(ToUint8Array(data)) = Got(data)
        BY <3>1 DEF ToBuffer, ToUint8Array, JS
      <4>2. [i \in DOMAIN scripts |-> ToBuffer(scripts[i])]
              = [i \in DOMAIN placed |-> Got(placed[i])]
        BY <2>7, <4>1
      <4>3. outcome.value = Copied(Built)
        BY <2>1, <3>1 DEF Handed
      <4> HIDE DEF Got, placed
      <4>4. ToBuffer(ToUint8Array(result.cmm_entry[1])) = Got(MeantKey(input.outerVdxfKey))
        BY <2>5, <4>1
      <4>5. ToBuffer(ToUint8Array(result.cmm_entry[2])) = Got(Meant(input))
        BY <2>5, <4>1
      <4> QED
        BY <4>1, <4>2, <4>3, <4>4, <4>5 DEF Copied, Built
    <3>2. CASE entry # "encryptDescriptor"
      BY <2>1, <2>5, <2>6, <2>7, <3>2 DEF Handed, Built, ToUint8Array
    <3> QED
      BY <3>1, <3>2
  <2> QED
    BY <2>8 DEF AnswersTheRequest
<1> QED
  BY <1>1, WrapperInvariant, PTL

(* A call is refused if and only if a field of its argument is outside its *)
(* documented types or range, a payload that passes for a plain object     *)
(* aside, or the diversifier search gives up.  The error names such a      *)
(* field, unless the core says which cap was exceeded, nothing but label   *)
(* and mime type being left to blame, or JavaScript itself threw in        *)
(* encryptDescriptor, on a null key or in JSON.stringify                   *)
(* (normalizeTwentyByte, read_u32 and the other tests of the three layers  *)
(* together).                                                              *)
THEOREM ExactlyTheFaultyAreRefused == Spec => []RefusesExactlyTheFaulty
<1>1. WrapperInv => RefusesExactlyTheFaulty
  <2> SUFFICES ASSUME WrapperInv, outcome # None,
                      outcome.error # "DiversifierSearchExhausted"
               PROVE  RefusesExactlyTheFaulty
    BY DEF RefusesExactlyTheFaulty
  <2>1. \/ Refusal(outcome) /\ outcome.error # None
        \/ /\ input # None /\ outcome.error = None
           /\ Faulty(input) \subseteq Overlooked(input)
    BY WrapperAssumption DEF WrapperInv, CallInv, Refusal, Answered
  <2>2. CASE Refusal(outcome) /\ outcome.error # None
    BY <2>2 DEF Refusal, RefusesExactlyTheFaulty, Texts
  <2>3. CASE /\ input # None /\ outcome.error = None
             /\ Faulty(input) \subseteq Overlooked(input)
    BY <2>3 DEF RefusesExactlyTheFaulty
  <2> QED
    BY <2>1, <2>2, <2>3
<1> QED
  BY <1>1, WrapperInvariant, PTL
=============================================================================
