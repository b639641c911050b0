------------------------------ MODULE Wrapper ------------------------------
(***************************************************************************)
(* The two entry points of the package: encryptDescriptor (index.ts), which*)
(* normalises what JavaScript callers pass, and encryptPublicDecrypt (the  *)
(* binding of lib.rs), which it calls and which may be called directly.    *)
(* A call handles the fields one by one and ends at the first it refuses;  *)
(* otherwise the core runs and its result is copied back.  Nothing is kept *)
(* from one call to the next, so a behaviour is one call.                  *)
(***************************************************************************)
EXTENDS Descriptor, SequencesExt

CONSTANTS
  KeyBytes,     \* 20: the bytes of a VDXF key or system id
  U32Max,       \* u32::MAX
  MaxScripts,   \* bound on the scripts one call of the core returns
  Inputs        \* what callers pass: records of JavaScript values, or None
                \* for null and undefined; reading a field of any other
                \* argument that has none yields undefined

Layers == {"wrapper", "binding", "Wire", "DiversifierSearchExhausted"}

ASSUME WrapperAssumption ==
  /\ KeyBytes \in Nat /\ U32Max \in Nat /\ MaxScripts \in Nat
  /\ None \notin Int /\ None \notin Layers

-----------------------------------------------------------------------------
(* JavaScript values.  The data of a byte array is a byte string, in a key *)
(* field the sequence of its bytes; that of a string has its UTF-8 text    *)
(* and the bytes it spells in hex, or None; that of a number is twice the  *)
(* number, or None for NaN and the infinities.  An object has its          *)
(* prototype, where its toJSON comes from and what JSON.stringify makes of *)
(* it without and with one, None where that throws.  Two kinds of          *)
(* prototype have none of their own besides Object.prototype: that of      *)
(* another realm, and "root", any object a program has made with           *)
(* Object.create(null).                                                    *)
JS(type, data) == [type |-> type, data |-> data]

Null == JS("null", None)

Nullish(v) == v.type \in {"null", "undefined"}
IsBytes(v) == v.type \in {"Buffer", "Uint8Array"}

(* new Uint8Array(b) for a Buffer, the array itself otherwise.             *)
Uint8(v) == IF v.type = "Buffer" THEN JS("Uint8Array", v.data) ELSE v

-----------------------------------------------------------------------------
VARIABLES
  pc,         \* where the call is: <<layer, field or step>>
  entry,      \* the entry point called
  input,      \* its argument
  request,    \* the object the binding reads
  core,       \* the EncryptRequest under construction
  result,     \* the EncryptResult the core returned
  scripts,    \* scripts_array of the binding
  outcome     \* what the caller gets

answer == <<result, scripts>>
vars == <<pc, entry, input, request, core, answer, outcome>>

NoCore == [plaintext |-> None, outerVdxfKey |-> None, systemId |-> None,
           label |-> None, mimeType |-> None, dataDepositVoutIndex |-> None,
           signature |-> None]

(* What JavaScript makes of any argument, whatever its caller meant.       *)
ASSUME InputsAssumption ==
  \A i \in Inputs \ {None} :
    /\ DOMAIN i = DOMAIN NoCore
    /\ i.plaintext.type = "object" =>
         /\ i.plaintext.data.proto \in {"null", "Object.prototype", "other realm",
                                      "root", "Array", "class"}
         /\ i.plaintext.data.toJSON \in {"nowhere", "own", "inherited"}
    /\ \A f \in {"label", "mimeType"} : i[f].type = "string" =>
         i[f].data.utf8 # None /\ i[f].data.utf8.len \in Nat
    /\ i.dataDepositVoutIndex.type = "number" =>
         i.dataDepositVoutIndex.data \in Int \cup {None}

Init ==
  /\ pc = <<"caller", "idle">> /\ entry = None /\ input = None /\ request = None
  /\ core = NoCore /\ result = None /\ scripts = <<>> /\ outcome = None

(* An error that names a field, or None where the runtime throws of its    *)
(* own accord or the core's variant says which cap was exceeded.           *)
Throw(layer, field) ==
  /\ pc' = <<"caller", "returned">>
  /\ outcome' = [error |-> layer, field |-> field]

Calling(point, argument) ==
  /\ pc = <<"caller", "idle">>
  /\ entry' = point /\ input' = argument /\ request' = argument
  /\ UNCHANGED <<core, answer>>

(* input.plaintext of null or undefined throws before anything is          *)
(* normalised.                                                             *)
CallWrapper(argument) ==
  /\ Calling("encryptDescriptor", argument)
  /\ \/ /\ argument = None
        /\ Throw("wrapper", None)
     \/ /\ argument # None
        /\ pc' = <<"wrapper", "plaintext">>
        /\ UNCHANGED outcome

CallBinding(argument) ==
  /\ Calling("encryptPublicDecrypt", argument)
  /\ \/ /\ argument = None
        /\ Throw("binding", "plaintext")
     \/ /\ argument # None
        /\ pc' = <<"binding", "plaintext">>
        /\ UNCHANGED outcome

-----------------------------------------------------------------------------
(* One field of encryptDescriptor: refusals are pairs <<refused, named>>.  *)
Accepted  == <<FALSE, None>>
Names(f)  == <<TRUE, f>>
TypeError == <<TRUE, None>>

Normalize(field, refusal, value, next) ==
  /\ pc = <<"wrapper", field>>
  /\ \/ /\ refusal[1]
        /\ Throw("wrapper", refusal[2])
        /\ UNCHANGED request
     \/ /\ ~refusal[1]
        /\ request' = [request EXCEPT ![field] = value]
        /\ pc' = next
        /\ UNCHANGED outcome
  /\ UNCHANGED <<entry, input, core, answer>>

(* normalizePlaintext.  An object counts as plain when its prototype is    *)
(* null, is Object.prototype or itself has no prototype.                   *)
PlainOrArray(o) ==
  o.proto \in {"null", "Object.prototype", "other realm", "root", "Array"}

JsonText(o) == IF o.toJSON = "nowhere" THEN o.json ELSE o.replaced

PlaintextRefusal(p) ==
  CASE IsBytes(p) \/ p.type = "string" -> Accepted
    [] p.type = "object" /\ PlainOrArray(p.data) /\ p.data.toJSON # "own" ->
         IF JsonText(p.data) = None THEN TypeError ELSE Accepted
    [] OTHER -> Names("plaintext")

PlaintextBytes(p) ==
  CASE IsBytes(p)         -> Uint8(p)
    [] p.type = "string"  -> JS("Uint8Array", p.data.utf8)
    [] OTHER              -> JS("Uint8Array", JsonText(p.data))

NormalizePlaintext ==
  LET p == input.plaintext
  IN  Normalize("plaintext", PlaintextRefusal(p), PlaintextBytes(p),
                <<"wrapper", "outerVdxfKey">>)

(* normalizeTwentyByte.  Whatever is no string is judged by its length.    *)
IsKeyHex(s) == s.bytes # None /\ Len(s.bytes) = KeyBytes

TwentyByteRefusal(v, name) ==
  CASE Nullish(v)         -> TypeError
    [] v.type = "string"  -> IF IsKeyHex(v.data) THEN Accepted ELSE Names(name)
    [] v.type = "number"  -> Names(name)
    [] OTHER -> IF Len(v.data) = KeyBytes THEN Accepted ELSE Names(name)

(* Display order is big-endian, wire order little-endian.  A mutant takes  *)
(* the digits as they are.                                                 *)
TwentyBytesUnreversed(v) ==
  IF v.type = "string" THEN JS("Uint8Array", v.data.bytes) ELSE Uint8(v)

TwentyBytes(v) ==
  IF v.type = "string" THEN JS("Uint8Array", Reverse(v.data.bytes))
  ELSE Uint8(v)

NormalizeTwentyByte(name, next) ==
  LET v == input[name]
  IN  Normalize(name, TwentyByteRefusal(v, name), TwentyBytes(v), next)

(* toUint8Array, for a signature that is there.                            *)
NormalizeSignature ==
  LET s == input.signature
  IN  Normalize("signature",
        IF Nullish(s) \/ IsBytes(s) THEN Accepted ELSE Names("signature"),
        IF Nullish(s) THEN Null ELSE Uint8(s),
        <<"wrapper", "call">>)

(* The request object; label and mimeType get their `?? null'.             *)
CrossBoundary ==
  LET OrNull(v) == IF Nullish(v) THEN Null ELSE v IN
  /\ pc = <<"wrapper", "call">>
  /\ request' = [request EXCEPT !.label = OrNull(@), !.mimeType = OrNull(@)]
  /\ pc' = <<"binding", "plaintext">>
  /\ UNCHANGED <<entry, input, core, answer, outcome>>

-----------------------------------------------------------------------------
(* One field of encrypt_public_decrypt_js; every refusal names the field.  *)
Read(field, accepted, value, next) ==
  /\ pc = <<"binding", field>>
  /\ \/ /\ ~accepted
        /\ Throw("binding", field)
        /\ UNCHANGED core
     \/ /\ accepted
        /\ core' = [core EXCEPT ![field] = value]
        /\ pc' = next
        /\ UNCHANGED outcome
  /\ UNCHANGED <<entry, input, request, answer>>

ReadUint8Array(field, next) ==
  LET v == request[field] IN Read(field, IsBytes(v), v.data, next)

(* A mutant does not look at the length.                                   *)
Is20bAnyLength(v) == IsBytes(v)

Is20b(v) == IsBytes(v) /\ Len(v.data) = KeyBytes

ReadUint8Array20b(field, next) ==
  LET v == request[field] IN Read(field, Is20b(v), v.data, next)

ReadOptionalString(field, next) ==
  LET v == request[field]
  IN  Read(field, Nullish(v) \/ v.type = "string",
           IF Nullish(v) THEN None ELSE v.data.utf8, next)

ReadOptionalUint8Array(field, next) ==
  LET v == request[field]
  IN  Read(field, Nullish(v) \/ IsBytes(v),
           IF Nullish(v) THEN None ELSE v.data, next)

(* read_u32's test, on twice the number.  A mutant drops the fraction.     *)
FitsU32Truncating(twice) ==
  twice # None /\ twice >= 0 /\ twice <= 2 * U32Max

FitsU32(twice) ==
  /\ twice # None
  /\ twice >= 0 /\ twice <= 2 * U32Max
  /\ twice % 2 = 0

(* `n as u32' truncates and saturates.                                     *)
AsU32(twice) ==
  CASE twice < 0          -> 0
    [] twice > 2 * U32Max -> U32Max
    [] OTHER              -> twice \div 2

ReadU32(field, next) ==
  LET v == request[field]
  IN  Read(field, v.type = "number" /\ FitsU32(v.data), AsU32(v.data), next)

-----------------------------------------------------------------------------
(* encrypt_public_decrypt and map_encrypt_error: a field over its cap is   *)
(* refused, and only then; the diversifier search may give up.  The value  *)
(* of the entry stands for all the core was asked to put into it, a script *)
(* for its place among the outputs, any other field for what it is.        *)
Oversized == TooLong(core.label, LabelCap) \/ TooLong(core.mimeType, MimeCap)

EncryptResult(n) ==
  [cmm_entry |-> <<core.outerVdxfKey, core>>,
   data_deposit_output_scripts |-> [i \in 1..n |-> i],
   published_ivk |-> "ivk", outer_epk |-> "epk",
   ephemeral_diversifier |-> "diversifier", ephemeral_pk_d |-> "pk_d"]

RunCore ==
  /\ pc = <<"core", "run">>
  /\ \/ Throw("DiversifierSearchExhausted", None) /\ UNCHANGED result
     \/ Oversized /\ Throw("Wire", None) /\ UNCHANGED result
     \/ /\ ~Oversized
        /\ \E n \in 1..MaxScripts : result' = EncryptResult(n)
        /\ pc' = <<"binding", "build">>
        /\ UNCHANGED outcome
  /\ UNCHANGED <<entry, input, request, core, scripts>>

-----------------------------------------------------------------------------
Return(value) ==
  /\ pc' = <<"caller", "returned">>
  /\ outcome' = [error |-> None, value |-> value]

(* build_result_object: each byte string is copied into an array of its    *)
(* own, the scripts one by one.                                            *)
ToUint8Array(bytes) == JS("Uint8Array", bytes)

AllPushed == Len(scripts) = Len(result.data_deposit_output_scripts)

PushScript ==
  /\ pc = <<"binding", "build">> /\ ~AllPushed
  /\ LET next == result.data_deposit_output_scripts[Len(scripts) + 1]
     IN  scripts' = Append(scripts, ToUint8Array(next))
  /\ UNCHANGED <<pc, entry, input, request, core, result, outcome>>

Built ==
  [cmmEntry |-> [vdxfKey |-> ToUint8Array(result.cmm_entry[1]),
                 value   |-> ToUint8Array(result.cmm_entry[2])],
   dataDepositOutputScripts |-> scripts,
   publishedIvk         |-> ToUint8Array(result.published_ivk),
   outerEpk             |-> ToUint8Array(result.outer_epk),
   ephemeralDiversifier |-> ToUint8Array(result.ephemeral_diversifier),
   ephemeralPkD         |-> ToUint8Array(result.ephemeral_pk_d)]

BuildResult ==
  /\ pc = <<"binding", "build">> /\ AllPushed
  /\ \/ /\ entry = "encryptPublicDecrypt"
        /\ Return(Built)
     \/ /\ entry = "encryptDescriptor"
        /\ pc' = <<"wrapper", "copy">>
        /\ UNCHANGED outcome
  /\ UNCHANGED <<entry, input, request, core, answer>>

(* The Buffers encryptDescriptor makes of the arrays.                      *)
ToBuffer(array) == JS("Buffer", array.data)

Copied(object) ==
  [cmmEntry |-> [vdxfKey |-> ToBuffer(object.cmmEntry.vdxfKey),
                 value   |-> ToBuffer(object.cmmEntry.value)],
   dataDepositOutputScripts |->
     [i \in DOMAIN object.dataDepositOutputScripts |->
        ToBuffer(object.dataDepositOutputScripts[i])],
   publishedIvk         |-> ToBuffer(object.publishedIvk),
   outerEpk             |-> ToBuffer(object.outerEpk),
   ephemeralDiversifier |-> ToBuffer(object.ephemeralDiversifier),
   ephemeralPkD         |-> ToBuffer(object.ephemeralPkD)]

CopyResult ==
  /\ pc = <<"wrapper", "copy">>
  /\ Return(Copied(Built))
  /\ UNCHANGED <<entry, input, request, core, answer>>

Next ==
  \/ \E a \in Inputs : CallWrapper(a) \/ CallBinding(a)
  \/ NormalizePlaintext
  \/ NormalizeTwentyByte("outerVdxfKey", <<"wrapper", "systemId">>)
  \/ NormalizeTwentyByte("systemId", <<"wrapper", "signature">>)
  \/ NormalizeSignature
  \/ CrossBoundary
  \/ ReadUint8Array("plaintext", <<"binding", "outerVdxfKey">>)
  \/ ReadUint8Array20b("outerVdxfKey", <<"binding", "systemId">>)
  \/ ReadUint8Array20b("systemId", <<"binding", "label">>)
  \/ ReadOptionalString("label", <<"binding", "mimeType">>)
  \/ ReadOptionalString("mimeType", <<"binding", "dataDepositVoutIndex">>)
  \/ ReadU32("dataDepositVoutIndex", <<"binding", "signature">>)
  \/ ReadOptionalUint8Array("signature", <<"core", "run">>)
  \/ RunCore \/ PushScript \/ BuildResult \/ CopyResult

Spec == Init /\ [][Next]_vars
-----------------------------------------------------------------------------
(* What the documentation of the two interfaces says a call means.  In     *)
(* display order the first byte of a key is its last one on the wire.      *)
MeantKey(v) ==
  IF v.type = "string"
  THEN [i \in 1..KeyBytes |-> v.data.bytes[KeyBytes + 1 - i]]
  ELSE v.data

(* An object stands for what JSON.stringify makes of it, in which a toJSON *)
(* of the object itself has no part (index.ts:34, 216-218).                *)
MeantPlaintext(p) ==
  CASE IsBytes(p)        -> p.data
    [] p.type = "string" -> p.data.utf8
    [] OTHER -> IF p.data.toJSON = "inherited" THEN p.data.replaced ELSE p.data.json

Meant(i) ==
  [plaintext    |-> MeantPlaintext(i.plaintext),
   outerVdxfKey |-> MeantKey(i.outerVdxfKey),
   systemId     |-> MeantKey(i.systemId),
   label        |-> IF Nullish(i.label) THEN None ELSE i.label.data.utf8,
   mimeType     |-> IF Nullish(i.mimeType) THEN None ELSE i.mimeType.data.utf8,
   dataDepositVoutIndex |-> i.dataDepositVoutIndex.data \div 2,
   signature    |-> IF Nullish(i.signature) THEN None ELSE i.signature.data]

(* "Only plain `{}` / `Object.create(null)` objects and arrays are         *)
(* accepted" (index.ts:201-202), those of another realm among them.        *)
IsPlainOrArray(p) ==
  /\ p.type = "object"
  /\ p.data.proto \in {"null", "Object.prototype", "other realm", "Array"}

Stringifies(p) == p.data.toJSON # "own" /\ JsonText(p.data) # None

AcceptsAlsoText == entry = "encryptDescriptor"

(* The fields outside the types and ranges the interfaces document.        *)
WellFormed(i, field) ==
  LET v == i[field] IN
  CASE field = "plaintext" ->
         \/ IsBytes(v)
         \/ AcceptsAlsoText /\ v.type = "string"
         \/ AcceptsAlsoText /\ IsPlainOrArray(v) /\ Stringifies(v)
    [] field \in {"outerVdxfKey", "systemId"} ->
         \/ IsBytes(v) /\ Len(v.data) = KeyBytes
         \/ AcceptsAlsoText /\ v.type = "string" /\ IsKeyHex(v.data)
    [] field \in {"label", "mimeType"} ->
         \/ Nullish(v)
         \/ /\ v.type = "string"
            /\ v.data.utf8.len <= (IF field = "label" THEN LabelCap ELSE MimeCap)
    [] field = "dataDepositVoutIndex" ->
         v.type = "number" /\ v.data \in {2 * n : n \in 0..U32Max}
    [] OTHER -> Nullish(v) \/ IsBytes(v)

Faulty(i) == {f \in DOMAIN i : ~WellFormed(i, f)}

(* A faulty payload that passes for a plain object: AcceptedObjectsArePlain*)
(* is about it.                                                            *)
PassesForPlain(p) ==
  AcceptsAlsoText /\ p.type = "object" /\ p.data.proto = "root" /\ Stringifies(p)

Overlooked(i) == {f \in {"plaintext"} : PassesForPlain(i[f])}

(* The fields on which JavaScript throws by itself: the length of a key    *)
(* that is null (KeyRefusalsNameTheKey is about it), and JSON.stringify.   *)
ThrownOn(i) ==
  {f \in {"outerVdxfKey", "systemId"} : Nullish(i[f])}
    \cup {f \in {"plaintext"} : i[f].type = "object" /\ JsonText(i[f].data) = None}

TypeOK ==
  /\ pc \in {"caller", "wrapper", "binding", "core"} \X
           (DOMAIN NoCore \cup {"idle", "returned", "call", "run", "build",
                               "copy"})
  /\ entry \in {None, "encryptDescriptor", "encryptPublicDecrypt"}
  /\ input # None => DOMAIN input = DOMAIN NoCore
  /\ \A f \in {"outerVdxfKey", "systemId"} :
       core[f] = None \/ Len(core[f]) = KeyBytes
  /\ core.dataDepositVoutIndex \in 0..U32Max \cup {None}
  /\ \A i \in DOMAIN scripts : IsBytes(scripts[i])
  /\ outcome # None => outcome.error \in Layers \cup {None}

(* What is returned answers what the caller meant: the entry is under the  *)
(* caller's key and encrypts the caller's payload for the caller's system, *)
(* labels and output index, each field where it belongs and each key's     *)
(* bytes in wire order; beside it, the core's scripts, all of them and in  *)
(* the order of their outputs, and its keys, each under its own name and   *)
(* in arrays of the type the entry point documents (encryptDescriptor and  *)
(* encrypt_public_decrypt_js, end to end and back).                        *)
AnswersTheRequest ==
  outcome # None /\ outcome.error = None =>
    LET type      == IF entry = "encryptDescriptor" THEN "Buffer" ELSE "Uint8Array"
        Got(data) == JS(type, data)
        placed    == result.data_deposit_output_scripts
    IN  outcome.value =
          [cmmEntry |-> [vdxfKey |-> Got(MeantKey(input.outerVdxfKey)),
                         value   |-> Got(Meant(input))],
           dataDepositOutputScripts |-> [i \in DOMAIN placed |-> Got(placed[i])],
           publishedIvk         |-> Got(result.published_ivk),
           outerEpk             |-> Got(result.outer_epk),
           ephemeralDiversifier |-> Got(result.ephemeral_diversifier),
           ephemeralPkD         |-> Got(result.ephemeral_pk_d)]

(* Across the three layers, a call with a field outside its documented     *)
(* types or range is refused, unless the one such field is a payload that  *)
(* passes for a plain object; a call without is not refused, unless the    *)
(* diversifier search gives up.  The error names a field that is outside,  *)
(* with two exceptions: the core's says which cap was exceeded and is      *)
(* given when label and mime type alone are left to blame, and             *)
(* encryptDescriptor passes on what JavaScript throws by itself.           *)
RefusesExactlyTheFaulty ==
  outcome # None /\ outcome.error # "DiversifierSearchExhausted" =>
    IF input = None THEN outcome.error # None
    ELSE /\ outcome.error = None <=> Faulty(input) \subseteq Overlooked(input)
         /\ outcome.error # None =>
              \/ outcome.field \in Faulty(input)
              \/ /\ outcome = [error |-> "Wire", field |-> None]
                 /\ Faulty(input) \subseteq Overlooked(input) \cup {"label", "mimeType"}
              \/ /\ outcome = [error |-> "wrapper", field |-> None]
                 /\ entry = "encryptDescriptor" /\ ThrownOn(input) # {}

-----------------------------------------------------------------------------
(* The usage example of README.md:36-42, whose outerVdxfKey has 64 digits. *)
ReadmeUsage ==
  [plaintext |-> JS("object", [proto |-> "Object.prototype",
                               toJSON |-> "nowhere", replaced |-> None,
                               json |-> Bytes("payload", 48)]),
   outerVdxfKey |-> JS("string", [utf8 |-> Bytes("key", 64),
                                  bytes |-> [i \in 1..32 |-> i]]),
   systemId |-> JS("string", [utf8 |-> Bytes("system", 40),
                              bytes |-> [i \in 1..20 |-> 100 + i]]),
   label |-> JS("string", [utf8 |-> Bytes("label", 12), bytes |-> None]),
   mimeType |-> JS("undefined", None),
   dataDepositVoutIndex |-> JS("number", 0),
   signature |-> JS("undefined", None)]

(* The README's example of a call is one encryptDescriptor accepts.        *)
ReadmeExampleAccepted ==
  entry = "encryptDescriptor" /\ input = ReadmeUsage /\ outcome # None =>
    outcome.error \in {None, "DiversifierSearchExhausted"}

(* "Input validation failures (wrong-length hex, unknown types, oversized  *)
(* label / mime) raise before the WASM boundary with a message naming the  *)
(* offending field" (index.ts:133-135): a label or mime type over its cap  *)
(* is not left to the core.                                                *)
OversizedRaisesBeforeBoundary ==
  entry = "encryptDescriptor" /\ outcome # None => outcome.error # "Wire"

(* From the same sentence: with a good payload, an error the wrapper       *)
(* raises, for a key of an unknown type among them, names the field.       *)
KeyRefusalsNameTheKey ==
  LET wrapperRefuses == outcome # None /\ outcome.error = "wrapper"
  IN  wrapperRefuses /\ input # None /\ WellFormed(input, "plaintext") =>
        outcome.field # None

(* "Only plain `{}` / `Object.create(null)` objects and arrays are         *)
(* accepted. [...] `Object.prototype` is the only object with a null proto"*)
(* (index.ts:201-205): an object that is encrypted is one of these.        *)
AcceptedObjectsArePlain ==
  pc = <<"core", "run">> /\ input.plaintext.type = "object" =>
    IsPlainOrArray(input.plaintext)
=============================================================================
