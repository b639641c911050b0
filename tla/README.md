# Verification of verusid-cmm-encrypt

TLA+ models of `verusid-cmm-encrypt`, the library that encrypts a payload (and,
optionally, a signature over it) into a Verus identity's content multimap so
that anyone who reads the transaction can decrypt it: model-checked with TLC on
small instances, and proved with TLAPS for every value of the constants.

## The system

| Component | Source | State | Operations |
|---|---|---|---|
| Public API | `rust/src/api.rs` | the locals of one call: ephemeral recipient, pass-1 descriptors, evidence, outer descriptors; the caller's random number generator across calls | `encrypt_public_decrypt`, `find_valid_diversifier`, `encrypt_pass1_cdd`, `build_outer_wrapped_descriptor` |
| Notary evidence | `rust/src/notary_evidence.rs` | `break_apart`'s offset, index and list of chunks | `write_notary_evidence_for_envelope`, `write_notary_evidence_multipart_chunk`, `break_apart` |
| CC script framing | `rust/src/cc_script.rs` | none | `write_push`, `write_v3_opt_cc_params_pk`, `write_eval_notary_evidence_script` |
| Data descriptor | `rust/src/data_descriptor.rs` | the buffer written to | `calc_flags`, `write_data_descriptor`, `wrap_encrypted_with_key` |
| Self-reference, VDXF wrapper | `rust/src/data_ref.rs`, `vdxf.rs` | none | `write_cvdxf_data_ref_self_ref`, `write_cvdxf_data` |
| Wire codec | `rust/src/wire.rs` | a cursor over a buffer | CompactSize, VARINT, var-bytes and limited-string writers and readers |
| Sapling primitives | `rust/src/crypto.rs` | none | `sapling_ka_agree`, `kdf_sapling`, `aead_encrypt`, `aead_decrypt` |
| Ephemeral keys | `rust/src/ephemeral.rs` | the generator | `generate_esk`, `derive_g_d`, `derive_epk` |
| WASM boundary | `wasm/src/lib.rs` | the request under construction | field readers, `encrypt_public_decrypt_js`, mapping of errors and results |
| TypeScript wrapper | `src/index.ts` | the normalised input | `encryptDescriptor`, `normalizePlaintext`, `normalizeTwentyByte`, `toUint8Array` |
| The caller's transaction | not in the repository; what `api.rs` asks of it | the outputs, ours and others | placing the scripts of each call |

How they interact: `encryptDescriptor` normalises its input and calls the WASM
function, which reads the fields again and calls `encrypt_public_decrypt` with
the platform's generator.  A call

1. samples an ivk and, from a bounded number of random diversifiers, a valid
   one: together they are a recipient used for this call only;
2. encrypts the payload to it, then the signature (pass 1);
3. wraps both descriptors and makes them the chain objects of one
   `CNotaryEvidence`, whose output script is built on trial;
4. drops the trial script if it reaches 6000 bytes and lets `break_apart` cut
   the evidence into chunks with a script each;
5. encrypts, again to the same recipient, a pointer to the payload's chain
   object with the caller's label and mime type, and writes the outer
   descriptor with the ivk in the clear;
6. does the same for the signature.

Everything is synchronous.  What carries over from step to step, and from call
to call, is the generator.  The binding of `lib.rs` is exported too, so both it
and `encryptDescriptor` are entry points.  The caller places the returned
scripts, contiguous from the output index it named before the call knew how many
there would be, in a transaction with other outputs and perhaps other
publications.  The reader is the daemon, or anyone with the
transaction: it is not part of the repository, and what it does is taken from
the comments that quote it and from `rust/tests/stage1_decrypt.rs`.

### What is hard

- *Keys.* The AEAD nonce is always zero.  That is sound only if no key is used
  twice, over all passes of all calls, those that fail half-way included.  One
  ivk opens up to four ciphertexts, and must open no other call's.
- *Both sides of the key agreement.*  Writer and reader compute the shared
  secret from different values, with a cofactor on each side.
- *Positions.*  Pointers name chain objects by number; chunks name their place
  by index, total and start.  A reader has nothing else.
- *Boundaries.*  The threshold of the split, the end of the loop, the widths of
  the length prefixes around a margin nothing checks afterwards; caps on label
  and mime type; fields that are absent, empty or present.
- *Partial failure.*  A label over its cap is rejected after most of the work,
  and a descriptor writer that refuses one leaves what it has written in the
  caller's buffer.
- *Publication.*  A script lost, repeated or swapped on its way into the
  transaction, or a neighbour's chunks behind one's own, must not read back as
  another evidence.
- *Three layers of input checks.*  Wrapper, binding and core each refuse some
  values of some fields in an order of their own; keys are reversed in one of
  them only.
- *Termination.*  A retry loop over random values, and the loop of the split.

`PROJECT.json` lists these with their lines under `hazards`.

### What makes each component correct

- *Public API*: what a call returns opens, with the ivk it publishes, to the
  request it got (`RoundTrip`); no key twice (`KeyNeverReused`); a published ivk
  opens nothing of another call (`IvkOpensItsCallOnly`); errors for an oversized
  label or mime type and an exhausted search only (`ErrorsExplained`); nothing in the clear but what flags 5
  and 13 say (`InTheClear`); every call returns (`EveryCallReturns`).
  As a whole a call is a box filled and handed out (`ImplementsSealedBox`).
- *Notary evidence*: the outputs reassemble (`Reassembles`, `Delivers`), no
  script reaches the limit (`ScriptsFit`), no degenerate chunk (`ChunksFull`),
  the list only grows at its end (`OnlyAppends`).  In a transaction with other
  outputs, a publication left in place reads back (`PlacedReadsBack`) and no part
  of one passes for an evidence (`NoPartPasses`).
- *Wire codec*: readers invert writers (`ReadsBack`), accept nothing else
  (`NoOtherEncoding`) and notice every cut (`TruncationNoticed`).
- *Data descriptor*: several descriptors in one buffer read back, each in its
  canonical form (`ReadsBackCanonical`); what a failed write leaves is noticed
  (`LeftoverNoticed`); the caps hold (`ErrorsExplained`).
- *WASM boundary, TypeScript wrapper*: a call is refused exactly when a field is
  outside its documented type or range, and the error names such a field
  (`RefusesExactlyTheFaulty`).  Three exceptions are part of the statement: a
  payload that merely passes for a plain object is not refused; the core's error
  names a cap instead of a field, and is given only when label and mime type
  alone are to blame; what JavaScript throws by itself, on a null key or in
  `JSON.stringify`, names nothing.  Otherwise the call answers what the caller
  meant, with all the core returned, each script and key in its place
  (`AnswersTheRequest`).

## Modules

| Module | Models | |
|---|---|---|
| `Framing` | the length of every serialization (`wire`, `cc_script`, `vdxf`, `notary_evidence`) | operators |
| `BreakApart` | the trial script, the threshold and the loop of `break_apart`, one action per turn | state machine, composed by three others |
| `EvidenceChannel` | what the split promises: an evidence goes in, the same evidence comes out | abstract specification |
| `DataDeposit` | `BreakApart` fed with evidences, with the daemon's reassembly as refinement mapping (`ReadBack`) | implements `EvidenceChannel` |
| `Publication` | `BreakApart` call after call, the caller's transaction with its slips, the reader that walks it | composes `BreakApart` |
| `Sapling` | the group of prime order, key agreement, KDF and AEAD | operators |
| `Descriptor` | flags, caps and contents of a `CDataDescriptor`, its wrappers and pointers, as records | operators |
| `Envelope` | `encrypt_public_decrypt`, call after call | composes `BreakApart`, `Sapling`, `Descriptor` |
| `SealedBox` | what a call promises: its request, readable, or one of two errors | abstract specification |
| `EnvelopeRefinement` | a reader's way through a result, as refinement mapping | `Envelope` implements `SealedBox` |
| `Encoding` | CompactSize, VARINT and var-bytes, byte by byte | operators |
| `WireCodec` | a writer, a medium that cuts or changes bytes, a reader with a cursor | state machine over `Encoding` |
| `DescriptorBytes` | `write_data_descriptor` and `wrap_encrypted_with_key` field by field, several in one buffer, and a reader that follows the flags | state machine over `Encoding` |
| `Wrapper` | `encryptDescriptor` and the binding, field by field, for every kind of JavaScript value | state machine over `Descriptor` |
| `Option` | the `None` of optional fields | |
| `MCDataDeposit`, `MCPublication`, `MCEnvelope`, `MCWireCodec`, `MCDescriptorBytes`, `MCWrapper` | evidence lengths, requests, fields, descriptors and arguments for TLC | |
| `BreakApartProofs`, `DataDepositProofs`, `PublicationProofs`, `EnvelopeProofs`, `WireCodecProofs`, `DescriptorBytesProofs`, `WrapperProofs` | theorems about the module of that name; those of `EnvelopeProofs` include the refinement | |
| `EncodingProofs` | what these rest on: induction over sets of numbers and the existence of recursive functions; both integer encodings; fields joined into one buffer | |

State and code.  `WireCodec`'s `buf` and `cursor` are the buffer and cursor the
functions of `wire.rs` share, `acc` is `read_varint_u64`'s `n`, with one action
per turn of its loop; `status` holds the `WireError` of a reader.

In `DescriptorBytes`, `buf` is the buffer `write_data_descriptor` appends to and
`written` what was asked of it; the reader keeps the descriptor it is in
(`part`), the field its flags may announce next (`place`) and the end its wrapper
states (`end`).  `Pieces` are the fields `write_data_descriptor` writes behind
the flags, up to the `?` that ends it.

`Wrapper`'s `pc` names the layer and the field it is about to look at: the
statements of `encryptDescriptor`, then `encrypt_public_decrypt_js`, in source
order.  `request` is the object that crosses the boundary, `core` the
`EncryptRequest` being built from it.  `result` is the core's `EncryptResult`
with its six fields, `scripts` the array the binding's loop fills
(`PushScript`, one action per turn); `Built` is the object of `Uint8Array`s the
binding returns and `Copied` the one of `Buffer`s `encryptDescriptor` makes of
it.

`Publication`'s `published` remembers, per call, the index the caller named and
the scripts it got; `tx` is the transaction.  Placing is one action, since the
caller appends a list it has; `Lose`, `Repeat`, `Swap` and an output added
between a call and its `Place` are what may go wrong.

`Envelope`'s `pc` is the place in `encrypt_public_decrypt`;
`ivk`, `diversifier`, `pkd`, `pass1`, `evidence` and `cmm` are its locals
(`evidence` the entries of `notary_evidence_bytes`, `cmm` the descriptors in
`cmm_value`); `tries` is the counter of the search; `draws` is how far the
generator has come; `encryptions` is a history of the AEAD calls; `phase`,
`total`, `offset`, `index` and `out` belong to `BreakApart` and are the trial
script's fate and the locals of `break_apart`.  An early return is a disjunct of
the step it leaves.

Abstractions.  Outside `Encoding` and its two users bytes are left out: a byte string is its content's name and its
length, a serialization is the record a reader would get, with its exact length
computed by `Framing`.  Scalars are numbers modulo `Q`, a point is a multiple of
the base point its diversifier hashes to, and distinct diversifiers have
unrelated base points.  The KDF is injective and a ciphertext opens under its
own key only.  The generator is a stream of distinct scalars (a repetition among
252-bit scalars is not a behaviour worth checking), while the diversifiers it
yields are arbitrary, valid or not.  `system_id` and the fixed bytes of the
headers count with their lengths only.  In `Publication` ciphertexts are left
out: chunks of several calls that happen to fit together are not a payload
anyone's ivk opens, so `NoPartPasses` speaks of one call's outputs.  A
JavaScript value in `Wrapper` is a record of its type and of what the code can
ask of it: for an object the kind of its prototype, where a `toJSON` comes from
and what `JSON.stringify` makes of it.  `root` is the prototype of objects that
inherit from one made with `Object.create(null)`: the code cannot tell it from
the `Object.prototype` of another realm.  What the core returns is opaque in
`Wrapper`: its entry stands for the request it was given (`RoundTrip` says more),
a script for its place among the outputs.  A lone surrogate, which `TextEncoder` replaces,
is not modelled: a string and its UTF-8 text are one value.

## Runs

| Run | Question | Instance |
|---|---|---|
| `wire` | does every field read back, and nothing but what a writer wrote? | two fields, of ten CompactSize and ten VARINT values on both sides of every change of form, of `MaxSize` and of the greatest word; every cut, every change of one byte |
| `deposit` | does the split lose, repeat or misplace a byte, or exceed the limit? | the code's limit 6000 and margin 128; evidence lengths around the threshold, the multiples of the chunk size and the widths of the prefixes |
| `one_call` | does what a call publishes open to its request, does it fail for two reasons only, and is it a sealed box? | 288 requests: six payload sizes on both sides of one, two and three outputs, signature absent, empty, present; label and mime type absent, empty, at the cap, over it; two valid diversifiers and one invalid, budget 2 |
| `many_calls` | are keys ever reused, does an ivk open another call, does every call return? | eleven scalars: two full calls with a signature behind one that fails early, or more calls that fail; three kinds of request, one rejected for its label after it was split; budget 1 |
| `publication` | does a publication read back from a transaction, and nothing else? | two calls of one output, two, or three of which the last is full; one other output; three slips: 310 730 states |
| `descriptor` | does every descriptor read back, and what becomes of a failed write? | two descriptors in a buffer, bare and wrapped, each field absent, empty, present, at and over its cap, alone and with all others; every cut |
| `wrapper` | which inputs are refused, by whom, and what becomes of the others? | both entry points; arguments that differ in any two fields from an accepted one, seventeen values of each key field, numbers and fractions around 0 and `u32::MAX`; up to three scripts returned: 39 533 states |
| `doc_cofactor`, `doc_readme_example`, `doc_oversized_label`, `doc_null_key`, `doc_plain_objects` | five statements of docs and comments the code does not keep (see Findings) | |

The bounds.  `MaxScript`, `SafetyMargin` and the caps are the code's own.  A
retry budget of 1 or 2 instead of 64 has all its cases: success at once, after a
failure, exhaustion.  `Q = 23` is large enough for eleven
distinct nonzero scalars and small enough that wrapped products occur.  Two
valid diversifiers are enough for two calls to agree or differ on theirs.
`Stream` ends after 5 or 11 scalars and `Call` is disabled when a whole call
might not fit (`DrawsPerCall`), which is why these runs do not check deadlock:
the system stops only between calls.  In `Publication` a third call would be
placed as the second is, behind outputs of the first; three slips are enough to
move a chunk of each call and an output of another kind.  Its bounds run out,
`DescriptorBytes` and `WireCodec` end when the reader is done, and a behaviour
of `Wrapper` is one call (nothing is kept between two), so none of these checks
deadlock.  `deposit` does.  In
`WireCodec` a byte has three bits, a VARINT digit two and a word 21: as with the
code's 8, 7 and 64 the greatest word does not fill its last digit, and
`MaxSize` lies inside the four-byte form.  `DescriptorBytes` has the same bytes
and a `MaxSize` of 100, more than any of its descriptors: the writers do not
look at it, and what a reader makes of a longer string `WireCodec` says;
keys have two of them and the caps are 5 and 6, so that a label at its cap takes
the longer length prefix.  `Wrapper` keeps 20-byte keys and the real caps and
has 255 for `u32::MAX`; numbers are counted in halves so that fractions exist;
with `MaxScripts` at 3 the loop over the scripts has a first, a middle and a last
turn.
Nothing is symmetric under permutation of requests,
and the state spaces are small enough without symmetry.

Fairness.  `Spec` of `Envelope` assumes weak fairness of `Step`, the steps of a
call under way: the function is synchronous, and the thread that entered it
runs it to its end.  There is none on `Call`; callers may stop.  `DataDeposit`
assumes the same of `Work`, and `Delivers` includes the fairness of
`EvidenceChannel`: every evidence begun is delivered.  `ImplementsSealedBox` is
the safety part of `SealedBox`; that a call answers is `EveryCallReturns`, which
says it without `ENABLED`.  `Publication`, `WireCodec`, `DescriptorBytes` and
`Wrapper` state no fairness: their callers owe nobody a next step.

Every property is paired with a mutant in `PROJECT.json`: a plausible slip in
the modelled code (a forgotten margin, a start that counts chunks, a scalar
drawn once for two passes, a search that starts over, ...) that makes TLC find it
violated.

## Proofs

| Theorem | States | From |
|---|---|---|
| `DataDepositProofs!DepositTypeCorrect` | types of the split | `DepositInv` |
| `DataDepositProofs!EvidenceReassembles` | `Reassembles` for evidences of every length | `DepositInv` |
| `DataDepositProofs!NoScriptTooLong` | `ScriptsFit` | `DepositInv` |
| `DataDepositProofs!NoDegenerateSplit` | `ChunksFull` | `DepositInv` |
| `DataDepositProofs!PushedOutputsStay` | `OnlyAppends`: also the number of outputs | `DepositInv`, `CountInv` |
| `DataDepositProofs!DepositIsChannel` | the safety part of `Delivers`: `DataDeposit` implements `EvidenceChannel`, step by step | `DepositInv` |
| `PublicationProofs!PublicationTypeCorrect` | `TypeOK` of `Publication` | `PublicationInv` |
| `PublicationProofs!PublishedReadsBack` | `PlacedReadsBack` for any number of calls, other outputs and slips | `PublicationInv` |
| `PublicationProofs!NoPartEverPasses` | `NoPartPasses`, likewise | `PublicationInv` |
| `EnvelopeProofs!EnvelopeTypeCorrect` | `TypeOK` of `Envelope` | `Inv` |
| `EnvelopeProofs!ZeroNonceIsSafe` | `KeyNeverReused` | `Inv` |
| `EnvelopeProofs!EnvelopeDeposits` | the split's three properties inside a call | `Inv` |
| `EnvelopeProofs!NothingElseInTheClear` | `InTheClear` | `Inv`, itself |
| `EnvelopeProofs!OnlyExplainedErrors` | `ErrorsExplained` | `Inv`, `ErrorsInv` |
| `EnvelopeProofs!PublishedOpens` | `RoundTrip` for every request, group order and stream | `Inv`, `OpensInv` |
| `EnvelopeProofs!IvkOpensNoOtherCall` | `IvkOpensItsCallOnly` over any number of calls | `Inv`, `OpensInv`, `HistoryInv` |
| `EnvelopeProofs!EnvelopeIsSealedBox` | `ImplementsSealedBox`: the refinement, step by step | all of these, `AnswerInv` |
| `WireCodecProofs!WireTypeCorrect` | `TypeOK` of `WireCodec`, for every radix, word, `MaxSize`, set of fields and buffer | `WireInv` |
| `WireCodecProofs!WhatIsWrittenIsRead` | `ReadsBack`, likewise | `WireInv` |
| `WireCodecProofs!EncodingIsUnique` | `NoOtherEncoding`, likewise | `WireInv` |
| `WireCodecProofs!TruncationIsNoticed` | `TruncationNoticed`, likewise | `WireInv` |
| `DescriptorBytesProofs!DescriptorTypeCorrect` | `TypeOK` of `DescriptorBytes`, for every set of descriptors, all caps and any number of writes | `Inv` |
| `DescriptorBytesProofs!AcceptedReadsBack` | `ReadsBackCanonical`, likewise | `Inv` |
| `DescriptorBytesProofs!LeftoverIsNoticed` | `LeftoverNoticed`, likewise | `Inv` |
| `WrapperProofs!WrapperTypeCorrect` | `TypeOK` of `Wrapper`, for every set of arguments | `WrapperInv` |
| `WrapperProofs!ReturnsWhatWasMeant` | `AnswersTheRequest`, likewise | `WrapperInv` |
| `WrapperProofs!ExactlyTheFaultyAreRefused` | `RefusesExactlyTheFaulty`, likewise | `WrapperInv` |

Assumptions.  `DepositAssumption`: the margin is above 41 bytes (the most a
multipart wrapper can add to an empty evidence; the code's is 128), a chunk has
room, and the limit is within 64 KiB.  `SaplingAssumption`: `Q > 1`, `None` is
no value.  `PrimeOrderAssumption`: `Q` exceeds the cofactor 8 and no product of
two nonzero scalars is 0 modulo `Q`, which is what the prime order of the
Jubjub subgroup gives.  `EnvelopeAssumption`: the generator repeats no scalar,
requests are of their type.  `NonzeroAssumption`: it yields no zero scalar (a
zero esk makes a shared secret every ivk computes; `Fr::random` yields one with
probability 2^-252).  `TextAssumption`, `AnswerAssumption`: `None` is no text,
request or answer.  `PublicationAssumption`: the bounds are numbers.
`EncodingAssumption`: a VARINT digit has at least two values and a word more
than four bytes (the code: 128 and 8).  `WireAssumption`: `MaxSize` and the
fields' values fit the word.  `DescriptorAssumption`: the fields of a
descriptor are byte strings a reader takes (at most `MaxSize` long), its version
fits the word, and a key's length fits a byte.  `SizeAssumption`: a whole
descriptor, which a wrapper holds as one byte string, is no longer; the code
writes longer ones too, and nothing is claimed of those.  `NoneAssumption`:
`None` is no number, byte string or descriptor.  `WrapperAssumption`: key length, `u32::MAX` and `MaxScripts` are
numbers, `None` is no number and no layer.  `InputsAssumption`: an argument has
the seven fields (one that is a number, say, has them undefined), an object the
prototypes and the places of a `toJSON` that the code tells apart, and a string
has a UTF-8 text of some length.  TLC evaluates each of them on the runs of the modules that state it.

Arguments.  `BreakApartProofs` first bounds each length function of `Framing`: a VARINT takes at most
ten bytes, a push adds at most three to a script below 64 KiB, so a chunk's
script is at most the chunk's length plus 189 bytes, while the code reserves
148 and the margin.  It then strengthens the three properties by
`LoopInv` (a split was necessary, the offset is inside the evidence, after one
chunk at most one chunk's length is gone) and proves the conjunction,
`DepositInv`, action by action, so that `DataDeposit` and `Envelope` cite the
same lemmas.  `EnvelopeProofs` adds what a step may rely on (`CallInv`: request,
recipient, scalars still reserved) and the reason keys differ (`FreshInv`): the
multiple of an epk is the scalar it was made from, every encryption has a scalar
of the stream of its own, so equal keys are one encryption.  `ErrorsInv` adds
that a call past its payload's outer descriptor has met no oversized field; with
it the label and mime type of the signature, which the code fixes, cannot fail.

`CountInv` says that every turn of `break_apart` but the last has taken a whole
chunk, so that the turns can be counted.  In `PublicationProofs`, `AsReturned`
describes the outputs of a call that has returned: contiguous, complete, and
each chunk starting below the total.  A run of outputs a reader takes for
complete begins at index 0 and counts up; if all are of one call, they are that
call's in order, and since no proper prefix of those reaches the total, they are
all of them.  `Legal` says that slips only move outputs about.

For the round trip, `EnvelopeProofs` shows that a factor may be reduced before or
after a multiplication (`MulMod`), hence that the writer's esk on pk_d and the
reader's ivk on epk meet in one secret (`SecretsMeet`), each side with its own
factor 8.  `ProgressInv` then carries "what has been sealed so far opens" from
step to step to the call's return.  For the converse, `Cancel` uses the prime
order: equal secrets over one nonzero scalar have one ivk (`SecretTellsIvk`),
whatever the diversifiers.  `HistoryInv` adds that every scalar used so far, for
ivks too, was drawn at a place of its own, so no ivk is another call's.
The refinement needs nothing new about the steps but that an answer
stays until the next call (`AnswerInv`): a step inside a call leaves a reader
with `None`, and the one that returns is `SealedBox`'s `Answer` because
`RoundTrip` and `ErrorsExplained` hold where it ends.

Where a definition recurses over data (`ReadBack` over the outputs, the
encodings over digits, `FlattenSeq` over fields), `EncodingProofs` supplies what the
library's theorems, which take a predicate as parameter, cannot here: a set of
naturals has a least element (from the well-foundedness of strict inclusion on
finite sets), so a set with 0 and all its successors is `Nat` (`SetInduction`),
and a recursive definition has a function that satisfies it (`RecursiveFunction`,
`RecursiveSequence`).  A proof by induction on P is then one about the set of
numbers with P.  The powers in `Encoding` are recursive functions for the same
reason: the provers know nothing of `^`.  `ReadBackWhole` shows that on a
complete run of chunks a daemon's count of the bytes it has agrees with each
chunk's `start`, so its reassembly yields the evidence; before the last chunk
the last `start + length` falls short of the total and it yields nothing.  This
is `DepositIsChannel`.

`EncodingProofs` shows that `LeBytes` and `LeValue` are inverse both ways, that
a CompactSize form is determined by its value (`CompactReadsBack`) and a value
that passes the reader's test by its form (`CompactCanonical`), and, for VARINT,
that the loop of `write_varint_u64` ends within `TmpSize` turns and that its
bytes satisfy a recursion from the other end: those of `n` are those of
`n \div Base - 1`, each marked, and the digit `n % Base` (`MoreDigits`).  That
recursion is the reader's.  `NextDigit` adds the two overflow tests of
`read_varint_u64`: they keep the word in range because the word size is a
multiple of the digit's.  `WireInv` then says of every state that the bytes
before the cursor are the encodings of the values read, followed by the marked
digits of the VARINT begun (`SameBytes`: `NoOtherEncoding` for readers that are
not at a boundary between fields), and, unless a byte was changed, that the
values are those written and the reader's word is what the writer's loop held
before the digits still to come (`SameValues`).  Neither property is inductive
without the second half: a reader inside a VARINT must know what is to come.

In `DescriptorBytesProofs` a descriptor has a code: its preamble (empty if bare),
its head and its pieces.  `BufferInv` says that the buffer is a prefix of the
codes of all descriptors that left something, a proper one only if it was cut.
`PlaceInv` is why the properties are not inductive on their own: as long as the
reader has read no more descriptors than were undisturbed by a failed write, it
stands at the start of a code (`Start`), behind a preamble (`InWrapper`), or
before field `place` of the code it is in, with what it has read so far being
the canonical descriptor up to that field (`AtField`).  A descriptor whose write
failed has fewer pieces than fields, and once the reader is past the last of them
nothing is claimed, unless that code is the last: then the buffer ends there, and
since the flags announce the field that was not written, the reader finds nothing
and refuses (`FieldAtEnd`, `NextField`).  `VarIntHeld`, `CompactHeld` and
`VarBytesHeld` are what reading at an offset yields when the buffer holds that
encoding there, whole or cut; they use `VarIntReadsBack`, `CompactReadsBack` and
`JoinedPlaces` of `EncodingProofs`.  `Accepted` and `VarIntValue` are folds
written as recursive functions, so that they have the equations a proof needs.

`WrapperInv` says for every place of `pc` which fields have been normalised and
which the binding has read; `request` and `core` are then functions of the
place and the argument, so that each step adds one field, and the properties are
read off at the places where a call ends.  Behind the core, `Answered` says that
no field is faulty but an overlooked payload, that the core's entry is what was
meant, and that the scripts copied so far are the first ones, in order; with the
loop's exit (`AllPushed`) they are all of them.  A refusal carries its own
reason (`Refusal`): some field is faulty and not overlooked, and the error names
one that is or is one of the two that name none.

Model-checked only: liveness (`EveryCallReturns`, and that of `Delivers`), which
needs fairness and `ENABLED`.

## Findings

Each of these has a run that ends in the counterexample.

- `README.md:38` calls `encryptDescriptor` with an `outerVdxfKey` of 64 hex
  digits; `normalizeTwentyByte` accepts 40, so the example throws
  (`doc_readme_example`).
- `index.ts:133-135` promises that an oversized label or mime type raises before
  the WASM boundary, naming the field; `encryptDescriptor` passes both on
  unchecked and the core raises it, naming a cap, as `index.ts:56-57` says
  (`doc_oversized_label`).
- The same lines promise a message naming the offending field; for an
  `outerVdxfKey` or `systemId` that is null or undefined, the caller gets the
  runtime's `TypeError` for reading its length (`index.ts:261`), which names
  neither (`doc_null_key`).
- `index.ts:201-205` says that only plain objects, `Object.create(null)` objects
  and arrays are accepted, since `Object.prototype` is the only object without a
  prototype.  It is not: an object that inherits from one a program made with
  `Object.create(null)` passes the test (`index.ts:210`) and is encrypted
  (`doc_plain_objects`).
- `crypto.rs:64-66` calls the cofactor a no-op on the encrypt side; it is not,
  and leaving it out on one side would make every descriptor unreadable
  (`doc_cofactor`).

Remarks met on the way, without a run:

- `api.rs:169-171` counts two ephemeral secret keys, "one per AEAD pass"; a call
  with a signature draws four, one for each pass-1 descriptor (`api.rs:194`,
  `203`) and for each outer one (`269`, `296`).
- `api.rs:12-14` says outputs *larger than* 6000 bytes are split; the code
  splits one of exactly 6000 (`api.rs:237`).
- `data_descriptor.rs:51-52` calls `vdxf_key` present when "non-null"; the flag is
  set for any `Some`, a key of zeros included.  `DescriptorBytes` follows the
  code.
- `README.md:11-12` promises payloads of arbitrary size; a length above
  `MAX_SIZE` (32 MiB) is written and refused by the readers (`ReadsBack` states
  that this is the only refusal).
- `api.rs:135-138` documents the error `Ephemeral` as a sampled diversifier that
  failed `group_hash`, "extremely rare".  It cannot occur: the search tries again
  on such a diversifier and has a variant of its own for giving up
  (`DiversifierSearchExhausted`), and `derive_epk` is only given one the search
  has accepted.  `ErrorsExplained` and its theorem say so.
- `index.ts:133-135` counts unknown types among what raises before the boundary,
  naming the field.  A label, mime type or index of a wrong type and an array of
  20 elements as a key pass `encryptDescriptor` and are refused by the binding,
  which names the field; what `JSON.stringify` throws on a cycle or a `BigInt`
  names none.
- `RoundTrip` sees a cofactor dropped on one side of the key agreement.  Dropped
  in `sapling_ka_agree`, which both sides of this library share, it would alter
  both, and only the daemon's reader would notice.
- The guard of `index.ts:219` is for an own `toJSON`, as its comment says; an
  inherited one is called by `JSON.stringify`, and `AnswersTheRequest` takes its
  value for what the caller meant.
- After a bare write has failed, a caller that goes on to append another
  descriptor may produce a buffer that reads as something neither write meant;
  `LeftoverNoticed` is for the caller that stops.  No caller in the repository
  goes on.

## Plan

Written in this order, the most important behaviour first; all of it is here.

1. `Framing`, `BreakApart`, `EvidenceChannel`, `DataDeposit` with proofs.
2. `Sapling`, `Descriptor`, `Envelope` with `one_call` and `many_calls`.
3. `EnvelopeProofs`: types, no key reuse.
4. Errors and fields in the clear, in `EnvelopeProofs`.
5. `WireCodec`: CompactSize and VARINT at the level of bytes.
6. `DescriptorBytes`: the writer field by field, the buffer an error leaves, the
   reader that follows the flags.
7. `Publication` and its proofs: the caller's transaction and its reader.
8. `SealedBox` and the refinement.
9. `Wrapper`: `index.ts` over `lib.rs` over the core.
10. Key agreement, round trip, ivks of other calls and the refinement, in
    `EnvelopeProofs`.
11. `WrapperProofs`; the refinement of `EvidenceChannel`.
12. `EncodingProofs`, `WireCodecProofs`.
13. `DescriptorBytesProofs`: what stands at an offset of a buffer, then the
    reader's place in the descriptor it is in.

What could come next: lone surrogates in strings.

Not modelled: the byte layouts of constants and headers (their tests pin them
against the daemon's bytes), `group_hash`, BLAKE2 and ChaCha20Poly1305
themselves, the examples, and everything under `dist/`, the compiled copy of
`src/index.ts` and of the crates (generated).
