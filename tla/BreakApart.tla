----------------------------- MODULE BreakApart -----------------------------
(***************************************************************************)
(* How one serialized CNotaryEvidence of `total' bytes becomes the scripts *)
(* of one or more data-deposit outputs: encrypt_public_decrypt's threshold *)
(* (api.rs step 4) and the loop of break_apart (notary_evidence.rs).       *)
(*                                                                         *)
(* A chunk is the slice [from, to) of the evidence it carries together     *)
(* with the index, total_length and start its MultiPartDescriptor states:  *)
(* a reader has only the latter to put the former back in place.           *)
(***************************************************************************)
EXTENDS Framing, Sequences

CONSTANTS
  MaxScript,      \* MAX_SCRIPT_ELEMENT_SIZE, 6000 in the code
  SafetyMargin    \* BREAK_APART_SAFETY_MARGIN, 128 in the code

(* The part of the limit left to a chunk's payload.  A mutant forgets the  *)
(* margin.                                                                 *)
BaseOverheadNoMargin == ScriptLen(EmptyEvidenceLen)
BaseOverhead == ScriptLen(EmptyEvidenceLen) + SafetyMargin
MaxChunk     == MaxScript - BaseOverhead

(* The margin covers what a multipart wrapper adds to an empty evidence,   *)
(* a chunk's worth of room is left, and a script's own pushes need no      *)
(* OP_PUSHDATA4.                                                           *)
ASSUME DepositAssumption ==
  /\ MaxScript \in Nat /\ SafetyMargin \in Nat
  /\ SafetyMargin > 41
  /\ MaxChunk > 0
  /\ MaxScript <= 65535

VARIABLES
  phase,    \* "idle", "trial", "split" while break_apart runs, "done"
  total,    \* bytes of the serialized CNotaryEvidence
  offset,   \* break_apart's offset
  index,    \* break_apart's index
  out       \* the scripts pushed so far

depositVars == <<phase, total, offset, index, out>>

-----------------------------------------------------------------------------
WholeScript(n) ==
  [kind |-> "whole", index |-> 0, total |-> n, start |-> 0,
   from |-> 0, to |-> n, len |-> ScriptLen(n)]

(* Mutants: the descriptor's start counts chunks, not bytes; it is that of *)
(* the chunk before; its total is the bytes so far.                        *)
ChunkScriptTotalSoFar(i, n, start, from, to) ==
  [kind |-> "multipart", index |-> i, total |-> to, start |-> start,
   from |-> from, to |-> to,
   len |-> ScriptLen(MultipartEvidenceLen(i, n, start, to - from))]

ChunkScriptCountsChunks(i, n, start, from, to) ==
  [kind |-> "multipart", index |-> i, total |-> n, start |-> i,
   from |-> from, to |-> to,
   len |-> ScriptLen(MultipartEvidenceLen(i, n, start, to - from))]

ChunkScriptStartsBefore(i, n, start, from, to) ==
  [kind |-> "multipart", index |-> i, total |-> n, start |-> start - MaxChunk,
   from |-> from, to |-> to,
   len |-> ScriptLen(MultipartEvidenceLen(i, n, start, to - from))]

ChunkScript(i, n, start, from, to) ==
  [kind |-> "multipart", index |-> i, total |-> n, start |-> start,
   from |-> from, to |-> to,
   len |-> ScriptLen(MultipartEvidenceLen(i, n, start, to - from))]

NeedsSplit(n) == ScriptLen(n) >= MaxScript

DepositInit ==
  /\ phase = "idle" /\ out = <<>>
  /\ total = 0 /\ offset = 0 /\ index = 0

(* An evidence of n bytes is serialized and its trial script built.        *)
BuildTrial(n) ==
  /\ phase \in {"idle", "done"}
  /\ phase' = "trial" /\ total' = n
  /\ offset' = 0 /\ index' = 0 /\ out' = <<>>

(* The trial script is short enough and is the only output.                *)
KeepTrial ==
  /\ phase = "trial" /\ ~NeedsSplit(total)
  /\ phase' = "done"
  /\ out' = <<WholeScript(total)>>
  /\ UNCHANGED <<total, offset, index>>

(* The trial script is dropped and break_apart is entered.                 *)
BeginSplit ==
  /\ phase = "trial" /\ NeedsSplit(total)
  /\ phase' = "split"
  /\ UNCHANGED <<total, offset, index, out>>

(* A mutant lets the last chunk run past the end.                          *)
ChunkEndUnclamped == offset + MaxChunk

ChunkEnd == IF offset + MaxChunk < total THEN offset + MaxChunk ELSE total

(* Mutants: one turn too many; the new chunk goes before the others; the   *)
(* index is not counted.                                                   *)
AppendChunkUncounted ==
  /\ phase = "split" /\ offset < total
  /\ out' = Append(out, ChunkScript(index, total, offset, offset, ChunkEnd))
  /\ offset' = ChunkEnd
  /\ UNCHANGED <<phase, total, index>>

AppendChunkOnceMore ==
  /\ phase = "split" /\ offset <= total
  /\ out' = Append(out, ChunkScript(index, total, offset, offset, ChunkEnd))
  /\ offset' = ChunkEnd
  /\ index' = index + 1
  /\ UNCHANGED <<phase, total>>

PrependChunk ==
  /\ phase = "split" /\ offset < total
  /\ out' = <<ChunkScript(index, total, offset, offset, ChunkEnd)>> \o out
  /\ offset' = ChunkEnd
  /\ index' = index + 1
  /\ UNCHANGED <<phase, total>>

(* One turn of break_apart's loop.                                         *)
AppendChunk ==
  /\ phase = "split" /\ offset < total
  /\ out' = Append(out, ChunkScript(index, total, offset, offset, ChunkEnd))
  /\ offset' = ChunkEnd
  /\ index' = index + 1
  /\ UNCHANGED <<phase, total>>

FinishSplit ==
  /\ phase = "split" /\ offset >= total
  /\ phase' = "done"
  /\ UNCHANGED <<total, offset, index, out>>

-----------------------------------------------------------------------------
Output == [kind : {"whole", "multipart"}, index : Nat, total : Nat,
           start : Nat, from : Nat, to : Nat, len : Nat]

DepositTypeOK ==
  /\ phase \in {"idle", "trial", "split", "done"}
  /\ total \in Nat /\ offset \in Nat /\ index \in Nat
  /\ out \in Seq(Output)

(* What the daemon requires of the outputs it reassembles, as              *)
(* MultiPartDescriptor's comments quote it: indices count up from 0, every *)
(* chunk states the same total, and each states a start equal to the bytes *)
(* already received.                                                       *)
Contiguous(scripts, n) ==
  /\ \A i \in DOMAIN scripts : scripts[i].index = i - 1 /\ scripts[i].total = n
  /\ Len(scripts) > 0 => scripts[1].start = 0
  /\ \A i \in 1..Len(scripts) - 1 :
       scripts[i + 1].start = scripts[i].start + (scripts[i].to - scripts[i].from)

(* The slice a chunk carries is the one its descriptor announces.          *)
Honest(scripts) ==
  \A i \in DOMAIN scripts : scripts[i].from = scripts[i].start

Received(scripts) ==
  IF scripts = <<>> THEN 0
  ELSE scripts[Len(scripts)].start
       + (scripts[Len(scripts)].to - scripts[Len(scripts)].from)

(* A reader that follows the descriptors gets the n bytes back: no byte is *)
(* missing, repeated or out of place.                                      *)
Readable(scripts, n) ==
  /\ Contiguous(scripts, n) /\ Honest(scripts)
  /\ Received(scripts) = n

(* While break_apart runs, the outputs pushed so far are a readable prefix *)
(* of the evidence that ends at `offset' (break_apart's loop); once it has *)
(* returned they are the whole of it.                                      *)
Reassembles ==
  /\ phase = "split" =>
       /\ Contiguous(out, total) /\ Honest(out)
       /\ Received(out) = offset /\ index = Len(out)
  /\ phase = "done" => Readable(out, total)

(* No output script reaches MAX_SCRIPT_ELEMENT_SIZE: neither the trial     *)
(* script nor any chunk's, whatever the widths of its VARINTs and          *)
(* CompactSizes, since nothing measures a chunk's script after it is built *)
(* (api.rs step 4).                                                        *)
ScriptsFit == \A i \in DOMAIN out : out[i].len < MaxScript

(* break_apart fills every chunk but the last and never emits an empty     *)
(* one, and a split always yields at least two outputs: the daemon would   *)
(* otherwise be handed a multipart evidence with a single part.            *)
ChunksFull ==
  /\ \A i \in DOMAIN out : out[i].kind = "multipart" =>
       /\ out[i].to > out[i].from
       /\ out[i].to < out[i].total => out[i].to - out[i].from = MaxChunk
  /\ phase = "done" /\ Len(out) < 2 => \A i \in DOMAIN out : out[i].kind = "whole"
=============================================================================
