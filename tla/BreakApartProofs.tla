-------------------------- MODULE BreakApartProofs --------------------------
(***************************************************************************)
(* The steps that turn an evidence into output scripts preserve an         *)
(* inductive invariant that implies Reassembles, ScriptsFit and            *)
(* ChunksFull.  The lemmas are about single actions, so that both          *)
(* DataDeposit and Envelope, which interleaves the actions with others,    *)
(* can cite them.                                                          *)
(***************************************************************************)
EXTENDS BreakApart, FiniteSetTheorems, TLAPS

(* First, bounds on the lengths of Framing, for every size.                *)

(* A VARINT takes at least one byte and never outgrows the ten-byte buffer *)
(* of write_varint_u64.                                                    *)
LEMMA VarIntLenBounds ==
  ASSUME NEW n \in Nat
  PROVE  VarIntLen(n) \in 1..10
<1>1. CASE n <= 127
  BY <1>1 DEF VarIntLen
<1>2. CASE ~(n <= 127)
  <2> DEFINE rest == CHOOSE f :
                       f = [k \in 0..9 |-> IF k = 0 THEN n
                                           ELSE f[k - 1] \div 128 - 1]
             turns == {k \in 2..9 : rest[k] >= 0}
  <2>1. VarIntLen(n) = 2 + Cardinality(turns)
    BY <1>2 DEF VarIntLen
  <2>2. IsFiniteSet(2..9) /\ Cardinality(2..9) = 8
    <3>1. 2 \in Int /\ 9 \in Int
      OBVIOUS
    <3>2. /\ IsFiniteSet(2..9)
          /\ Cardinality(2..9) = IF 2 > 9 THEN 0 ELSE 9 - 2 + 1
      BY <3>1, FS_Interval, Zenon
    <3> QED
      BY <3>2
  <2>3. Cardinality(turns) \in 0..8
    <3>1. turns \subseteq 2..9
      OBVIOUS
    <3>2. IsFiniteSet(turns) /\ Cardinality(turns) <= 8
      BY <2>2, <3>1, FS_Subset
    <3>3. Cardinality(turns) \in Nat
      BY <3>2, FS_CardinalityType
    <3> HIDE DEF turns
    <3> QED
      BY <3>2, <3>3
  <2> HIDE DEF turns
  <2> QED
    BY <2>1, <2>3
<1> QED
  BY <1>1, <1>2

(* A CompactSize adds one byte to a short string, three up to 64 KiB.      *)
LEMMA CompactSizeLenBounds ==
  ASSUME NEW n \in Nat
  PROVE  /\ CompactSizeLen(n) \in 1..9
         /\ n <= 65535 => CompactSizeLen(n) <= 3
BY DEF CompactSizeLen

(* A script push adds a prefix of one to five bytes, three up to 64 KiB.   *)
LEMMA PushLenBounds ==
  ASSUME NEW n \in Nat
  PROVE  /\ PushLen(n) \in Nat
         /\ n + 1 <= PushLen(n) /\ PushLen(n) <= n + 5
         /\ n <= 65535 => PushLen(n) <= n + 3
BY DEF PushLen

(* What the script of an n-byte evidence adds to it: between 83 and 91     *)
(* bytes, at most 87 while both pushes stay below OP_PUSHDATA4.            *)
LEMMA ScriptLenBounds ==
  ASSUME NEW n \in Nat
  PROVE  /\ ScriptLen(n) \in Nat
         /\ n + 83 <= ScriptLen(n) /\ ScriptLen(n) <= n + 91
         /\ n <= 65493 => ScriptLen(n) <= n + 87
<1>1. PushLen(4) = 5 /\ PushLen(33) = 34
  BY DEF PushLen
<1>2. OptCCParamsLen(0) = 40
  BY <1>1 DEF OptCCParamsLen, PushLen
<1>3. OptCCParamsLen(PushLen(n)) = PushLen(39 + PushLen(n))
  BY <1>1, PushLenBounds DEF OptCCParamsLen
<1>4. ScriptLen(n) = 42 + PushLen(39 + PushLen(n))
  BY <1>2, <1>3, PushLenBounds DEF ScriptLen
<1>5. 39 + PushLen(n) \in Nat
  BY PushLenBounds
<1> DEFINE m == 39 + PushLen(n)
<1>6. /\ PushLen(m) \in Nat /\ m + 1 <= PushLen(m) /\ PushLen(m) <= m + 5
      /\ m <= 65535 => PushLen(m) <= m + 3
  BY SMTT(20), <1>5, PushLenBounds
<1>7. /\ PushLen(n) \in Nat /\ n + 1 <= PushLen(n) /\ PushLen(n) <= n + 5
      /\ n <= 65535 => PushLen(n) <= n + 3
  BY PushLenBounds
<1>8. ScriptLen(n) = 42 + PushLen(m) /\ m = 39 + PushLen(n)
  BY <1>4
<1> HIDE DEF m
<1> QED
  BY <1>6, <1>7, <1>8

(* An empty evidence is 64 bytes and its script 148.                       *)
LEMMA EmptyScriptLen == EmptyEvidenceLen = 64 /\ ScriptLen(EmptyEvidenceLen) = 148
<1>1. VarIntLen(0) = 1
  BY DEF VarIntLen
<1>2. EmptyEvidenceLen = 64
  BY <1>1 DEF EmptyEvidenceLen, NotaryEvidenceLen
<1>3. OptCCParamsLen(0) = 40 /\ OptCCParamsLen(PushLen(64)) = 106
  BY DEF OptCCParamsLen, PushLen
<1> QED
  BY <1>2, <1>3 DEF ScriptLen

(* The wrapper of an n-byte chunk adds at most 102 bytes to it, whatever   *)
(* its index, total and start.                                             *)
LEMMA MultipartEvidenceLenBounds ==
  ASSUME NEW i \in Nat, NEW t \in Nat, NEW s \in Nat, NEW n \in Nat,
         n <= 65535
  PROVE  /\ MultipartEvidenceLen(i, t, s, n) \in Nat
         /\ MultipartEvidenceLen(i, t, s, n) <= n + 102
<1>1. VarIntLen(1) = 1
  BY DEF VarIntLen
<1>2. MultipartEvidenceLen(i, t, s, n) =
        69 + VarIntLen(i) + VarIntLen(t) + VarIntLen(s) + CompactSizeLen(n) + n
  BY <1>1, VarIntLenBounds, CompactSizeLenBounds
     DEF MultipartEvidenceLen, NotaryEvidenceLen, MultipartObjectLen,
         VarBytesLen
<1> QED
  BY <1>2, VarIntLenBounds, CompactSizeLenBounds

-----------------------------------------------------------------------------

(* What the three properties need of the loop's state: a split has been    *)
(* found necessary, offset has not run past the end, and after at most one *)
(* chunk at most MaxChunk bytes are gone.                                  *)
LoopInv ==
  /\ phase = "trial" => out = <<>> /\ offset = 0 /\ index = 0
  /\ phase = "split" =>
       /\ NeedsSplit(total) /\ offset <= total
       /\ Len(out) = 0 => offset = 0
       /\ Len(out) = 1 => offset <= MaxChunk
       /\ \A i \in DOMAIN out : out[i].kind = "multipart"

DepositInv == DepositTypeOK /\ LoopInv /\ Reassembles /\ ScriptsFit /\ ChunksFull

-----------------------------------------------------------------------------
LEMMA MaxChunkValue ==
  MaxChunk \in Nat /\ MaxChunk > 0 /\ MaxChunk = MaxScript - 148 - SafetyMargin
<1>1. MaxChunk = MaxScript - (148 + SafetyMargin)
  BY EmptyScriptLen DEF MaxChunk, BaseOverhead
<1> QED
  BY <1>1, DepositAssumption

(* A script that needs splitting is longer than one chunk.                 *)
LEMMA SplitExceedsChunk ==
  ASSUME NEW n \in Nat, NeedsSplit(n)
  PROVE  n > MaxChunk
<1>1. ScriptLen(n) \in Nat /\ ScriptLen(n) >= MaxScript /\ ScriptLen(n) <= n + 91
  BY ScriptLenBounds DEF NeedsSplit
<1> QED
  BY <1>1, MaxChunkValue, DepositAssumption

(* The margin is enough: the script of a chunk of at most MaxChunk bytes   *)
(* is below the limit, whatever its index, total and start.                *)
LEMMA ChunkScriptFits ==
  ASSUME NEW i \in Nat, NEW n \in Nat, NEW start \in Nat, NEW to \in Nat,
         start <= to, to - start <= MaxChunk
  PROVE  /\ ChunkScript(i, n, start, start, to) \in Output
         /\ ChunkScript(i, n, start, start, to).len < MaxScript
<1> DEFINE size == to - start
           e    == MultipartEvidenceLen(i, n, start, size)
           s    == ChunkScript(i, n, start, start, to)
<1>1. size \in Nat /\ size <= MaxChunk /\ size <= 65345
  BY MaxChunkValue, DepositAssumption
<1> HIDE DEF size, e, s
<1>2. e \in Nat /\ e <= size + 102
  <2>1. size \in Nat /\ size <= 65535
    BY <1>1
  <2>2. \A m \in Nat : m <= 65535 =>
          /\ MultipartEvidenceLen(i, n, start, m) \in Nat
          /\ MultipartEvidenceLen(i, n, start, m) <= m + 102
    BY MultipartEvidenceLenBounds
  <2> QED
    BY <2>1, <2>2 DEF e
<1>3. ScriptLen(e) \in Nat /\ ScriptLen(e) <= e + 87
  BY <1>1, <1>2, ScriptLenBounds
<1>4. ScriptLen(e) < MaxScript
  BY <1>1, <1>2, <1>3, MaxChunkValue, DepositAssumption
<1>5. s = [kind |-> "multipart", index |-> i, total |-> n, start |-> start,
           from |-> start, to |-> to, len |-> ScriptLen(e)]
  BY DEF ChunkScript, e, size, s
<1> QED
  BY <1>3, <1>4, <1>5 DEF Output, s

-----------------------------------------------------------------------------
LEMMA DepositInitInv == DepositInit => DepositInv
BY DEF DepositInit, DepositInv, DepositTypeOK, LoopInv, Reassembles, ScriptsFit,
       ChunksFull

LEMMA DepositStutter ==
  ASSUME DepositInv, UNCHANGED depositVars
  PROVE  DepositInv'
BY DEF depositVars, DepositInv, DepositTypeOK, LoopInv, Reassembles, ScriptsFit,
       ChunksFull, Contiguous, Honest, Received, Readable

LEMMA BuildTrialInv ==
  ASSUME NEW n \in Nat, BuildTrial(n)
  PROVE  DepositInv'
BY DEF BuildTrial, DepositInv, DepositTypeOK, LoopInv, Reassembles, ScriptsFit,
       ChunksFull

LEMMA KeepTrialInv ==
  ASSUME DepositInv, KeepTrial
  PROVE  DepositInv'
<1> DEFINE w == WholeScript(total)
<1>1. total \in Nat /\ phase' = "done" /\ total' = total /\ out' = <<w>>
      /\ offset' \in Nat /\ index' \in Nat
  BY DEF DepositInv, DepositTypeOK, KeepTrial
<1>2. w \in Output /\ w.len < MaxScript /\ w.kind = "whole"
      /\ w.index = 0 /\ w.total = total /\ w.start = 0
      /\ w.from = 0 /\ w.to = total
  <2>1. ScriptLen(total) \in Nat /\ ScriptLen(total) < MaxScript
    BY <1>1, ScriptLenBounds, DepositAssumption DEF KeepTrial, NeedsSplit
  <2> QED
    BY <1>1, <2>1 DEF WholeScript, Output
<1> HIDE DEF w
<1>3. out' \in Seq(Output) /\ Len(out') = 1 /\ out'[1] = w /\ DOMAIN out' = {1}
  BY <1>1, <1>2
<1> QED
  BY <1>1, <1>2, <1>3
     DEF DepositInv, DepositTypeOK, LoopInv, Reassembles, ScriptsFit, ChunksFull,
         Readable, Contiguous, Honest, Received

LEMMA BeginSplitInv ==
  ASSUME DepositInv, BeginSplit
  PROVE  DepositInv'
BY DEF BeginSplit, DepositInv, DepositTypeOK, LoopInv, Reassembles, ScriptsFit,
       ChunksFull, Contiguous, Honest, Received

LEMMA AppendChunkInv ==
  ASSUME DepositInv, AppendChunk
  PROVE  DepositInv'
<1> DEFINE c == ChunkScript(index, total, offset, offset, ChunkEnd)
<1>1. /\ total \in Nat /\ offset \in Nat /\ index \in Nat
      /\ out \in Seq(Output)
      /\ phase = "split" /\ offset < total
      /\ phase' = "split" /\ total' = total
      /\ out' = Append(out, c) /\ offset' = ChunkEnd /\ index' = index + 1
      /\ index = Len(out)
  BY DEF DepositInv, DepositTypeOK, AppendChunk, Reassembles
<1>2. /\ ChunkEnd \in Nat /\ offset < ChunkEnd /\ ChunkEnd <= total
      /\ ChunkEnd - offset <= MaxChunk
      /\ ChunkEnd < total => ChunkEnd - offset = MaxChunk
  BY <1>1, MaxChunkValue DEF ChunkEnd
<1>3. c \in Output /\ c.len < MaxScript
  BY <1>1, <1>2, ChunkScriptFits
<1>4. /\ c.kind = "multipart" /\ c.index = index /\ c.total = total
      /\ c.start = offset /\ c.from = offset /\ c.to = ChunkEnd
  BY DEF ChunkScript
<1> HIDE DEF c
<1>5. /\ out' \in Seq(Output) /\ Len(out') = Len(out) + 1
      /\ \A i \in DOMAIN out : i \in DOMAIN out' /\ out'[i] = out[i]
      /\ out'[Len(out')] = c
      /\ \A i \in DOMAIN out' : i \in DOMAIN out \/ i = Len(out')
      /\ DOMAIN out = 1..Len(out) /\ DOMAIN out' = 1..Len(out')
      /\ Len(out) \in Nat
  BY <1>1, <1>3
<1>6. DepositTypeOK'
  BY <1>1, <1>2, <1>5 DEF DepositTypeOK
<1>7. LoopInv'
  <2>1. NeedsSplit(total') /\ offset' <= total'
    BY <1>1, <1>2 DEF DepositInv, LoopInv
  <2>2. Len(out') # 0
    BY <1>5
  <2>3. Len(out') = 1 => offset' <= MaxChunk
    <3>1. Len(out') = 1 => Len(out) = 0
      BY <1>5, <1>1
    <3>2. Len(out) = 0 => offset = 0
      BY <1>1 DEF DepositInv, LoopInv
    <3> QED
      BY <1>1, <1>2, <3>1, <3>2
  <2>4. \A i \in DOMAIN out' : out'[i].kind = "multipart"
    BY <1>1, <1>4, <1>5 DEF DepositInv, LoopInv
  <2> QED
    BY <1>1, <2>1, <2>2, <2>3, <2>4 DEF LoopInv
<1>8. Reassembles'
  <2>0. /\ \A i \in DOMAIN out : out[i].index = i - 1 /\ out[i].total = total
        /\ Len(out) > 0 => out[1].start = 0
        /\ \A i \in 1..Len(out) - 1 :
             out[i + 1].start = out[i].start + (out[i].to - out[i].from)
        /\ \A i \in DOMAIN out : out[i].from = out[i].start
        /\ Received(out) = offset
    BY <1>1 DEF DepositInv, Reassembles, Contiguous, Honest
  <2>1. \A i \in DOMAIN out' : out'[i].index = i - 1 /\ out'[i].total = total'
    BY <2>0, <1>1, <1>4, <1>5
  <2>2. out'[1].start = 0
    <3>1. CASE Len(out) = 0
      <4>1. Len(out') = 1 /\ offset = 0
        BY <3>1, <1>1, <1>5 DEF DepositInv, LoopInv
      <4> QED
        BY <4>1, <1>4, <1>5
    <3>2. CASE Len(out) # 0
      BY <3>2, <2>0, <1>5
    <3> QED
      BY <3>1, <3>2
  <2>3. ASSUME NEW i \in 1..Len(out') - 1
        PROVE  out'[i + 1].start = out'[i].start + (out'[i].to - out'[i].from)
    <3>1. CASE i = Len(out)
      <4>1. out # <<>> /\ out'[i + 1] = c /\ out'[i] = out[i]
        BY <3>1, <1>5
      <4>2. Received(out) = out[i].start + (out[i].to - out[i].from)
        BY <3>1, <4>1 DEF Received
      <4> QED
        BY <4>1, <4>2, <2>0, <1>4
    <3>2. CASE i < Len(out)
      <4>1. i \in DOMAIN out /\ i + 1 \in DOMAIN out /\ i \in 1..Len(out) - 1
        BY <3>2, <1>5
      <4>2. out'[i] = out[i] /\ out'[i + 1] = out[i + 1]
        BY <4>1, <1>5
      <4> QED
        BY <4>1, <4>2, <2>0
    <3>3. i = Len(out) \/ i < Len(out)
      <4>1. Len(out) \in Nat /\ Len(out') = Len(out) + 1
        BY <1>5
      <4> QED
        BY <4>1
    <3> QED
      BY <3>1, <3>2, <3>3
  <2>4. \A i \in DOMAIN out' : out'[i].from = out'[i].start
    BY <2>0, <1>4, <1>5
  <2>5. Received(out') = offset'
    <3>1. out' # <<>>
      BY <1>5
    <3>2. Received(out') = c.start + (c.to - c.from)
      BY <3>1, <1>5 DEF Received
    <3> QED
      BY <3>2, <1>1, <1>2, <1>4
  <2> QED
    BY <1>1, <1>5, <2>1, <2>2, <2>3, <2>4, <2>5 DEF Reassembles, Contiguous, Honest
<1>9. ScriptsFit'
  BY <1>3, <1>5 DEF ScriptsFit, DepositInv
<1>10. ChunksFull'
  BY <1>1, <1>2, <1>4, <1>5 DEF ChunksFull, DepositInv
<1> QED
  BY <1>6, <1>7, <1>8, <1>9, <1>10 DEF DepositInv

LEMMA FinishSplitInv ==
  ASSUME DepositInv, FinishSplit
  PROVE  DepositInv'
<1>1. /\ phase = "split" /\ phase' = "done"
      /\ total' = total /\ offset' = offset /\ index' = index /\ out' = out
      /\ total \in Nat /\ offset = total /\ NeedsSplit(total)
      /\ out \in Seq(Output)
  BY DEF FinishSplit, DepositInv, DepositTypeOK, LoopInv
<1>2. DepositTypeOK' /\ LoopInv' /\ ScriptsFit'
  BY <1>1 DEF DepositInv, DepositTypeOK, LoopInv, ScriptsFit
<1>3. Reassembles'
  BY <1>1 DEF DepositInv, Reassembles, Readable, Contiguous, Honest, Received
<1>4. Len(out) >= 2
  <2>1. offset > MaxChunk /\ offset > 0
    BY <1>1, SplitExceedsChunk, MaxChunkValue
  <2>2. Len(out) # 0 /\ Len(out) # 1
    BY <1>1, <2>1, MaxChunkValue DEF DepositInv, LoopInv
  <2>3. Len(out) \in Nat
    BY <1>1
  <2> QED
    BY <2>2, <2>3
<1>5. ChunksFull'
  BY <1>1, <1>4 DEF DepositInv, ChunksFull
<1> QED
  BY <1>2, <1>3, <1>5 DEF DepositInv
=============================================================================
