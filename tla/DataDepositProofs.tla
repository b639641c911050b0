-------------------------- MODULE DataDepositProofs --------------------------
(***************************************************************************)
(* The safety properties of DataDeposit, for every limit and margin that   *)
(* DepositAssumption admits and evidences of every length.                 *)
(***************************************************************************)
EXTENDS DataDeposit, BreakApartProofs, WellFoundedInduction

THEOREM DepositInvariant == Spec => []DepositInv
<1>1. Init => DepositInv
  BY DepositInitInv DEF Init
<1>2. DepositInv /\ [Next]_depositVars => DepositInv'
  <2> SUFFICES ASSUME DepositInv, [Next]_depositVars
               PROVE  DepositInv'
    OBVIOUS
  <2>1. ASSUME NEW n \in EvidenceLens, BuildTrial(n)
        PROVE  DepositInv'
    BY <2>1, BuildTrialInv, EvidenceLensAssumption
  <2>2. CASE KeepTrial
    BY <2>2, KeepTrialInv
  <2>3. CASE BeginSplit
    BY <2>3, BeginSplitInv
  <2>4. CASE AppendChunk
    BY <2>4, AppendChunkInv
  <2>5. CASE FinishSplit
    BY <2>5, FinishSplitInv
  <2>6. CASE UNCHANGED depositVars
    BY <2>6, DepositStutter
  <2> QED
    BY <2>1, <2>2, <2>3, <2>4, <2>5, <2>6 DEF Next, Work
<1> QED
  BY <1>1, <1>2, PTL DEF Spec

(* Every variable of the split keeps its type, and the outputs are         *)
(* well-formed (break_apart and the threshold of api.rs).                  *)
THEOREM DepositTypeCorrect == Spec => []DepositTypeOK
<1>1. DepositInv => DepositTypeOK
  BY DEF DepositInv
<1> QED
  BY <1>1, DepositInvariant, PTL

(* A reader that follows the chunk descriptors gets every evidence back,   *)
(* of whatever length (break_apart).                                       *)
THEOREM EvidenceReassembles == Spec => []Reassembles
<1>1. DepositInv => Reassembles
  BY DEF DepositInv
<1> QED
  BY <1>1, DepositInvariant, PTL

(* No output script reaches the limit, whatever the evidence's length, as  *)
(* long as the safety margin is above 41 bytes; the code's is 128          *)
(* (api.rs step 4).                                                        *)
THEOREM NoScriptTooLong == Spec => []ScriptsFit
<1>1. DepositInv => ScriptsFit
  BY DEF DepositInv
<1> QED
  BY <1>1, DepositInvariant, PTL

(* No chunk is empty, every one but the last is full, and a split always   *)
(* has two or more (break_apart and the threshold of api.rs).              *)
THEOREM NoDegenerateSplit == Spec => []ChunksFull
<1>1. DepositInv => ChunksFull
  BY DEF DepositInv
<1> QED
  BY <1>1, DepositInvariant, PTL

-----------------------------------------------------------------------------
LEMMA TurnAddsChunk ==
  ASSUME NEW n \in Nat, NEW k \in Nat
  PROVE  /\ k * n \in Nat /\ (k + 1) * n = k * n + n
         /\ (k + 1) - 1 = k
OBVIOUS

(* The number of chunks of n bytes that t bytes take.                      *)
LEMMA ChunksOf ==
  ASSUME NEW n \in Nat, n > 0, NEW t \in Nat, NEW k \in Nat,
         (k - 1) * n < t, t <= k * n
  PROVE  (t + n - 1) \div n = k
<1> DEFINE x == t + n - 1
           q == x \div n
<1>1. x \in Nat /\ k * n <= x /\ x < (k + 1) * n
  BY (k - 1) * n = k * n - n, (k + 1) * n = k * n + n
<1>2. q \in Int /\ q * n <= x /\ x < (q + 1) * n
  <2> HIDE DEF x
  <2>1. q \in Int /\ x = q * n + (x % n) /\ x % n \in 0..n - 1
    BY <1>1
  <2>2. (q + 1) * n = q * n + n
    BY <2>1
  <2> QED
    BY <2>1, <2>2, <1>1
<1> HIDE DEF q, x
<1>3. k * n < (q + 1) * n /\ q * n < (k + 1) * n
  BY <1>1, <1>2
<1>4. k < q + 1 /\ q < k + 1
  BY <1>2, <1>3
<1>5. q = k
  BY <1>2, <1>4
<1> QED
  BY <1>5 DEF q, x

(* Every turn but the last has taken a whole chunk.                        *)
CountInv ==
  phase = "split" =>
    /\ offset < total => offset = index * MaxChunk
    /\ offset = total => (index - 1) * MaxChunk < total /\ total <= index * MaxChunk

LEMMA CountPreserved == DepositInv /\ CountInv /\ [Next]_depositVars => CountInv'
<1> SUFFICES ASSUME DepositInv, CountInv, [Next]_depositVars PROVE CountInv'
  OBVIOUS
<1>1. ASSUME NEW n \in EvidenceLens, BuildTrial(n) PROVE CountInv'
  BY <1>1 DEF BuildTrial, CountInv
<1>2. CASE KeepTrial
  BY <1>2 DEF KeepTrial, CountInv
<1>3. CASE BeginSplit
  <2>1. /\ offset' = 0 /\ index' = 0 /\ total' = total /\ total \in Nat
        /\ NeedsSplit(total)
    BY <1>3 DEF BeginSplit, DepositInv, DepositTypeOK, LoopInv
  <2>2. total' > 0 /\ 0 * MaxChunk = 0
    BY <2>1, SplitExceedsChunk, MaxChunkValue
  <2> QED
    BY <2>1, <2>2 DEF CountInv
<1>4. CASE AppendChunk
  <2>1. /\ total \in Nat /\ offset \in Nat /\ index \in Nat /\ phase = "split"
        /\ offset < total /\ total' = total /\ index' = index + 1
        /\ offset' = ChunkEnd
    BY <1>4 DEF AppendChunk, DepositInv, DepositTypeOK
  <2>2. offset = index * MaxChunk
    BY <2>1 DEF CountInv
  <2>3. /\ index * MaxChunk \in Nat
        /\ index' * MaxChunk = index * MaxChunk + MaxChunk
        /\ (index' - 1) * MaxChunk = index * MaxChunk
    BY <2>1, MaxChunkValue, TurnAddsChunk
  <2>4. offset' = IF index' * MaxChunk < total THEN index' * MaxChunk ELSE total
    BY <2>1, <2>2, <2>3 DEF ChunkEnd
  <2>5. offset' < total' => offset' = index' * MaxChunk
    BY <2>1, <2>4
  <2>6. total' <= index' * MaxChunk \/ offset' # total'
    BY <2>1, <2>2, <2>3, <2>4, MaxChunkValue
  <2> QED
    BY <2>1, <2>2, <2>3, <2>5, <2>6 DEF CountInv
<1>5. CASE FinishSplit
  BY <1>5 DEF FinishSplit, CountInv
<1>6. CASE UNCHANGED depositVars
  BY <1>6 DEF depositVars, CountInv
<1> QED
  BY <1>1, <1>2, <1>3, <1>4, <1>5, <1>6 DEF Next, Work

LEMMA SplitStepAppends ==
  ASSUME DepositInv, CountInv, [Next]_depositVars, phase = "split"
  PROVE  /\ IsPrefix(out, out')
         /\ phase' = "done" => Len(out) = (total + MaxChunk - 1) \div MaxChunk
<1>1. /\ out \in Seq(Output) /\ Len(out) \in Nat /\ index = Len(out)
      /\ total \in Nat /\ offset \in Nat /\ offset <= total
  BY DEF DepositInv, DepositTypeOK, LoopInv, Reassembles
<1>2. CASE AppendChunk
  <2> DEFINE c == ChunkScript(index, total, offset, offset, ChunkEnd)
  <2>1. out' = Append(out, c) /\ phase' = "split"
    BY <1>2 DEF AppendChunk
  <2> HIDE DEF c
  <2>2. /\ Len(out') = Len(out) + 1
        /\ \A i \in 1..Len(out) : out'[i] = out[i]
    BY <1>1, <2>1
  <2>3. SubSeq(out, 1, Len(out)) = SubSeq(out', 1, Len(out))
    BY <1>1, <2>2
  <2> QED
    BY <1>1, <2>1, <2>2, <2>3 DEF IsPrefix
<1>3. CASE FinishSplit
  <2>1. out' = out /\ offset = total
    BY <1>1, <1>3 DEF FinishSplit
  <2>2. (index - 1) * MaxChunk < total /\ total <= index * MaxChunk
    BY <2>1 DEF CountInv
  <2>3. index = (total + MaxChunk - 1) \div MaxChunk
    BY <1>1, <2>2, MaxChunkValue, ChunksOf
  <2> QED
    BY <1>1, <2>1, <2>3 DEF IsPrefix
<1>4. CASE UNCHANGED depositVars
  BY <1>1, <1>4 DEF depositVars, IsPrefix
<1> QED
  BY <1>2, <1>3, <1>4 DEF Next, Work, BuildTrial, KeepTrial, BeginSplit

(* break_apart never rewrites an output it has pushed, and it ends with    *)
(* one output per MaxChunk bytes begun, for evidences of every length.     *)
THEOREM PushedOutputsStay == Spec => OnlyAppends
<1>1. Init => CountInv
  BY DEF Init, DepositInit, CountInv
<1>2. DepositInv /\ CountInv /\ [Next]_depositVars => CountInv'
  BY CountPreserved
<1>3. DepositInv /\ CountInv /\ [Next]_depositVars =>
        [ phase = "split" =>
            /\ IsPrefix(out, out')
            /\ phase' = "done" => Len(out) = (total + MaxChunk - 1) \div MaxChunk
        ]_depositVars
  BY SplitStepAppends
<1> QED
  BY <1>1, <1>2, <1>3, DepositInvariant, PTL DEF Spec, OnlyAppends

-----------------------------------------------------------------------------
(* One of any places comes first: the places up to it include those up to  *)
(* no other.                                                               *)
LEMMA FirstOfSome ==
  ASSUME NEW Places, Places \subseteq Nat, Places # {}
  PROVE  \E i \in Places : \A k \in Places : i <= k
<1> DEFINE UpTo == {0..i : i \in Places}
<1>1. UpTo \subseteq FiniteSubsetsOf(Nat) /\ UpTo # {}
  <2>1. ASSUME NEW i \in Places PROVE 0..i \in SUBSET Nat /\ IsFiniteSet(0..i)
    <3>1. 0 \in Int /\ i \in Int
      OBVIOUS
    <3> QED
      BY <3>1, FS_Interval
  <2> QED
    BY <2>1 DEF FiniteSubsetsOf
<1>2. PICK i \in Places :
        \A k \in Places : ~ (<<0..k, 0..i>> \in StrictSubsetOrdering(Nat))
  <2>1. \E A \in UpTo : \A B \in UpTo : ~ (<<B, A>> \in StrictSubsetOrdering(Nat))
    <3> HIDE DEF UpTo
    <3> QED
      BY <1>1, FS_StrictSubsetOrderingWellFounded, WFMin
  <2> QED
    BY <2>1
<1>3. ASSUME NEW k \in Places, k < i PROVE FALSE
  <2>1. k \in Nat /\ i \in Nat
    OBVIOUS
  <2>2. /\ 0..k \subseteq 0..i /\ 0..k \subseteq Nat /\ 0..i \subseteq Nat
        /\ i \in 0..i /\ i \notin 0..k
    BY <1>3, <2>1
  <2>3. <<0..k, 0..i>> \in StrictSubsetOrdering(Nat)
    BY <2>2 DEF StrictSubsetOrdering
  <2> QED
    BY <1>2, <2>3
<1> QED
  BY <1>3

(* The daemon's count of the bytes received is where the next chunk says   *)
(* it starts, so that every test of ReadBack passes.                       *)
LEMMA ReadBackWhole ==
  ASSUME NEW s \in Seq(Output), s # <<>>, NEW n \in Nat, Readable(s, n)
  PROVE  ReadBack(s) = n
<1> DEFINE took == [i \in 1..Len(s) |-> s[i].to - s[i].from]
           filled[i \in 0..Len(s)] ==
             IF i = 0 THEN 0 ELSE filled[i - 1] + (s[i].to - s[i].from)
           upto == [i \in 0..Len(s) |-> IF i = 0 THEN 0 ELSE s[i].start + took[i]]
<1>1. Len(s) \in Nat /\ Len(s) > 0 /\ DOMAIN s = 1..Len(s)
  OBVIOUS
<1>2. \A i \in 1..Len(s) : s[i].start \in Nat /\ took[i] \in Int
  <2>1. ASSUME NEW i \in 1..Len(s) PROVE s[i] \in Output
    BY <1>1, <2>1
  <2>2. ASSUME NEW o \in Output
        PROVE  o.start \in Nat /\ o.to \in Nat /\ o.from \in Nat
    BY <2>2 DEF Output
  <2> QED
    BY <2>1, <2>2
<1>3. /\ \A i \in 1..Len(s) : /\ s[i].index = i - 1 /\ s[i].total = n
                             /\ s[i].from = s[i].start
      /\ s[1].start = 0
      /\ \A i \in 1..Len(s) - 1 : s[i + 1].start = s[i].start + took[i]
      /\ s[Len(s)].start + took[Len(s)] = n
  BY <1>1 DEF Readable, Contiguous, Honest, Received
<1>4. \A i \in 1..Len(s) : took[i] = s[i].to - s[i].from
  OBVIOUS
<1> HIDE DEF took
<1>5. \A i \in 1..Len(s) : upto[i - 1] = s[i].start
  <2>1. ASSUME NEW i \in 1..Len(s), i # 1 PROVE upto[i - 1] = s[i].start
    <3>1. i - 1 \in 1..Len(s) - 1 /\ (i - 1) + 1 = i /\ i - 1 \in 0..Len(s)
      BY <1>1, <2>1
    <3>2. s[i].start = s[i - 1].start + took[i - 1]
      BY <1>3, <3>1
    <3> QED
      BY <3>1, <3>2
  <2>2. upto[1 - 1] = s[1].start
    BY <1>1, <1>3
  <2> QED
    BY <2>1, <2>2
<1>6. upto = [i \in 0..Len(s) |->
                IF i = 0 THEN 0 ELSE upto[i - 1] + (s[i].to - s[i].from)]
  <2>1. ASSUME NEW i \in 0..Len(s)
        PROVE  upto[i] = IF i = 0 THEN 0 ELSE upto[i - 1] + (s[i].to - s[i].from)
    BY <1>1, <1>4, <1>5
  <2> QED
    BY <2>1
<1>7. /\ upto[Len(s)] = n
      /\ \A i \in 0..Len(s) : upto[i] \in Int
      /\ upto[0] = 0
  BY <1>1, <1>2, <1>3
<1>8. \E f : f = [i \in 0..Len(s) |->
                    IF i = 0 THEN 0 ELSE f[i - 1] + (s[i].to - s[i].from)]
  <2> HIDE DEF upto
  <2> QED
    BY <1>6
<1>9. filled = [i \in 0..Len(s) |->
                  IF i = 0 THEN 0 ELSE filled[i - 1] + (s[i].to - s[i].from)]
  BY <1>8
<1> HIDE DEF filled, upto
<1>10. \A i \in 0..Len(s) : filled[i] = upto[i]
  <2> SUFFICES ASSUME NEW j \in 0..Len(s), filled[j] # upto[j] PROVE FALSE
    OBVIOUS
  <2> DEFINE Parted == {i \in Nat : i \in 0..Len(s) /\ filled[i] # upto[i]}
  <2>1. PICK i \in Parted : \A k \in Parted : i <= k
    <3>1. Parted \subseteq Nat /\ Parted # {}
      BY <1>1
    <3> HIDE DEF Parted
    <3> QED
      BY <3>1, FirstOfSome
  <2>2. CASE i = 0
    BY <1>1, <1>7, <1>9, <2>1, <2>2
  <2>3. CASE i # 0
    <3>1. i - 1 \in 0..Len(s) /\ i - 1 \notin Parted /\ i \in 0..Len(s)
      BY <1>1, <2>1, <2>3
    <3>2. filled[i - 1] = upto[i - 1]
      BY <1>1, <3>1
    <3>3. filled[i] = filled[i - 1] + (s[i].to - s[i].from)
      BY <1>9, <2>3, <3>1
    <3>4. upto[i] = upto[i - 1] + (s[i].to - s[i].from)
      BY <1>6, <2>3, <3>1
    <3>5. filled[i] = upto[i]
      BY <3>2, <3>3, <3>4
    <3> QED
      BY <2>1, <3>5
  <2> QED
    BY <2>2, <2>3
<1>11. ASSUME NEW i \in 1..Len(s) PROVE filled[i - 1] = s[i].start
  <2>1. i - 1 \in 0..Len(s)
    BY <1>1, <1>11
  <2> QED
    BY <1>5, <1>10, <2>1
<1>12. filled[Len(s)] = n
  <2>1. Len(s) \in 0..Len(s)
    BY <1>1
  <2> QED
    BY <1>7, <1>10, <2>1
<1> QED
  BY <1>1, <1>3, <1>11, <1>12 DEF ReadBack, filled

(* After a call has returned, what is read back is what it was given.      *)
DeliveredInv == phase = "done" => ReadBack(out) = total

LEMMA DeliveredPreserved ==
  ASSUME DepositInv, DeliveredInv, [Next]_depositVars
  PROVE  DeliveredInv'
<1>1. ASSUME NEW n \in EvidenceLens, BuildTrial(n) PROVE DeliveredInv'
  BY <1>1 DEF BuildTrial, DeliveredInv
<1>2. CASE KeepTrial
  <2>1. DepositInv' /\ phase' = "done" /\ out' # <<>>
    BY <1>2, KeepTrialInv DEF KeepTrial
  <2>2. out' \in Seq(Output) /\ total' \in Nat /\ Readable(out', total')
    BY <2>1 DEF DepositInv, DepositTypeOK, Reassembles, Readable, Contiguous,
                Honest, Received
  <2> QED
    BY <2>1, <2>2, ReadBackWhole DEF DeliveredInv
<1>3. CASE BeginSplit \/ AppendChunk
  BY <1>3 DEF BeginSplit, AppendChunk, DeliveredInv
<1>4. CASE FinishSplit
  <2>1. DepositInv' /\ phase' = "done" /\ out' = out /\ total' = total
    BY <1>4, FinishSplitInv DEF FinishSplit
  <2>2. out' \in Seq(Output) /\ total' \in Nat /\ Readable(out', total')
    BY <2>1 DEF DepositInv, DepositTypeOK, Reassembles, Readable, Contiguous,
                Honest, Received
  <2>3. out' # <<>>
    <3>1. total > 0
      BY <1>4, SplitExceedsChunk, MaxChunkValue
         DEF FinishSplit, DepositInv, DepositTypeOK, LoopInv
    <3> QED
      BY <2>1, <2>2, <3>1 DEF Readable, Received
  <2> QED
    BY <2>1, <2>2, <2>3, ReadBackWhole DEF DeliveredInv
<1>5. CASE UNCHANGED depositVars
  BY <1>5 DEF depositVars, DeliveredInv
<1> QED
  BY <1>1, <1>2, <1>3, <1>4, <1>5 DEF Next, Work

(* The safety part of Delivers: to the daemon, every evidence handed in is *)
(* read back, all of it, from the outputs and before the next is taken, in *)
(* one step of EvidenceChannel (the threshold of api.rs and break_apart).  *)
THEOREM DepositIsChannel == Spec => Channel!Init /\ [][Channel!Next]_(Channel!vars)
<1>1. Init => Channel!Init /\ DeliveredInv
  BY DEF Init, DepositInit, Channel!Init, DeliveredInv
<1>2. DepositInv /\ DeliveredInv /\ [Next]_depositVars => DeliveredInv'
  BY DeliveredPreserved
<1>3. DepositInv /\ DeliveredInv /\ DeliveredInv' /\ [Next]_depositVars =>
        [Channel!Next]_(Channel!vars)
  <2> SUFFICES ASSUME DepositInv, DeliveredInv, DeliveredInv', [Next]_depositVars
               PROVE  [Channel!Next]_(Channel!vars)
    OBVIOUS
  <2> DEFINE accepted == IF phase = "idle" THEN None ELSE total
             readBack == IF phase = "done" THEN ReadBack(out) ELSE None
  <2>1. total \in Nat /\ None \notin Nat
    BY EvidenceLensAssumption DEF DepositInv, DepositTypeOK
  <2>2. ASSUME NEW n \in EvidenceLens, BuildTrial(n) PROVE Channel!Accept
    <3>1. accepted = None \/ readBack # None
      BY <2>1, <2>2 DEF BuildTrial, DeliveredInv
    <3>2. accepted' = n /\ readBack' = None
      BY <2>2 DEF BuildTrial
    <3> QED
      BY <3>1, <3>2 DEF Channel!Accept
  <2>3. CASE KeepTrial \/ FinishSplit
    <3>1. /\ phase \in {"trial", "split"} /\ phase' = "done" /\ total' = total
      BY <2>3 DEF KeepTrial, FinishSplit
    <3>2. accepted = total /\ readBack = None /\ accepted' = total /\ readBack' = total
      BY <3>1 DEF DeliveredInv
    <3> QED
      BY <2>1, <3>2 DEF Channel!Next, Channel!Deliver
  <2>4. CASE BeginSplit \/ AppendChunk
    BY <2>4 DEF BeginSplit, AppendChunk, Channel!vars
  <2>5. CASE UNCHANGED depositVars
    BY <2>5 DEF depositVars, Channel!vars
  <2> QED
    BY <2>2, <2>3, <2>4, <2>5 DEF Next, Work, Channel!Next
<1> QED
  BY <1>1, <1>2, <1>3, DepositInvariant, PTL DEF Spec
=============================================================================
