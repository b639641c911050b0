-------------------------- MODULE PublicationProofs --------------------------
(***************************************************************************)
(* The properties of Publication, for evidences of every length and any    *)
(* number of calls, other outputs and slips.                               *)
(***************************************************************************)
EXTENDS Publication, BreakApartProofs, SequenceTheorems

(* The outputs of a call that has returned.  Each chunk starts below the   *)
(* total: with that a reader cannot stop before the last one.              *)
AsReturned(s) ==
  /\ s \in Seq(Output) /\ s # <<>>
  /\ Contiguous(s, s[1].total) /\ Received(s) = s[1].total
  /\ \/ Len(s) = 1 /\ s[1].kind = "whole"
     \/ \A i \in DOMAIN s : s[i].kind = "multipart" /\ s[i].start < s[i].total

SplitInv ==
  /\ phase = "split" => \A i \in DOMAIN out :
       out[i].kind = "multipart" /\ out[i].start < out[i].total
  /\ phase = "done" => AsReturned(out)

(* What can stand in the transaction: outputs of another kind, and the     *)
(* outputs calls returned.                                                 *)
Legal ==
  {Other} \cup {p \in Pieces :
                  /\ p.call \in DOMAIN published
                  /\ \E i \in DOMAIN published[p.call].scripts :
                       p.script = published[p.call].scripts[i]}

PublishedInv ==
  /\ published \in Seq([vout : Nat, scripts : Seq(Output)])
  /\ Current <= MaxCalls
  /\ \A c \in DOMAIN published :
       \/ published[c].scripts = <<>> /\ c = Current
       \/ AsReturned(published[c].scripts)

PublicationInv ==
  /\ DepositInv /\ SplitInv /\ PublishedInv
  /\ tx \in Seq(Legal)
  /\ faults \in 0..MaxFaults

-----------------------------------------------------------------------------
LEMMA InitInv == Init => PublicationInv
<1> SUFFICES ASSUME Init PROVE PublicationInv
  OBVIOUS
<1>1. DepositInv
  BY DepositInitInv DEF Init
<1>2. SplitInv
  BY DEF Init, DepositInit, SplitInv
<1>3. PublishedInv
  BY PublicationAssumption DEF Init, PublishedInv, Current
<1>4. tx \in Seq(Legal) /\ faults \in 0..MaxFaults
  BY PublicationAssumption DEF Init
<1> QED
  BY <1>1, <1>2, <1>3, <1>4 DEF PublicationInv

(* The split on its own.                                                   *)
LEMMA SplitStepInv ==
  ASSUME DepositInv, SplitInv,
         KeepTrial \/ BeginSplit \/ AppendChunk \/ FinishSplit
  PROVE  DepositInv' /\ SplitInv'
<1>1. DepositInv'
  BY KeepTrialInv, BeginSplitInv, AppendChunkInv, FinishSplitInv
<1>2. CASE KeepTrial
  <2> DEFINE w == WholeScript(total)
  <2>1. out' = <<w>> /\ phase' = "done" /\ total \in Nat
    BY <1>2 DEF KeepTrial, DepositInv, DepositTypeOK
  <2>2. /\ w.kind = "whole" /\ w.index = 0 /\ w.total = total
        /\ w.start = 0 /\ w.from = 0 /\ w.to = total
    BY DEF WholeScript
  <2>3. out' \in Seq(Output)
    BY <1>1 DEF DepositInv, DepositTypeOK
  <2> HIDE DEF w
  <2>4. AsReturned(out')
    BY <2>1, <2>2, <2>3 DEF AsReturned, Contiguous, Received
  <2> QED
    BY <1>1, <2>1, <2>4 DEF SplitInv, AsReturned, Contiguous, Received
<1>3. CASE BeginSplit
  <2>1. out = <<>> /\ out' = out /\ phase' = "split"
    BY <1>3 DEF BeginSplit, DepositInv, LoopInv
  <2>2. SplitInv'
    BY <2>1 DEF SplitInv
  <2> QED
    BY <1>1, <2>2
<1>4. CASE AppendChunk
  <2> DEFINE c == ChunkScript(index, total, offset, offset, ChunkEnd)
  <2>1. /\ phase = "split" /\ phase' = "split" /\ offset < total
        /\ out' = Append(out, c) /\ out \in Seq(Output)
    BY <1>4 DEF AppendChunk, DepositInv, DepositTypeOK
  <2>2. c.kind = "multipart" /\ c.start = offset /\ c.total = total
    BY DEF ChunkScript
  <2> HIDE DEF c
  <2>3. \A i \in DOMAIN out' : out'[i].kind = "multipart" /\ out'[i].start < out'[i].total
    BY <2>1, <2>2 DEF SplitInv
  <2> QED
    BY <1>1, <2>1, <2>3 DEF SplitInv
<1>5. CASE FinishSplit
  <2>1. /\ phase = "split" /\ phase' = "done" /\ out' = out /\ total' = total
        /\ offset = total /\ total \in Nat /\ NeedsSplit(total)
        /\ out \in Seq(Output)
    BY <1>5 DEF FinishSplit, DepositInv, DepositTypeOK, LoopInv
  <2>2. out # <<>>
    <3>1. total > 0
      BY <2>1, SplitExceedsChunk, MaxChunkValue
    <3> QED
      BY <2>1, <3>1 DEF DepositInv, LoopInv
  <2>3. Contiguous(out, total) /\ Received(out) = total
    BY <2>1 DEF DepositInv, Reassembles
  <2>4. out[1].total = total
    BY <2>1, <2>2, <2>3 DEF Contiguous
  <2>5. AsReturned(out)
    BY <2>1, <2>2, <2>3, <2>4 DEF AsReturned, SplitInv
  <2> QED
    BY <1>1, <2>1, <2>5 DEF SplitInv, AsReturned, Contiguous, Received
<1> QED
  BY <1>1, <1>2, <1>3, <1>4, <1>5

-----------------------------------------------------------------------------
LEMMA StutterSplitInv ==
  ASSUME PublicationInv, UNCHANGED depositVars
  PROVE  DepositInv' /\ SplitInv'
<1>1. DepositInv'
  BY DepositStutter DEF PublicationInv
<1>2. phase' = phase /\ out' = out
  BY DEF depositVars
<1>3. SplitInv'
  BY <1>2 DEF PublicationInv, SplitInv, AsReturned, Contiguous, Received
<1> QED
  BY <1>1, <1>3

(* While nothing is published, a transaction of legal outputs is all that  *)
(* a step must leave.                                                      *)
LEMMA OutputsInv ==
  ASSUME PublicationInv, UNCHANGED <<published, depositVars>>,
         tx' \in Seq(Legal), faults' \in 0..MaxFaults
  PROVE  PublicationInv'
<1>1. DepositInv' /\ SplitInv'
  BY StutterSplitInv
<1>2. published' = published
  OBVIOUS
<1>3. PublishedInv' /\ Legal' = Legal
  BY <1>2 DEF PublicationInv, PublishedInv, Current, Legal, AsReturned,
              Contiguous, Received
<1> QED
  BY <1>1, <1>3 DEF PublicationInv

LEMMA SlipInv ==
  ASSUME PublicationInv, NEW outputs \in Seq(Legal), Slip(outputs)
  PROVE  PublicationInv'
<1>1. faults' \in 0..MaxFaults
  BY PublicationAssumption DEF PublicationInv, Slip
<1> QED
  BY <1>1, OutputsInv DEF Slip

LEMMA PartLegal ==
  ASSUME tx \in Seq(Legal), NEW i \in Nat, NEW j \in Nat, i > 0, j <= Len(tx)
  PROVE  SubSeq(tx, i, j) \in Seq(Legal)
<1>1. \A k \in i..j : tx[k] \in Legal
  OBVIOUS
<1> QED
  BY <1>1, SubSeqProperties

LEMMA OtherStepsInv ==
  ASSUME PublicationInv, AddOther \/ Lose \/ Repeat \/ Swap
  PROVE  PublicationInv'
<1>1. tx \in Seq(Legal)
  BY DEF PublicationInv
<1>2. CASE AddOther
  <2>1. Other \in Legal
    BY DEF Legal
  <2>2. tx' \in Seq(Legal) /\ UNCHANGED <<published, faults, depositVars>>
    BY <1>1, <1>2, <2>1 DEF AddOther
  <2> QED
    BY <2>2, OutputsInv DEF PublicationInv
<1>3. CASE Lose
  <2>1. PICK i \in DOMAIN tx : Slip(RemoveAt(tx, i))
    BY <1>3 DEF Lose
  <2>2. /\ SubSeq(tx, 1, i - 1) \in Seq(Legal)
        /\ SubSeq(tx, i + 1, Len(tx)) \in Seq(Legal)
    BY <1>1, PartLegal
  <2>3. RemoveAt(tx, i) \in Seq(Legal)
    BY <2>2, ConcatProperties DEF RemoveAt
  <2> QED
    BY <2>1, <2>3, SlipInv
<1>4. CASE Repeat
  <2>1. PICK i \in DOMAIN tx : Slip(InsertAt(tx, i, tx[i]))
    BY <1>4 DEF Repeat
  <2>2. /\ SubSeq(tx, 1, i - 1) \in Seq(Legal)
        /\ SubSeq(tx, i, Len(tx)) \in Seq(Legal)
    BY <1>1, PartLegal
  <2>3. <<tx[i]>> \in Seq(Legal)
    BY <1>1
  <2>4. InsertAt(tx, i, tx[i]) \in Seq(Legal)
    BY <2>2, <2>3, ConcatProperties DEF InsertAt
  <2> QED
    BY <2>1, <2>4, SlipInv
<1>5. CASE Swap
  <2>1. PICK i, j \in DOMAIN tx : Slip([tx EXCEPT ![i] = tx[j], ![j] = tx[i]])
    BY <1>5 DEF Swap
  <2>2. [tx EXCEPT ![i] = tx[j], ![j] = tx[i]] \in Seq(Legal)
    BY <1>1
  <2> QED
    BY <2>1, <2>2, SlipInv
<1> QED
  BY <1>2, <1>3, <1>4, <1>5

LEMMA PublishInv ==
  ASSUME PublicationInv, NEW n \in EvidenceLens, Publish(n)
  PROVE  PublicationInv'
<1> DEFINE p == [vout |-> Len(tx), scripts |-> <<>>]
<1>1. /\ published \in Seq([vout : Nat, scripts : Seq(Output)])
      /\ p \in [vout : Nat, scripts : Seq(Output)]
      /\ published' = Append(published, p) /\ tx' = tx /\ faults' = faults
      /\ Len(published) < MaxCalls
  BY DEF PublicationInv, PublishedInv, Publish, Current
<1>2. DepositInv'
  BY BuildTrialInv, PublicationAssumption DEF Publish
<1>3. SplitInv'
  BY DEF Publish, BuildTrial, SplitInv
<1>4. PublishedInv'
  <2>1. published' \in Seq([vout : Nat, scripts : Seq(Output)])
    BY <1>1
  <2>2. Len(published') = Len(published) + 1 /\ Len(published) \in Nat
    BY <1>1
  <2>3. Current' <= MaxCalls
    BY <1>1, <2>2, PublicationAssumption DEF Current
  <2>4. \A c \in DOMAIN published : published'[c] = published[c]
    BY <1>1
  <2>5. published'[Len(published) + 1] = p
    BY <1>1
  <2>6. \A c \in DOMAIN published : AsReturned(published[c].scripts)
    BY DEF Publish, Placed, PublicationInv, PublishedInv
  <2>7. \A c \in DOMAIN published' :
          \/ published'[c].scripts = <<>> /\ c = Current'
          \/ AsReturned(published'[c].scripts)
    BY <2>1, <2>2, <2>4, <2>5, <2>6, <1>1 DEF Current
  <2> QED
    BY <2>1, <2>3, <2>7 DEF PublishedInv, AsReturned, Contiguous, Received
<1>5. Legal \subseteq Legal'
  <2>1. \A c \in DOMAIN published : c \in DOMAIN published' /\ published'[c] = published[c]
    BY <1>1
  <2> QED
    BY <2>1 DEF Legal
<1>6. tx' \in Seq(Legal')
  BY <1>1, <1>5 DEF PublicationInv
<1> QED
  BY <1>1, <1>2, <1>3, <1>4, <1>6 DEF PublicationInv

LEMMA ElementOf ==
  ASSUME NEW S, NEW s \in Seq(S), NEW i \in DOMAIN s
  PROVE  s[i] \in S
OBVIOUS

LEMMA ReplacedSeq ==
  ASSUME NEW S, NEW s \in Seq(S), NEW i \in DOMAIN s, NEW e \in S
  PROVE  /\ [s EXCEPT ![i] = e] \in Seq(S)
         /\ Len([s EXCEPT ![i] = e]) = Len(s)
OBVIOUS

LEMMA PlaceInv ==
  ASSUME PublicationInv, Place
  PROVE  PublicationInv'
<1> DEFINE added == [i \in DOMAIN out |-> OutputOf(Current, out[i])]
<1>1. /\ published \in Seq([vout : Nat, scripts : Seq(Output)])
      /\ Len(published) <= MaxCalls /\ MaxCalls \in Nat
      /\ published' = [published EXCEPT ![Current].scripts = out]
      /\ tx' = tx \o added /\ faults' = faults
      /\ phase = "done" /\ AsReturned(out) /\ out \in Seq(Output)
  BY PublicationAssumption
  DEF PublicationInv, PublishedInv, Place, Current, SplitInv, AsReturned
<1>2. Current \in DOMAIN published /\ published[Current].scripts = <<>>
  <2>1. PICK c \in DOMAIN published : published[c].scripts = <<>>
    BY DEF Place, Placed
  <2> QED
    BY <2>1 DEF PublicationInv, PublishedInv, AsReturned
<1>3. DepositInv' /\ SplitInv'
  BY StutterSplitInv DEF Place
<1>4. /\ published' \in Seq([vout : Nat, scripts : Seq(Output)])
      /\ DOMAIN published' = DOMAIN published /\ Current' = Current
      /\ published'[Current].scripts = out
      /\ \A c \in DOMAIN published \ {Current} : published'[c] = published[c]
  <2> DEFINE q == [published[Current] EXCEPT !.scripts = out]
  <2>1. published[Current] \in [vout : Nat, scripts : Seq(Output)]
    <3>1. published \in Seq([vout : Nat, scripts : Seq(Output)])
      BY <1>1
    <3> QED
      BY <1>2, <3>1, ElementOf
  <2>2. q \in [vout : Nat, scripts : Seq(Output)] /\ q.scripts = out
    BY <1>1, <2>1
  <2>3. published' = [published EXCEPT ![Current] = q]
    BY <1>1
  <2> HIDE DEF q
  <2>4. /\ published' \in Seq([vout : Nat, scripts : Seq(Output)])
        /\ Len(published') = Len(published)
    <3>1. published \in Seq([vout : Nat, scripts : Seq(Output)])
      BY <1>1
    <3> QED
      BY <1>2, <2>2, <2>3, <3>1, ReplacedSeq
  <2>5. DOMAIN published' = DOMAIN published
    BY <1>1, <2>4
  <2> QED
    BY <1>1, <1>2, <2>2, <2>3, <2>4, <2>5 DEF Current
<1>5. PublishedInv'
  <2>1. \A c \in DOMAIN published' : AsReturned(published'[c].scripts)
    BY <1>1, <1>4 DEF PublicationInv, PublishedInv
  <2>2. Current' <= MaxCalls
    BY <1>1, <1>4 DEF Current
  <2> QED
    BY SMTT(30), <1>4, <2>1, <2>2
    DEF PublishedInv, AsReturned, Contiguous, Received
<1>6. Legal \subseteq Legal'
  <2> SUFFICES ASSUME NEW p \in Pieces, p.call \in DOMAIN published,
                      NEW i \in DOMAIN published[p.call].scripts,
                      p.script = published[p.call].scripts[i]
               PROVE  p \in Legal'
    BY DEF Legal
  <2>1. p.call # Current
    BY <1>2
  <2>2. published'[p.call] = published[p.call] /\ p.call \in DOMAIN published'
    BY <1>4, <2>1
  <2> QED
    BY <2>2 DEF Legal, Pieces
<1>7. added \in Seq(Legal')
  <2>1. \A i \in DOMAIN out : OutputOf(Current, out[i]) \in Legal'
    <3> TAKE i \in DOMAIN out
    <3>1. OutputOf(Current, out[i]) \in Pieces
      BY <1>1, <1>2 DEF Pieces, OutputOf, Current
    <3> QED
      BY <1>2, <1>4, <3>1 DEF Legal, OutputOf
  <2>2. out \in Seq(Output)
    BY <1>1
  <2> QED
    BY <2>1, <2>2
<1>8. tx' \in Seq(Legal')
  <2>1. tx \in Seq(Legal')
    BY <1>6 DEF PublicationInv
  <2> HIDE DEF added
  <2> QED
    BY <1>1, <1>7, <2>1, ConcatProperties
<1> QED
  BY <1>1, <1>3, <1>5, <1>8 DEF PublicationInv

(* The inductive invariant: what stands in the transaction is what calls   *)
(* returned, and what a call returned is contiguous from index 0, complete *)
(* only at its last chunk.                                                 *)
THEOREM PublicationInvariant == Spec => []PublicationInv
<1>1. PublicationInv /\ [Next]_vars => PublicationInv'
  <2> SUFFICES ASSUME PublicationInv, [Next]_vars PROVE PublicationInv'
    OBVIOUS
  <2>1. CASE \E n \in EvidenceLens : Publish(n)
    BY <2>1, PublishInv
  <2>2. CASE Split
    <3>1. DepositInv' /\ SplitInv' /\ UNCHANGED <<published, tx, faults>>
      BY <2>2, SplitStepInv DEF Split, PublicationInv
    <3>2. PublishedInv' /\ Legal' = Legal
      BY <3>1 DEF PublicationInv, PublishedInv, Current, Legal, AsReturned,
                  Contiguous, Received
    <3> QED
      BY <3>1, <3>2 DEF PublicationInv
  <2>3. CASE Place
    BY <2>3, PlaceInv
  <2>4. CASE AddOther \/ Lose \/ Repeat \/ Swap
    BY <2>4, OtherStepsInv
  <2>5. CASE UNCHANGED vars
    BY <2>5, OutputsInv DEF vars, PublicationInv
  <2> QED
    BY <2>1, <2>2, <2>3, <2>4, <2>5 DEF Next
<1> QED
  BY <1>1, InitInv, PTL DEF Spec

(* Every variable has the type the code gives it.                          *)
THEOREM PublicationTypeCorrect == Spec => []TypeOK
<1>1. PublicationInv => TypeOK
  <2> SUFFICES ASSUME PublicationInv PROVE TypeOK
    OBVIOUS
  <2>1. tx \in Seq({Other} \cup Pieces)
    BY DEF PublicationInv, Legal
  <2> QED
    BY <2>1 DEF PublicationInv, PublishedInv, DepositInv, TypeOK
<1> QED
  BY <1>1, PublicationInvariant, PTL

-----------------------------------------------------------------------------
LEMMA PieceIsNotOther ==
  ASSUME NEW c, NEW script
  PROVE  OutputOf(c, script) # Other
<1>1. DOMAIN OutputOf(c, script) = {"call", "script"}
  BY DEF OutputOf
<1>2. DOMAIN Other = {"call"}
  BY DEF Other
<1> QED
  BY <1>1, <1>2

(* A reader is not done before the last of a call's outputs.               *)
LEMMA PrefixIncomplete ==
  ASSUME NEW s, AsReturned(s), NEW k \in 1..Len(s) - 1
  PROVE  /\ s[1].kind = "multipart"
         /\ s[k].start + (s[k].to - s[k].from) < s[1].total
<1>1. Len(s) \in Nat /\ Len(s) >= 2 /\ k + 1 \in DOMAIN s /\ 1 \in DOMAIN s
  BY DEF AsReturned
<1>2. s[1].kind = "multipart" /\ s[k + 1].start < s[k + 1].total
  BY <1>1 DEF AsReturned
<1>3. /\ s[k + 1].start = s[k].start + (s[k].to - s[k].from)
      /\ s[k + 1].total = s[1].total
  BY <1>1 DEF AsReturned, Contiguous
<1> QED
  BY <1>2, <1>3

(* The outputs from vout on, k of them, and their scripts.                 *)
LEMMA RunOf ==
  ASSUME PublicationInv, NEW vout \in Nat, NEW k \in 1..Len(tx) - vout
  PROVE  LET run == Run(vout, k) IN
         /\ run \in Seq(Legal) /\ Len(run) = k /\ run # <<>>
         /\ \A i \in 1..k : run[i] = tx[vout + i]
         /\ Scripts(run) = [i \in 1..k |-> tx[vout + i].script]
         /\ Len(Scripts(run)) = k /\ Scripts(run) # <<>>
<1> DEFINE run == Run(vout, k)
<1>1. tx \in Seq(Legal) /\ Len(tx) \in Nat /\ k \in Nat /\ k > 0
      /\ vout + k <= Len(tx)
  BY DEF PublicationInv
<1>2. \A i \in vout + 1..vout + k : tx[i] \in Legal
  BY <1>1
<1>3. /\ run \in Seq(Legal) /\ Len(run) = k
      /\ \A i \in 1..k : run[i] = tx[vout + i]
  BY <1>1, <1>2, SubSeqProperties DEF Run
<1> HIDE DEF run
<1>4. DOMAIN run = 1..k
  BY <1>1, <1>3
<1>5. Scripts(run) = [i \in 1..k |-> tx[vout + i].script]
  BY <1>3, <1>4 DEF Scripts
<1>6. Len(Scripts(run)) = k /\ Scripts(run) # <<>>
  BY <1>1, <1>5
<1>7. run # <<>>
  BY <1>1, <1>3
<1> QED
  BY <1>3, <1>5, <1>6, <1>7 DEF run

(* When the outputs from vout on are those of one call, from its first,    *)
(* they are complete exactly when they are all of them.                    *)
LEMMA CompleteIsAll ==
  ASSUME PublicationInv, NEW c \in DOMAIN published,
         NEW vout \in Nat, NEW k \in 1..Len(tx) - vout,
         k <= Len(published[c].scripts),
         \A i \in 1..k : tx[vout + i] = OutputOf(c, published[c].scripts[i])
  PROVE  /\ Complete(Run(vout, k)) <=> k = Len(published[c].scripts)
         /\ k = Len(published[c].scripts) => Run(vout, k) = Own(c)
<1> DEFINE s   == published[c].scripts
           run == Run(vout, k)
           ss  == Scripts(run)
<1>1. s \in Seq(Output) /\ Len(s) \in Nat /\ k \in Nat /\ k > 0 /\ k <= Len(s)
  <2>1. published \in Seq([vout : Nat, scripts : Seq(Output)])
    BY DEF PublicationInv, PublishedInv
  <2>2. published[c] \in [vout : Nat, scripts : Seq(Output)]
    BY <2>1, ElementOf
  <2> QED
    BY <2>2 DEF PublicationInv
<1>2. AsReturned(s)
  <2>1. s # <<>>
    BY <1>1
  <2> QED
    BY <2>1 DEF PublicationInv, PublishedInv
<1>3. /\ run \in Seq(Legal) /\ Len(run) = k /\ run # <<>> /\ DOMAIN run = 1..k
      /\ \A i \in 1..k : run[i] = OutputOf(c, s[i])
      /\ DOMAIN ss = 1..k /\ Len(ss) = k /\ ss # <<>>
      /\ ss = [i \in 1..k |-> s[i]]
  <2>1. /\ run \in Seq(Legal) /\ Len(run) = k /\ run # <<>>
        /\ \A i \in 1..k : run[i] = tx[vout + i]
        /\ Len(ss) = k /\ ss # <<>>
        /\ ss = [i \in 1..k |-> tx[vout + i].script]
    BY RunOf
  <2>2. DOMAIN run = 1..k
    BY <2>1
  <2>3. \A i \in 1..k : tx[vout + i] = OutputOf(c, s[i]) /\ tx[vout + i].script = s[i]
    BY DEF OutputOf
  <2> HIDE DEF s, run, ss
  <2> QED
    BY <2>1, <2>2, <2>3
<1> HIDE DEF s, run, ss
<1>4. \A i \in 1..k : run[i] # Other
  BY <1>3, PieceIsNotOther
<1>5. ss[1] = s[1] /\ ss[k] = s[k] /\ 1 \in DOMAIN ss /\ 1 \in DOMAIN s
  BY <1>1, <1>3
<1>6. Received(ss) = s[k].start + (s[k].to - s[k].from)
  BY <1>3, <1>5 DEF Received
<1>7. CASE k < Len(s)
  <2>1. /\ s[1].kind = "multipart"
        /\ s[k].start + (s[k].to - s[k].from) < s[1].total
    BY <1>1, <1>2, <1>7, PrefixIncomplete
  <2>2. s[1].total \in Nat /\ s[k].start + (s[k].to - s[k].from) \in Int
    <3>1. s[1] \in Output /\ s[k] \in Output
      BY <1>1, <1>5, ElementOf
    <3>2. /\ s[1].total \in Nat
          /\ s[k].start \in Nat /\ s[k].to \in Nat /\ s[k].from \in Nat
      BY <3>1 DEF Output
    <3> HIDE DEF Output
    <3> QED
      BY <3>2
  <2>3. ~Complete(run)
    BY <1>5, <1>6, <2>1, <2>2 DEF Complete, ss
  <2> QED
    BY <1>1, <1>7, <2>3 DEF s, run
<1>8. CASE k = Len(s)
  <2>1. ss = s
    BY <1>1, <1>3, <1>8
  <2>2. Complete(run)
    BY <1>2, <1>3, <1>4, <1>8, <2>1 DEF Complete, AsReturned, ss
  <2>3. run = Own(c)
    <3>1. Own(c) = [i \in DOMAIN s |-> OutputOf(c, s[i])]
      BY DEF Own, s
    <3> QED
      BY <1>1, <1>3, <1>8, <3>1
  <2> QED
    BY <1>8, <2>2, <2>3 DEF s, run
<1> QED
  BY <1>1, <1>7, <1>8

LEMMA ReadsBack == PublicationInv => PlacedReadsBack
<1> SUFFICES ASSUME PublicationInv, NEW c \in DOMAIN published,
                    Own(c) # <<>>, InPlace(c)
             PROVE  Joined(published[c].vout) = Own(c)
  BY DEF PlacedReadsBack
<1> DEFINE s    == published[c].scripts
           vout == published[c].vout
           L    == Len(s)
           Room == 1..Len(tx) - vout
<1>1. s \in Seq(Output) /\ vout \in Nat /\ L \in Nat /\ tx \in Seq(Legal)
  <2>1. published \in Seq([vout : Nat, scripts : Seq(Output)])
    BY DEF PublicationInv, PublishedInv
  <2>2. published[c] \in [vout : Nat, scripts : Seq(Output)]
    BY <2>1, ElementOf
  <2> QED
    BY <2>2 DEF PublicationInv
<1>2. L > 0 /\ DOMAIN s = 1..L
  <2>1. s # <<>>
    BY DEF Own
  <2> QED
    BY <1>1, <2>1
<1>3. /\ \A i \in 1..L : vout + i \in DOMAIN tx
      /\ \A i \in 1..L : tx[vout + i] = OutputOf(c, s[i])
  BY <1>2 DEF InPlace, Own
<1>4. L \in Room
  BY <1>1, <1>2, <1>3
<1>5. \A k \in Room : k <= L =>
        /\ Complete(Run(vout, k)) <=> k = L
        /\ k = L => Run(vout, k) = Own(c)
  <2> SUFFICES ASSUME NEW k \in Room, k <= L
               PROVE  /\ Complete(Run(vout, k)) <=> k = L
                      /\ k = L => Run(vout, k) = Own(c)
    OBVIOUS
  <2>1. \A i \in 1..k : tx[vout + i] = OutputOf(c, s[i])
    BY <1>1, <1>3
  <2> QED
    BY <1>1, <2>1, CompleteIsAll
<1> HIDE DEF L, s, vout
<1>6. \A k \in Room : Stops(vout, k) <=> k = L
  <2> TAKE k \in Room
  <2>1. k \in Nat /\ k > 0 /\ k <= Len(tx) - vout /\ Len(tx) \in Nat
    BY <1>1
  <2>2. \A j \in 1..k - 1 : j \in Room
    BY <1>1, <2>1
  <2>3. CASE k <= L
    <3>1. \A j \in 1..k - 1 : ~Complete(Run(vout, j))
      BY <1>1, <1>5, <2>1, <2>2, <2>3
    <3> QED
      BY <1>5, <2>3, <3>1 DEF Stops
  <2>4. CASE k > L
    <3>1. L \in 1..k - 1 /\ k # L
      BY <1>1, <1>2, <2>1, <2>4
    <3>2. Complete(Run(vout, L))
      BY <1>1, <1>4, <1>5
    <3> QED
      BY <3>1, <3>2 DEF Stops
  <2> QED
    BY <1>1, <2>1, <2>3, <2>4
<1> HIDE DEF Room
<1>7. (CHOOSE k \in Room : Stops(vout, k)) = L
  BY <1>4, <1>6
<1>8. Joined(vout) = Run(vout, L)
  BY <1>4, <1>6, <1>7 DEF Joined, Room
<1>9. Run(vout, L) = Own(c)
  BY <1>1, <1>4, <1>5
<1> QED
  BY <1>8, <1>9 DEF vout

LEMMA NoPart == PublicationInv => NoPartPasses
<1> SUFFICES ASSUME PublicationInv, NEW vout \in 0..Len(tx),
                    Joined(vout) # None,
                    NEW c \in DOMAIN published,
                    \A i \in DOMAIN Joined(vout) : Joined(vout)[i].call = c
             PROVE  Joined(vout) = Own(c)
  BY DEF NoPartPasses
<1> DEFINE Room == 1..Len(tx) - vout
           s    == published[c].scripts
<1>0. vout \in Nat
  BY DEF PublicationInv
<1>1. PICK k \in Room : Joined(vout) = Run(vout, k) /\ Complete(Run(vout, k))
  <2>1. \E k \in Room : Stops(vout, k)
    BY DEF Joined
  <2> QED
    BY <2>1 DEF Joined, Stops
<1> DEFINE run == Run(vout, k)
           ss  == Scripts(run)
<1>2. /\ run \in Seq(Legal) /\ Len(run) = k /\ run # <<>>
      /\ \A i \in 1..k : run[i] = tx[vout + i]
      /\ ss = [i \in 1..k |-> tx[vout + i].script]
      /\ Len(ss) = k /\ ss # <<>>
  BY <1>0, RunOf
<1>3. k \in Nat /\ k > 0 /\ DOMAIN run = 1..k
  BY <1>2
<1>4. \A i \in 1..k : ss[i] = run[i].script
  BY <1>2
<1>5. Complete(run) /\ \A i \in 1..k : run[i].call = c
  BY <1>1, <1>3
<1> HIDE DEF run, ss
<1>6. \A i \in 1..k : \E j \in DOMAIN s :
        ss[i] = s[j] /\ run[i] = OutputOf(c, s[j])
  <2> TAKE i \in 1..k
  <2>1. run[i] \in Legal /\ run[i] # Other
    BY <1>2, <1>3, <1>5, ElementOf DEF Complete
  <2>2. run[i] \in Pieces /\ \E j \in DOMAIN published[run[i].call].scripts :
          run[i].script = published[run[i].call].scripts[j]
    BY <2>1 DEF Legal
  <2>3. PICK j \in DOMAIN s : run[i].script = s[j]
    BY <1>5, <2>2
  <2>4. run[i] = OutputOf(c, s[j])
    BY <1>5, <2>2, <2>3 DEF Pieces, OutputOf
  <2> QED
    BY <1>4, <2>3, <2>4
<1>7. AsReturned(s) /\ s \in Seq(Output) /\ Len(s) \in Nat
  <2>1. \E j \in DOMAIN s : TRUE
    BY <1>3, <1>6
  <2>2. s # <<>>
    BY <2>1
  <2> QED
    BY <2>2 DEF PublicationInv, PublishedInv, AsReturned
<1>8. DOMAIN s = 1..Len(s)
  BY <1>7
<1>9. Own(c) = [i \in 1..Len(s) |-> OutputOf(c, s[i])]
  BY <1>8 DEF Own
<1> HIDE DEF s
<1>10. k = Len(s) /\ \A i \in 1..k : run[i] = OutputOf(c, s[i])
  <2>1. CASE k = 1 /\ ss[1].kind = "whole"
    <3>1. PICK j \in DOMAIN s : ss[1] = s[j] /\ run[1] = OutputOf(c, s[j])
      BY <1>3, <1>6
    <3>2. Len(s) = 1
      BY <2>1, <3>1, <1>7 DEF AsReturned
    <3>3. j = 1
      BY <1>8, <3>1, <3>2
    <3> QED
      BY <2>1, <3>1, <3>2, <3>3
  <2>2. CASE /\ \A i \in 1..k : ss[i].kind = "multipart"
             /\ Contiguous(ss, ss[1].total) /\ Received(ss) = ss[1].total
    <3>1. \A i \in 1..k : i \in DOMAIN s /\ ss[i] = s[i] /\ run[i] = OutputOf(c, s[i])
      <4> TAKE i \in 1..k
      <4>1. PICK j \in DOMAIN s : ss[i] = s[j] /\ run[i] = OutputOf(c, s[j])
        BY <1>6
      <4>2. ss[i].index = i - 1
        BY <1>2, <2>2 DEF Contiguous
      <4>3. s[j].index = j - 1
        BY <1>7 DEF AsReturned, Contiguous
      <4>4. i = j
        BY <1>3, <1>8, <4>1, <4>2, <4>3
      <4> QED
        BY <4>1, <4>4
    <3>2. k <= Len(s)
      BY <1>3, <1>7, <1>8, <3>1
    <3>3. k < Len(s) => FALSE
      <4> SUFFICES ASSUME k < Len(s) PROVE FALSE
        OBVIOUS
      <4>1. s[k].start + (s[k].to - s[k].from) < s[1].total
        BY <1>3, <1>7, PrefixIncomplete
      <4>2. Received(ss) = s[k].start + (s[k].to - s[k].from)
        <5>1. ss[k] = s[k]
          BY <1>3, <3>1
        <5> QED
          BY <1>2, <5>1 DEF Received
      <4>3. s[1].total \in Nat
        <5>1. s[1] \in Output
          BY <1>3, <1>7, <3>1, ElementOf
        <5> QED
          BY <5>1 DEF Output
      <4>4. ss[1] = s[1]
        BY <1>3, <3>1
      <4>5. Received(ss) < s[1].total /\ Received(ss) = s[1].total
        BY <2>2, <4>1, <4>2, <4>4
      <4> QED
        BY <4>3, <4>5
    <3> QED
      BY <1>3, <1>7, <3>1, <3>2, <3>3
  <2> QED
    BY <1>3, <1>2, <1>5, <2>1, <2>2 DEF Complete, ss
<1>11. run = Own(c)
  <2>1. run = [i \in 1..k |-> run[i]]
    BY <1>2, <1>3
  <2> QED
    BY <1>9, <1>10, <2>1
<1> QED
  BY <1>1, <1>11 DEF run

(* A publication placed as data_deposit_output_scripts asks is read back,  *)
(* whole, however long it is and whatever surrounds it.                    *)
THEOREM PublishedReadsBack == Spec => []PlacedReadsBack
BY ReadsBack, PublicationInvariant, PTL

(* However many outputs are lost, repeated, swapped or shifted, no part or *)
(* reordering of one call's outputs passes for an evidence.                *)
THEOREM NoPartEverPasses == Spec => []NoPartPasses
BY NoPart, PublicationInvariant, PTL
=============================================================================
