----------------------------- MODULE Publication -----------------------------
(***************************************************************************)
(* What a caller does with the scripts of encrypt_public_decrypt: it names *)
(* the first output, data_deposit_vout_index, before the call, learns from *)
(* the call how many scripts there are, and puts them into a transaction   *)
(* of its own making, "contiguously starting at data_deposit_vout_index"   *)
(* (api.rs), beside other outputs and other publications.  The caller may  *)
(* get it wrong: an output slips in first, one is lost, repeated or        *)
(* swapped.  A reader has the pointer and the outputs.                     *)
(***************************************************************************)
EXTENDS BreakApart, Option, SequencesExt

CONSTANTS
  EvidenceLens,   \* the evidences' lengths
  MaxCalls,       \* bounds the publications of a transaction,
  MaxOthers,      \* its outputs of another kind
  MaxFaults       \* and the caller's slips

ASSUME PublicationAssumption ==
  /\ EvidenceLens \subseteq Nat
  /\ MaxCalls \in Nat /\ MaxOthers \in Nat /\ MaxFaults \in Nat

VARIABLES
  published,   \* per call: the vout it was given and the scripts it returned
  tx,          \* the transaction's outputs
  faults       \* slips so far

vars == <<published, tx, faults, depositVars>>

Other == [call |-> None]
OutputOf(call, script) == [call |-> call, script |-> script]
Own(c) == [i \in DOMAIN published[c].scripts |->
             OutputOf(c, published[c].scripts[i])]

Current == Len(published)

(* The scripts of every call that returned are in the transaction.         *)
Placed == \A c \in DOMAIN published : published[c].scripts # <<>>

-----------------------------------------------------------------------------
Init ==
  /\ published = <<>> /\ tx = <<>> /\ faults = 0
  /\ DepositInit

(* A call begins: the caller means to put its scripts next.                *)
Publish(n) ==
  /\ Placed /\ Current < MaxCalls
  /\ published' = Append(published, [vout |-> Len(tx), scripts |-> <<>>])
  /\ BuildTrial(n)
  /\ UNCHANGED <<tx, faults>>

Split ==
  /\ KeepTrial \/ BeginSplit \/ AppendChunk \/ FinishSplit
  /\ UNCHANGED <<published, tx, faults>>

(* The call has returned and its scripts are added, in the order given.    *)
Place ==
  /\ phase = "done" /\ ~Placed
  /\ published' = [published EXCEPT ![Current].scripts = out]
  /\ tx' = tx \o [i \in DOMAIN out |-> OutputOf(Current, out[i])]
  /\ UNCHANGED <<faults, depositVars>>

(* The identity's own output, change, and so on: harmless before a call    *)
(* begins, not between a call and its Place.                               *)
AddOther ==
  /\ Cardinality({i \in DOMAIN tx : tx[i] = Other}) < MaxOthers
  /\ tx' = Append(tx, Other)
  /\ UNCHANGED <<published, faults, depositVars>>

Slip(outputs) ==
  /\ faults < MaxFaults
  /\ faults' = faults + 1
  /\ tx' = outputs
  /\ UNCHANGED <<published, depositVars>>

Lose   == \E i \in DOMAIN tx : Slip(RemoveAt(tx, i))
Repeat == \E i \in DOMAIN tx : Slip(InsertAt(tx, i, tx[i]))
Swap   == \E i, j \in DOMAIN tx :
            i < j /\ Slip([tx EXCEPT ![i] = tx[j], ![j] = tx[i]])

Next ==
  \/ \E n \in EvidenceLens : Publish(n)
  \/ Split \/ Place \/ AddOther \/ Lose \/ Repeat \/ Swap

Spec == Init /\ [][Next]_vars

-----------------------------------------------------------------------------
Scripts(run) == [i \in DOMAIN run |-> run[i].script]

(* The daemon's reader (block.cpp:844-873, as api.rs and                   *)
(* notary_evidence.rs quote it): a whole evidence is taken as it is;       *)
(* otherwise the multipart outputs that follow each other, from index 0    *)
(* on, each with the same total and starting where the one before ended,   *)
(* until the total is reached.                                             *)
Complete(run) ==
  LET scripts == Scripts(run) IN
  /\ run # <<>> /\ \A i \in DOMAIN run : run[i] # Other
  /\ \/ Len(run) = 1 /\ scripts[1].kind = "whole"
     \/ /\ \A i \in DOMAIN run : scripts[i].kind = "multipart"
        /\ Contiguous(scripts, scripts[1].total)
        /\ Received(scripts) = scripts[1].total

Run(vout, k) == SubSeq(tx, vout + 1, vout + k)

(* The reader stops at the first output that completes an evidence.        *)
Stops(vout, k) ==
  Complete(Run(vout, k)) /\ \A j \in 1..k - 1 : ~Complete(Run(vout, j))

(* The outputs a reader joins from vout on, or None.                       *)
Joined(vout) ==
  IF \E k \in 1..Len(tx) - vout : Stops(vout, k)
  THEN Run(vout, CHOOSE k \in 1..Len(tx) - vout : Stops(vout, k))
  ELSE None

InPlace(c) ==
  LET vout == published[c].vout IN
  \A i \in DOMAIN Own(c) : vout + i \in DOMAIN tx /\ tx[vout + i] = Own(c)[i]

Pieces == [call : 1..MaxCalls, script : Output]

TypeOK ==
  /\ DepositTypeOK
  /\ published \in Seq([vout : Nat, scripts : Seq(Output)])
  /\ Current <= MaxCalls
  /\ tx \in Seq({Other} \cup Pieces)
  /\ faults \in 0..MaxFaults

(* A publication whose scripts stand in the transaction as                 *)
(* data_deposit_output_scripts asks, contiguous from its vout and in order,*)
(* is read back, all of it and nothing more, whatever stands around it:    *)
(* the chunks of a publication before or behind are not taken for its own, *)
(* nor does a slip elsewhere reach it.                                     *)
PlacedReadsBack ==
  \A c \in DOMAIN published :
    Own(c) # <<>> /\ InPlace(c) => Joined(published[c].vout) = Own(c)

(* Whatever is lost, repeated, swapped or shifted, no reader joins a part  *)
(* of one call's outputs, or its outputs in another order, into something  *)
(* that passes for an evidence: what it joins is a call's outputs as       *)
(* returned, or chunks of several calls, which no single ivk opens         *)
(* (MultiPartDescriptor's index, total_length and start together).         *)
NoPartPasses ==
  \A vout \in 0..Len(tx) :
    LET run == Joined(vout) IN
    run # None => \A c \in DOMAIN published :
      (\A i \in DOMAIN run : run[i].call = c) => run = Own(c)
=============================================================================
