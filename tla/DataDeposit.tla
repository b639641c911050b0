----------------------------- MODULE DataDeposit -----------------------------
(***************************************************************************)
(* The data-deposit outputs on their own: evidences of any length in       *)
(* EvidenceLens go through the threshold and break_apart, one call after   *)
(* the other, and the result is compared with what EvidenceChannel         *)
(* promises, through the eyes of the daemon that reads the outputs.        *)
(***************************************************************************)
EXTENDS BreakApart, Option, SequencesExt

CONSTANT EvidenceLens

ASSUME EvidenceLensAssumption == EvidenceLens \subseteq Nat /\ None \notin Nat

Init == DepositInit

Work == KeepTrial \/ BeginSplit \/ AppendChunk \/ FinishSplit

Next == Work \/ \E n \in EvidenceLens : BuildTrial(n)

(* A call is a sequence of statements of one thread: it does not stop      *)
(* half-way.                                                               *)
Spec == Init /\ [][Next]_depositVars /\ WF_depositVars(Work)

-----------------------------------------------------------------------------
(* The daemon's reassembly (block.cpp:844-873, as notary_evidence.rs       *)
(* quotes it): the buffer has the first chunk's total, each chunk must     *)
(* carry on at the byte reached, under the next index, with that total,    *)
(* and the bytes it carries must be those of its place.                    *)
ReadBack(scripts) ==
  LET filled[i \in 0..Len(scripts)] ==
        IF i = 0 THEN 0 ELSE filled[i - 1] + (scripts[i].to - scripts[i].from)
      InPlace(i) ==
        /\ scripts[i].index = i - 1
        /\ scripts[i].total = scripts[1].total
        /\ scripts[i].start = filled[i - 1] /\ scripts[i].from = filled[i - 1]
  IN  IF /\ \A i \in DOMAIN scripts : InPlace(i)
         /\ filled[Len(scripts)] = scripts[1].total
      THEN scripts[1].total ELSE None

Channel == INSTANCE EvidenceChannel WITH
  Evidence <- EvidenceLens,
  accepted <- IF phase = "idle" THEN None ELSE total,
  readBack <- IF phase = "done" THEN ReadBack(out) ELSE None

(* Every evidence is delivered: the threshold and break_apart implement    *)
(* the channel (api.rs step 4, break_apart), and always return.            *)
Delivers == Channel!Spec

(* The outputs already pushed are never rewritten while break_apart runs,  *)
(* and it ends with one output per MaxChunk bytes begun.                   *)
OnlyAppends ==
  [][ phase = "split" =>
        /\ IsPrefix(out, out')
        /\ phase' = "done" => Len(out) = (total + MaxChunk - 1) \div MaxChunk
    ]_depositVars
=============================================================================
