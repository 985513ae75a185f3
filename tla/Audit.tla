---------------------------------- MODULE Audit ----------------------------------
(* A dispute before the auditor (src/src/qasp/auditor/service.py, fault.py,   *)
(* src/src/qasp/protocol/dispute.py). A receipt chain is the sequence of its  *)
(* receipts' total_units; a party without receipts has << >>, which the code  *)
(* treats as no chain. Whether a chain verifies is a choice.                  *)
EXTENDS Integers, Sequences, FiniteSets, FiniteSetsExt, SequencesExt

CONSTANTS ClaimedValues, Chains, MaxEvidence

\* Neither a claim nor the units of a receipt are checked to be positive.
ASSUME DisputeAssumption == ClaimedValues \subseteq Int /\ Chains \subseteq Seq(Int)

SystematicThreshold == 3
Parties == {"claimant", "respondent"}
Opponent(p) == IF p = "claimant" THEN "respondent" ELSE "claimant"

VARIABLE dispute   \* the DisputeRecord, its fault record and the verdict's award

NoFault == [party |-> "none", kind |-> "none"]
NoDispute == [state |-> "none", claimed |-> 0, evidence |-> [p \in Parties |-> 0],
              verdict |-> "none", award |-> 0, fault |-> NoFault]

AInit == dispute = NoDispute

OpenDispute(value) ==
    /\ dispute.state = "none"
    /\ dispute' = [dispute EXCEPT !.state = "evidence_submission", !.claimed = value]

SubmitEvidence(p) ==
    /\ dispute.state = "evidence_submission"
    /\ dispute.evidence[p] < MaxEvidence
    /\ dispute' = [dispute EXCEPT !.evidence[p] = @ + 1]

-------------------------------------------------------------------------------
\* _compare_receipt_chains: the respondent's units less the claimant's, of every
\* sequence number; a chain has no receipt beyond its end.
UnitsAt(c, n) == IF n \in DOMAIN c THEN c[n] ELSE 0
Differences(c) ==
    [n \in DOMAIN c["claimant"] \cup DOMAIN c["respondent"] |->
        UnitsAt(c["respondent"], n) - UnitsAt(c["claimant"], n)]
Discrepant(d) == {n \in DOMAIN d : d[n] # 0}

\* _compute_adjustment
ClaimantLess(d) == MapThenSumSet(LAMBDA n : -d[n], Discrepant(d))
Adjustment(d) == MapThenSumSet(LAMBDA n : d[n], Discrepant(d))

Decision(verdict, award) == [verdict |-> verdict, award |-> award]

\* _evaluate_dispute
EvaluateDispute(c, valid) ==
    LET d == Differences(c)
        for == Decision("claimant", dispute.claimed)
        against == Decision("respondent", 0)
        split == Decision("split", dispute.claimed \div 2)
        e == dispute.evidence
    IN  CASE ~ valid["respondent"] /\ valid["claimant"] -> for
          [] ~ valid["claimant"] /\ valid["respondent"] -> against
          [] ~ valid["claimant"] /\ ~ valid["respondent"] -> Decision("dismissed", 0)
          [] OTHER ->
             IF c["claimant"] # << >> /\ c["respondent"] # << >> /\ Discrepant(d) # {}
             THEN CASE Adjustment(d) > 0 -> Decision("claimant", Adjustment(d))
                    [] Adjustment(d) < 0 -> against
                    [] OTHER -> split
             ELSE IF c["claimant"] = << >> /\ c["respondent"] = << >>
             THEN CASE e["claimant"] > e["respondent"] -> for
                    [] e["respondent"] > e["claimant"] -> against
                    [] OTHER -> split
             ELSE Decision("dismissed", 0)

\* FaultAttributor.attribute. Discrepancies are only looked for between two chains.
Attribute(c, valid) ==
    LET d == Differences(c)
        compared == c["claimant"] # << >> /\ c["respondent"] # << >>
        over == {n \in DOMAIN d : compared /\ d[n] > 0}
        under == {n \in DOMAIN d : compared /\ d[n] < 0}
        fault(p, kind) == [party |-> p, kind |-> kind]
    IN  CASE \E p \in Parties : ~ valid[p] /\ valid[Opponent(p)] ->
               fault(CHOOSE p \in Parties : ~ valid[p], "evidence_tampering")
          [] valid["claimant"] = valid["respondent"] /\ over \cup under = {} -> NoFault
          [] OTHER ->
             CASE Cardinality(over) >= SystematicThreshold /\ under = {} ->
                    fault("respondent", "systematic_overcharge")
               [] Cardinality(under) >= SystematicThreshold /\ over = {} ->
                    fault("claimant", "systematic_underreport")
               [] OTHER -> fault("respondent", "metering_malfunction")

\* review_dispute and _issue_verdict: a chain that is not given is taken to be valid.
ReviewDispute(c, valid) ==
    /\ dispute.state = "evidence_submission"
    /\ \A p \in Parties : c[p] = << >> => valid[p]
    /\ LET decision == EvaluateDispute(c, valid)
       IN  dispute' = [dispute EXCEPT !.state = "resolved", !.verdict = decision.verdict,
                                      !.award = decision.award, !.fault = Attribute(c, valid)]

ANext ==
    \/ \E value \in ClaimedValues : OpenDispute(value)
    \/ \E p \in Parties : SubmitEvidence(p)
    \/ \E c \in [Parties -> Chains], valid \in [Parties -> BOOLEAN] : ReviewDispute(c, valid)

ASpec == AInit /\ [][ANext]_dispute

-------------------------------------------------------------------------------
\* The verdict and the fault record of one dispute come from two passes over the
\* same chains, and never contradict: a party that tampered, or that misreports
\* in one direction throughout, does not win, and only a claimant that does not
\* lose is awarded anything. An award is negative only if the claim was.
FaultMatchesVerdict ==
    dispute.state = "resolved" =>
        /\ dispute.fault.kind \in {"evidence_tampering", "systematic_overcharge", "systematic_underreport"}
             => dispute.verdict # dispute.fault.party
        /\ dispute.award > 0 => dispute.verdict \in {"claimant", "split"}
        /\ dispute.claimed >= 0 => dispute.award >= 0
===============================================================================
