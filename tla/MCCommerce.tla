------------------------------ MODULE MCCommerce -----------------------------
(* What two parties owe each other and what is said of them afterwards:       *)
(* metered use and its reconciliation, a dispute about it, the price it is    *)
(* charged at, the channel it is paid over, and the standing it leaves. A     *)
(* behaviour runs one of these parts, each over its own state.                *)
EXTENDS PaymentChannel, Metering, Audit, Pricing, Trust

VARIABLE part

MCInit ==
    /\ Init
    /\ part \in {"metering", "dispute", "price", "channel", "trust", "conduct"}
    /\ part # "channel" => patient
    /\ MInit /\ AInit /\ PInit /\ TrInit
MCNext ==
    /\ UNCHANGED part
    /\ \/ part = "metering" /\ MNext /\ UNCHANGED <<dispute, pvars, vars, trustvars>>
       \/ part = "dispute" /\ ANext /\ UNCHANGED <<mvars, pvars, vars, trustvars>>
       \/ part = "price" /\ PNext /\ UNCHANGED <<mvars, dispute, vars, trustvars>>
       \/ part = "channel" /\ Next /\ UNCHANGED <<mvars, dispute, pvars, trustvars>>
       \/ part = "trust" /\ TrNext /\ UNCHANGED <<mvars, dispute, pvars, vars>>
       \/ part = "conduct" /\ VNext /\ UNCHANGED <<mvars, dispute, pvars, vars>>

MCSpec == MCInit /\ [][MCNext]_<<mvars, dispute, pvars, vars, trustvars, part>>

------------------------------------------------------------------------------
MCLocalUsages == {[units |-> 1, cost |-> 1], [units |-> 1, cost |-> 9]}
MCClaims == {-3, 1, 4}
MCChains == UNION {[1 .. n -> 0 .. 2] : n \in 0 .. 3}

MCRequests ==
    {[id |-> "v1", about |-> "a", level |-> 3, sound |-> TRUE, validFrom |-> 1, validUntil |-> 2],
     [id |-> "v2", about |-> "a", level |-> 1, sound |-> TRUE, validFrom |-> 0, validUntil |-> 0],
     [id |-> "v3", about |-> "b", level |-> 2, sound |-> FALSE, validFrom |-> 0, validUntil |-> 0],
     [id |-> "v4", about |-> "b", level |-> 4, sound |-> TRUE, validFrom |-> 0, validUntil |-> 0]}
MCBehaviorReports == {-3}
MCCapAt == << 8, 20, 40 >>
==============================================================================
