---------------------------- MODULE MCCapabilities ---------------------------
(* Everything that stands for authority: tokens, their revocation and rate    *)
(* limits, the MACs of relay sessions, tokens that a group signs, tokens that *)
(* cross to another owner, and the bridges that check or hand out tokens. A   *)
(* behaviour runs one of these parts, each over its own state.                *)
EXTENDS Tokens, Revocation, RateLimiter, RelayScm, Threshold, CrossDomain, Bridges

VARIABLE part

MCInit ==
    /\ part \in {"tokens", "revocation", "rate", "macs", "group", "domains", "mcp", "a2a"}
    /\ ScmInit
    /\ part # "macs" => wall = 0
    /\ Init /\ RInit /\ LInit /\ ThInit /\ CInit /\ BInit
MCNext ==
    /\ UNCHANGED part
    /\ \/ part = "tokens" /\ Next /\ UNCHANGED <<rvars, lvars, scmvars, thvars, cvars, bvars>>
       \/ part = "revocation" /\ RNext /\ UNCHANGED <<vars, lvars, scmvars, thvars, cvars, bvars>>
       \/ part = "rate" /\ LNext /\ UNCHANGED <<vars, rvars, scmvars, thvars, cvars, bvars>>
       \/ part = "macs" /\ ScmNext /\ UNCHANGED <<vars, rvars, lvars, thvars, cvars, bvars>>
       \/ part = "group" /\ ThNext /\ UNCHANGED <<vars, rvars, lvars, scmvars, cvars, bvars>>
       \/ part = "domains" /\ CNext /\ UNCHANGED <<vars, rvars, lvars, scmvars, thvars, bvars>>
       \/ part = "mcp" /\ McpNext /\ UNCHANGED <<vars, rvars, lvars, scmvars, thvars, cvars>>
       \/ part = "a2a" /\ A2ANext /\ UNCHANGED <<vars, rvars, lvars, scmvars, thvars, cvars>>

MCSpec == MCInit /\ [][MCNext]_<<vars, rvars, lvars, scmvars, thvars, cvars, bvars, part>>

------------------------------------------------------------------------------
Alice == "alice"
Bob == "bob"

MCFields == {"quantity_limit", "max_spend"}
Limits(q, s) == [f \in MCFields |-> IF f = "quantity_limit" THEN q ELSE s]

All == << "acme", "gpu", "*" >>
One == << "acme", "gpu", "a100" >>
Part == << "acme", "gpu", "a100", "slice" >>


Decay == << [at |-> 1, limit |-> Limits(2, 9)], [at |-> 3, limit |-> Limits(0, 9)] >>
Slower == << [at |-> 2, limit |-> Limits(1, 9)] >>
Faster == LinearDecay(1, 2, 2)

MCGrants ==
    {[issuer |-> "owner", subject |-> Alice, resource |-> All, verbs |-> {"read", "write"},
      constraints |-> [NoConstraints EXCEPT !.limit = Limits(3, 9), !.scope = {"x"},
                                            !.toolchain = << "search", "sum" >>],
      depth |-> 2, validity |-> 3, schedule |-> Decay],
     [issuer |-> "owner", subject |-> Bob, resource |-> One, verbs |-> {"read"},
      constraints |-> [NoConstraints EXCEPT !.limit = Limits(2, 1), !.not_before = 1, !.not_after = 4,
                                            !.purpose = "audit"],
      depth |-> 1, validity |-> 3, schedule |-> NoSchedule]}

MCDeltas ==
    {[verbs |-> {"read", "write"}, constraints |-> NoConstraints, resource |-> One, schedule |-> Faster],
     [verbs |-> {"read"}, constraints |-> [NoConstraints EXCEPT !.limit = Limits(1, 2), !.purpose = "audit"],
      resource |-> NoUri, schedule |-> Slower],
     [verbs |-> {"read"}, constraints |-> [NoConstraints EXCEPT !.not_after = 2, !.scope = {"y"}],
      resource |-> NoUri, schedule |-> NoSchedule],
     [verbs |-> {"read"}, constraints |-> [NoConstraints EXCEPT !.toolchain = << "sum" >>],
      resource |-> Part, schedule |-> NoSchedule]}

MCUsages == {[used |-> Limits(q, s), purpose |-> p] : q \in 1 .. 2, s \in {2}, p \in {"audit", "train"}}

MCSplits == {<< 1, 1 >>, << 2, 1 >>, << 2, 2 >>}

\* Three tokens in a chain; the last one expires first.
MCParentOf == << 0, 1, 2 >>
MCNotAfter == << 2, 2, 1 >>

MCBindings == {[permissions |-> {"*"}, expiry |-> 2], [permissions |-> {"comm:accept"}, expiry |-> 3]}

MCToolVerbs == [t \in McpTools |-> IF t = "read_x" THEN {"execute", "read"} ELSE {"execute"}]
==============================================================================
