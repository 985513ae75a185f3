-------------------------------- MODULE Tokens --------------------------------
(* The life of capability tokens as their holders build it: an issuer creates *)
(* a token, each holder attenuates it for the next, narrows it to a tool of   *)
(* its chain or splits its quantity. A call the code refuses changes nothing. *)
EXTENDS Capability

CONSTANTS Agents,
          Grants,       \* what issuers grant: [issuer, subject, resource, verbs,
                        \*   constraints, depth, validity, schedule]
          Deltas,       \* what delegators ask for: [verbs, constraints, resource, schedule]
          Tools, Splits, \* tool classes, amounts of splits
          Usages,       \* what a holder may have spent: [used, purpose]
          MaxTokens, MaxTime

ASSUME TokensAssumption ==
    /\ \A g \in Grants : /\ g.constraints \in Constraints /\ g.schedule \in Schedules
                          /\ {g.depth, g.validity} \subseteq Int
    /\ \A d \in Deltas : d.constraints \in Constraints /\ d.schedule \in Schedules
    /\ Splits \subseteq Seq(Int) /\ Unbounded \in Int
    /\ \A u \in Usages : u.used \in [Fields -> Int]

VARIABLES tokens,       \* the tokens issued so far; the place is the hash
          now

vars == <<tokens, now>>

Init == tokens = << >> /\ now = 0

Room(n) == Len(tokens) + n <= MaxTokens

Create(g) ==
    /\ Room(1)
    /\ WellFormed(g.resource)
    /\ tokens' = Append(tokens, CreateToken(g.issuer, g.subject, g.resource, g.verbs,
                                            g.constraints, g.depth, g.validity, g.schedule, now))
    /\ UNCHANGED now

\* attenuate_token by the holder of token i.
Attenuate(i, subject, d) ==
    /\ Room(1)
    /\ MayAttenuate(tokens[i], d, now)
    /\ tokens' = Append(tokens, AttenuateToken(tokens[i], i, subject, d, tokens[i].position, now))
    /\ UNCHANGED now

SubInvoke(i, tool, subject, d) ==
    /\ Room(1)
    /\ MaySubInvoke(tokens[i], tool)
    /\ d.resource = NoUri
    /\ MayAttenuate(tokens[i], d, now)
    /\ tokens' = Append(tokens, AttenuateToken(tokens[i], i, subject, d, tokens[i].position + 1, now))
    /\ UNCHANGED now

Split(i, amounts) ==
    /\ Room(Len(amounts))
    /\ MaySplit(tokens[i], amounts, now)
    /\ tokens' = tokens \o SplitToken(tokens[i], i, amounts, now)
    /\ UNCHANGED now

Tick == now < MaxTime /\ now' = now + 1 /\ UNCHANGED tokens

Next ==
    \/ \E g \in Grants : Create(g)
    \/ \E i \in DOMAIN tokens, s \in Agents, d \in Deltas : Attenuate(i, s, d)
    \/ \E i \in DOMAIN tokens, tool \in Tools, s \in Agents, d \in Deltas : SubInvoke(i, tool, s, d)
    \/ \E i \in DOMAIN tokens, a \in Splits : Split(i, a)
    \/ Tick

Spec == Init /\ [][Next]_vars

-------------------------------------------------------------------------------
(* The hashes from the root of token i's chain to i.                          *)
Chains == LET chain[i \in 0 .. Len(tokens)] ==
                  IF i = 0 THEN << >> ELSE Append(chain[tokens[i].parent], i)
          IN  chain
Ancestors(i) == ToSet(Chains[i])

\* What the delegation functions build, the verifier accepts: every chain
\* passes verify_delegation_chain, and with its expiry checks for as long as
\* its last token is in its time, whatever mixture of attenuations, tool steps
\* and splits built it.
DelegationVerifies ==
    \A i \in DOMAIN tokens :
        ChainVerifies(tokens, Chains[i], InTime(tokens[i], now), now)

\* Down a chain of any length nothing grows: the verbs, the expiry, the depth
\* and, at every age, what may be spent and for which purpose. The code compares
\* the schedules of a link at their own thresholds only, and only with the parent.
Spending(u) == [used |-> u.used, data |-> {}, purpose |-> u.purpose, tool |-> ""]
Admits(t, u, age) == UsageAllowed(t, Spending(u), Effective(t.constraints, t.schedule, age))
NarrowsDownChains ==
    \A i \in DOMAIN tokens : \A a \in Ancestors(i) \ {i} :
        LET t == tokens[i] s == tokens[a]
        IN  /\ t.verbs \subseteq s.verbs
            /\ t.constraints.not_after <= s.constraints.not_after
            /\ t.depth < s.depth
            /\ \A age \in 0 .. MaxTime, u \in Usages : Admits(t, u, age) => Admits(s, u, age)

Pairs == {p \in (DOMAIN tokens) \X (DOMAIN tokens) : p[1] < p[2]}
Leaves(p) == [k \in DOMAIN p |-> tokens[p[k]]]
Binds(c, ts) ==
    \A k \in DOMAIN ts :
        /\ c.not_before >= ts[k].constraints.not_before
        /\ c.not_after <= ts[k].constraints.not_after
        /\ \A f \in Fields : c.limit[f] <= ts[k].constraints.limit[f]

\* Combining tokens gives no more than each gives: the constraints of an
\* aggregate or a multi-owner token bind as hard as every source's, and while
\* all the chains of a multi-owner token verify its own window is open.
CombiningRestricts ==
    \A p \in Pairs :
        /\ MayAggregate(Leaves(p), now) => Binds(AggregateTokens(Leaves(p)).constraints, Leaves(p))
        /\ VerifyMultiOwner(tokens, [k \in DOMAIN p |-> Chains[p[k]]], TRUE, now) =>
               LET c == EffectiveConstraints(Leaves(p))
               IN  Binds(c, Leaves(p)) /\ c.not_before <= now /\ now < c.not_after

\* Whatever is built from a token, alone or with others, gives less than it.
AuthorityShrinks == NarrowsDownChains /\ CombiningRestricts
===============================================================================
