------------------------------ MODULE Capability ------------------------------
(* Capability tokens as values (src/src/qasp/protocol/capability.py and       *)
(* token_aggregation.py): constraints, decay schedules, attenuation,          *)
(* delegation chains, multi-owner tokens and aggregates.                      *)
(*                                                                            *)
(* None is "unbounded (most permissive)" in the code: here the number         *)
(* Unbounded, above every limit in use, for limits and expiry; 0 for          *)
(* not_before; the empty set or sequence, or "", for the others. A token is   *)
(* signed by its issuer, and its hash is its place in the issue order.        *)
EXTENDS Arm, FiniteSets

CONSTANTS Fields,        \* of quantity_limit, rate_limit, max_spend: those in use
          Unbounded

Smaller(a, b) == IF b < a THEN b ELSE a
Larger(a, b) == IF b > a THEN b ELSE a
Prefer(a, b) == IF a # "" THEN a ELSE b

NoSchedule == << >>
NoParent == 0

Constraints == [not_before : Int, not_after : Int, limit : [Fields -> Int],
                period : Int, scope : SUBSET STRING, purpose : STRING, toolchain : Seq(STRING)]
NoConstraints ==
    [not_before |-> 0, not_after |-> Unbounded, limit |-> [f \in Fields |-> Unbounded],
     period |-> 1, scope |-> {}, purpose |-> "", toolchain |-> << >>]

-------------------------------------------------------------------------------
(* Constraints                                                                *)

\* is_tighter_than: the rate period is not compared.
IsTighterThan(c, o) ==
    /\ c.not_before >= o.not_before
    /\ c.not_after <= o.not_after
    /\ \A f \in Fields : c.limit[f] <= o.limit[f]
    /\ o.scope # {} => c.scope \subseteq o.scope
    /\ o.purpose # "" => c.purpose = o.purpose
    /\ o.toolchain # << >> => c.toolchain \in SubSeqs(o.toolchain)

\* An empty side leaves the other as it is; two restrictions are intersected,
\* and what is left may be empty, which reads as no restriction.
MeetScope(a, b) == IF a = {} THEN b ELSE IF b = {} THEN a ELSE a \cap b
MeetToolchain(a, b) ==
    IF a = << >> THEN b ELSE IF b = << >> THEN a
    ELSE SelectSeq(a, LAMBDA t : Contains(b, t))

MeetBounds(a, b) ==
    [not_before |-> Larger(a.not_before, b.not_before),
     not_after  |-> Smaller(a.not_after, b.not_after),
     limit      |-> [f \in Fields |-> Smaller(a.limit[f], b.limit[f])],
     period     |-> a.period,
     scope      |-> MeetScope(a.scope, b.scope),
     purpose    |-> Prefer(a.purpose, b.purpose),
     toolchain  |-> MeetToolchain(a.toolchain, b.toolchain)]

\* tighten: a purpose of the delta replaces, and the period comes with a rate.
NamesRate(d) == "rate_limit" \in Fields /\ d.limit["rate_limit"] # Unbounded
Tighten(c, d) ==
    [MeetBounds(c, d) EXCEPT
        !.period  = IF NamesRate(d) THEN d.period ELSE c.period,
        !.purpose = Prefer(d.purpose, c.purpose)]

IntersectConstraints(cs) ==
    LET met[i \in DOMAIN cs] == IF i = 1 THEN cs[1] ELSE MeetBounds(met[i - 1], cs[i])
    IN  met[Len(cs)]

-------------------------------------------------------------------------------
(* Temporal attenuation: a schedule is a sequence of [at, limit], ascending.  *)

Schedules == {schedule \in Seq([at : Int, limit : [Fields -> Int]]) :
                 \A i, j \in DOMAIN schedule : i < j => schedule[i].at < schedule[j].at}

Reached(schedule, elapsed) == {i \in DOMAIN schedule : schedule[i].at <= elapsed}

\* evaluate_temporal_constraints_raw: the latest threshold reached applies.
Effective(c, schedule, elapsed) ==
    IF elapsed < 0 \/ Reached(schedule, elapsed) = {} THEN c
    ELSE LET active == schedule[Cardinality(Reached(schedule, elapsed))]
         IN  [c EXCEPT !.limit = [f \in Fields |-> Smaller(@[f], active.limit[f])]]

EffectiveNow(t, now) == Effective(t.constraints, t.schedule, now - t.issued)

TimePointsOfChild(s, t) == {0} \cup {t[i].at : i \in DOMAIN t}
TimePoints(s, t) == {0} \cup {s[i].at : i \in DOMAIN s} \cup {t[i].at : i \in DOMAIN t}

\* _verify_temporal_monotonicity compares both from a common start.
TemporalMonotone(parent, c, schedule) ==
    parent.schedule # NoSchedule \/ schedule # NoSchedule =>
        \A e \in TimePoints(parent.schedule, schedule), f \in Fields :
            Effective(c, schedule, e).limit[f]
                <= Effective(parent.constraints, parent.schedule, e).limit[f]

\* linear_decay_schedule for one initial value of every limit. The code's
\* int(initial * (1 - i/steps)) is exact for the numbers used here.
LinearDecay(initial, duration, steps) ==
    [i \in 1 .. steps |->
        [at    |-> (duration * i) \div steps,
         limit |-> [f \in Fields |-> (initial * (steps - i)) \div steps]]]

-------------------------------------------------------------------------------
(* Issuing and attenuating                                                    *)

IsExpired(t, now) == now >= t.constraints.not_after
IsNotYetValid(t, now) == now < t.constraints.not_before

\* create_token: an expiry is always set.
CreateToken(issuer, subject, uri, verbs, c, depth, validity, schedule, now) ==
    [issuer |-> issuer, subject |-> subject, resource |-> uri, verbs |-> verbs,
     constraints |-> IF c.not_after = Unbounded
                     THEN [c EXCEPT !.not_after = now + validity] ELSE c,
     issued |-> now, parent |-> NoParent, depth |-> depth, len |-> 0,
     position |-> 0, schedule |-> schedule]

\* What the caller of attenuate_token asks for; NoUri, NoConstraints and
\* NoSchedule inherit.
NewConstraints(t, d) == Tighten(t.constraints, d.constraints)
NewSchedule(t, d) == IF d.schedule = NoSchedule THEN t.schedule ELSE d.schedule
NewUri(t, d) == IF d.resource = NoUri THEN t.resource ELSE d.resource

\* The checks of attenuate_token, each of which raises.
MayAttenuate(t, d, now) ==
    /\ ~ IsExpired(t, now)
    /\ t.depth > 0
    /\ d.verbs \subseteq t.verbs
    /\ IsTighterThan(NewConstraints(t, d), t.constraints)
    /\ WellFormed(NewUri(t, d))
    /\ IsAttenuation(t.resource, NewUri(t, d))
    /\ TemporalMonotone(t, NewConstraints(t, d), NewSchedule(t, d))

AttenuateKeepsDepth(t, id, subject, d, position, now) ==
    [issuer |-> t.subject, subject |-> subject, resource |-> NewUri(t, d),
     verbs |-> d.verbs, constraints |-> NewConstraints(t, d),
     issued |-> now, parent |-> id, depth |-> t.depth, len |-> t.len + 1,
     position |-> position, schedule |-> NewSchedule(t, d)]
AttenuateToken(t, id, subject, d, position, now) ==
    [issuer |-> t.subject, subject |-> subject, resource |-> NewUri(t, d),
     verbs |-> d.verbs, constraints |-> NewConstraints(t, d),
     issued |-> now, parent |-> id, depth |-> t.depth - 1, len |-> t.len + 1,
     position |-> position, schedule |-> NewSchedule(t, d)]

\* create_sub_invocation_token: the next tool of the chain, in its turn.
MaySubInvoke(t, tool) ==
    t.constraints.toolchain # << >> =>
        /\ t.position < Len(t.constraints.toolchain)
        /\ tool = t.constraints.toolchain[t.position + 1]

\* split_token
Delta(t, c) == [verbs |-> t.verbs, constraints |-> c, resource |-> NoUri, schedule |-> NoSchedule]
Share(amount) == [NoConstraints EXCEPT !.limit["quantity_limit"] = amount]
Total(amounts) == FoldLeft(+, 0, amounts)
MaySplit(t, amounts, now) ==
    /\ t.constraints.limit["quantity_limit"] # Unbounded
    /\ Total(amounts) <= t.constraints.limit["quantity_limit"]
    /\ \A a \in ToSet(amounts) : MayAttenuate(t, Delta(t, Share(a)), now)
SplitToken(t, id, amounts, now) ==
    [i \in DOMAIN amounts |->
        AttenuateToken(t, id, t.subject, Delta(t, Share(amounts[i])), t.position, now)]

-------------------------------------------------------------------------------
(* Verification                                                               *)

InTime(t, now) == ~ IsExpired(t, now) /\ ~ IsNotYetValid(t, now)

\* _verify_usage_constraints without the rate, which RateLimiter models.
UsageAllowed(t, usage, c) ==
    /\ \A f \in Fields : usage.used[f] <= c.limit[f]
    /\ c.scope # {} => usage.data \subseteq c.scope
    /\ usage.purpose = "" \/ c.purpose \in {"", usage.purpose}
    /\ c.toolchain # << >> /\ usage.tool # "" =>
           /\ t.position < Len(c.toolchain)
           /\ usage.tool = c.toolchain[t.position + 1]

VerifyToken(t, usage, now) == InTime(t, now) /\ UsageAllowed(t, usage, EffectiveNow(t, now))

\* One link of verify_delegation_chain; expected is the predecessor's hash.
LinkVerifies(prev, expected, t) ==
    /\ t.parent = expected
    /\ t.len = prev.len + 1
    /\ t.depth = prev.depth - 1
    /\ t.verbs \subseteq prev.verbs
    /\ IsTighterThan(t.constraints, prev.constraints)
    /\ TemporalMonotone(prev, t.constraints, t.schedule)
    /\ t.issuer = prev.subject

\* verify_delegation_chain over the tokens of a sequence of hashes.
ChainVerifies(all, chain, checkExpiry, now) ==
    /\ chain # << >>
    /\ all[Head(chain)].parent = NoParent
    /\ checkExpiry => \A i \in DOMAIN chain : InTime(all[chain[i]], now)
    /\ \A i \in 2 .. Len(chain) :
           LinkVerifies(all[chain[i - 1]], chain[i - 1], all[chain[i]])

-------------------------------------------------------------------------------
(* Multi-owner tokens and aggregates                                          *)

EffectiveVerbs(leaves) == {v \in leaves[1].verbs : \A i \in DOMAIN leaves : v \in leaves[i].verbs}
EffectiveConstraints(leaves) == IntersectConstraints([i \in DOMAIN leaves |-> leaves[i].constraints])
VerifyMultiOwner(all, chains, checkExpiry, now) ==
    /\ chains # << >>
    /\ \A i \in DOMAIN chains : ChainVerifies(all, chains[i], checkExpiry, now)

Purposes(ts) == {t.constraints.purpose : t \in ToSet(ts)} \ {""}

\* aggregate_tokens: unions of verbs and resources under the intersection of
\* the constraints; a single token is returned as it is.
MayAggregate(ts, now) ==
    /\ ts # << >>
    /\ \A i \in DOMAIN ts : ts[i].subject = ts[1].subject /\ InTime(ts[i], now)
    /\ Len(ts) > 1 =>
           LET c == EffectiveConstraints(ts)
           IN  c.not_before < c.not_after /\ Cardinality(Purposes(ts)) <= 1
AggregateTokens(ts) ==
    [verbs       |-> UNION {ts[i].verbs : i \in DOMAIN ts},
     resources   |-> {ts[i].resource : i \in DOMAIN ts},
     constraints |-> EffectiveConstraints(ts)]

===============================================================================
