------------------------------- MODULE CrossDomain -------------------------------
(* A token that crosses from one owner's agents to another owner's            *)
(* (src/src/qasp/protocol/cross_domain.py): a chain of tokens with one        *)
(* aggregate signature (aggregation.py), an endorsement by the source owner,  *)
(* an acceptance by the target owner, and the binding of an agent to each.    *)
(* The hash of a token, of an endorsement is its number.                      *)
EXTENDS Integers, Sequences, SequencesExt, FiniteSets

CONSTANTS ChainVerbs,
          Bindings,        \* an owner's: [permissions, expiry]
          EndorsementValidity, \* of an endorsement
          ChainDepth, TokenExpiries,
          MaxChain, MaxEndorsements, MaxAcceptances, MaxHours

\* Depths count delegations, and times are hours of the same clock.
ASSUME DomainAssumption == ChainDepth \in Nat /\ TokenExpiries \subseteq Nat /\ EndorsementValidity \in Nat

VARIABLES hour,
          links,           \* the tokens: [verbs, expiry, depth, length, parent, over]
          endorsements,    \* [token, expiry]
          acceptances,     \* [token, endorsement]
          revoked          \* the list of revoke_cross_domain_delegation

cvars == <<hour, links, endorsements, acceptances, revoked>>

CInit == hour = 0 /\ links = << >> /\ endorsements = << >> /\ acceptances = {} /\ revoked = {}

Past(time) == hour >= time
Earlier(x, y) == IF x < y THEN x ELSE y

-------------------------------------------------------------------------------
(* Chains with one signature                                                  *)

CreateRoot(expiry) ==
    /\ links = << >>
    /\ links' = <<[verbs |-> ChainVerbs, expiry |-> expiry, depth |-> ChainDepth, length |-> 0, parent |-> 0, over |-> 0]>>
    /\ UNCHANGED <<hour, endorsements, acceptances, revoked>>

\* attenuate_token_aggregate: the signature is over the aggregate the caller
\* holds, which should be the parent's.
AttenuateAggregate(parent, verbs, expiry, aggregate) ==
    /\ Len(links) < MaxChain
    /\ ~ Past(links[parent].expiry)
    /\ links[parent].depth > 0
    /\ verbs \subseteq links[parent].verbs
    /\ links' = Append(links, [verbs |-> verbs, expiry |-> Earlier(expiry, links[parent].expiry),
                                 depth |-> links[parent].depth - 1, length |-> links[parent].length + 1,
                                 parent |-> parent, over |-> aggregate])
    /\ UNCHANGED <<hour, endorsements, acceptances, revoked>>

ChainOf == LET chain[i \in 0 .. Len(links)] == IF i = 0 THEN << >> ELSE Append(chain[links[i].parent], i)
           IN  chain

\* aggregate_verify_chain: every link, and the last signature only.
LinkHolds(child, parent) ==
    /\ links[child].parent = parent
    /\ links[child].length = links[parent].length + 1
    /\ links[child].depth = links[parent].depth - 1
    /\ links[child].verbs \subseteq links[parent].verbs
    /\ links[child].expiry <= links[parent].expiry
AggregateVerifies(chain) ==
    /\ chain # << >>
    /\ links[chain[1]].parent = 0
    /\ \A i \in DOMAIN chain : ~ Past(links[chain[i]].expiry)
    /\ \A i \in 2 .. Len(chain) : LinkHolds(chain[i], chain[i - 1])
    /\ Len(chain) > 1 => links[Last(chain)].over = chain[Len(chain) - 1]

-------------------------------------------------------------------------------
(* Endorsement and acceptance                                                 *)

CreateEndorsement(token) ==
    /\ Len(endorsements) < MaxEndorsements
    /\ endorsements' = Append(endorsements, [token |-> token, expiry |-> hour + EndorsementValidity])
    /\ UNCHANGED <<hour, links, acceptances, revoked>>
CreateAcceptance(token, e) ==
    /\ Cardinality(acceptances) < MaxAcceptances
    /\ acceptances' = acceptances \cup {[token |-> token, endorsement |-> e]}
    /\ UNCHANGED <<hour, links, endorsements, revoked>>

\* revoke_cross_domain_delegation: the token and what descends from it.
RevokeDelegation(token) ==
    /\ revoked' = revoked \cup {i \in DOMAIN links : token \in ToSet(ChainOf[i])}
    /\ UNCHANGED <<hour, links, endorsements, acceptances>>

EndorsementVerifies(e, token) == ~ Past(endorsements[e].expiry) /\ endorsements[e].token = token
AcceptanceOfToken(acceptance, token, e) == acceptance.token = token
AcceptanceVerifies(acceptance, token, e) == acceptance.token = token /\ acceptance.endorsement = e

\* verify_cross_domain_delegation of a delegation that
\* create_cross_domain_delegation put together from these parts. It asks no
\* revocation list.
BindingHolds(binding) == ~ Past(binding.expiry)
MayDelegate(binding) == binding.permissions \cap {"resource:delegate", "*"} # {}
CrossesDomains(token, source, e, target, acceptance) ==
    /\ AggregateVerifies(ChainOf[token])
    /\ BindingHolds(source) /\ MayDelegate(source)
    /\ EndorsementVerifies(e, token)
    /\ BindingHolds(target)
    /\ AcceptanceVerifies(acceptance, token, e)

CTick == hour < MaxHours /\ hour' = hour + 1 /\ UNCHANGED <<links, endorsements, acceptances, revoked>>

CNext ==
    \/ \E expiry \in TokenExpiries : CreateRoot(expiry)
    \/ \E parent \in DOMAIN links, verbs \in SUBSET ChainVerbs, expiry \in TokenExpiries :
           \E aggregate \in ToSet(ChainOf[parent]) : AttenuateAggregate(parent, verbs, expiry, aggregate)
    \/ \E token \in DOMAIN links : CreateEndorsement(token) \/ RevokeDelegation(token)
    \/ \E token \in DOMAIN links, e \in DOMAIN endorsements : CreateAcceptance(token, e)
    \/ CTick

CSpec == CInit /\ [][CNext]_cvars

-------------------------------------------------------------------------------
(* Properties                                                                 *)

\* Parts of different negotiations do not add up: whenever some selection of
\* what was ever signed verifies for a token, the target owner accepted that
\* token under an endorsement of it that still lasts; to renew an agreement
\* takes both owners. What the token allows lies within the whole chain.
BothOwnersAgree ==
    \A token \in DOMAIN links :
        (\E e \in DOMAIN endorsements, acceptance \in acceptances, source, target \in Bindings :
            CrossesDomains(token, source, e, target, acceptance))
        => /\ \E agreed \in acceptances :
                  /\ agreed.token = token
                  /\ endorsements[agreed.endorsement].token = token
                  /\ hour < endorsements[agreed.endorsement].expiry
           /\ \A a \in ToSet(ChainOf[token]) :
                  links[token].verbs \subseteq links[a].verbs /\ hour < links[a].expiry
===============================================================================
