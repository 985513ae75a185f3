-------------------------------- MODULE Threshold --------------------------------
(* Distributed key generation and threshold signing                           *)
(* (src/src/qasp/crypto/threshold.py, shamir.py), the group the members form  *)
(* (identity/group.py) and the tokens it signs                                      *)
(* (protocol/threshold_delegation.py). A vector of polynomials is one element *)
(* of a field of Q elements, the matrix A a constant, the noise s2 left out,  *)
(* so t = A * s1. The lists a caller hands to a round hold what every member  *)
(* published; a commitment may arrive garbled, a t value not at all.          *)
EXTENDS Integers, Sequences, FiniteSetsExt

CONSTANTS Q,              \* a prime
          Matrix,         \* A, not 0
          Members,        \* 1 .. num_participants
          Need,           \* threshold
          Secrets, Slopes, Masks,    \* what members draw at random
          GroupVerbs, GroupDepth,           \* of the tokens
          MaxAttempts, MaxSigned

\* Members have the numbers from 1, fewer than the field has elements.
ASSUME ThresholdAssumption ==
    /\ Q \in Nat /\ Q > 1 /\ \A d \in 2 .. Q - 1 : Q % d # 0
    /\ \E n \in 1 .. Q - 1 : Members = 1 .. n
    /\ Need \in Nat \ {0} /\ Matrix \in Int
    /\ Secrets \cup Slopes \cup Masks \subseteq Int

VARIABLES dkg,        \* [Members -> [state, poly, key, share]]
          group,      \* the group once created: [key] or "none"
          session,    \* the signing under way: [signers, job, attempt, state, mask, answer]
          signedTokens      \* tokens the group signed

thvars == <<dkg, group, session, signedTokens>>

-------------------------------------------------------------------------------
(* Shamir's scheme                                                            *)

ModInverse(x) == CHOOSE y \in 1 .. Q - 1 : (x * y) % Q = 1

SumOf(f, S) == MapThenSumSet(LAMBDA x : f[x], S)
ProductOf(f, S) == FoldSet(LAMBDA x, product : f[x] * product, 1, S)

\* share_scalar: the value at i of a polynomial, from its last coefficient on.
ShareOf(poly, i) ==
    LET n == Len(poly)
        value[k \in 0 .. n] == IF k = 0 THEN 0 ELSE (value[k - 1] * i + poly[n + 1 - k]) % Q
    IN  value[n]

\* lagrange_coefficient at zero.
Basis(i) == [j \in Members \ {i} |-> (0 - j) * ModInverse((i - j) % Q)]
LagrangeOfAll(i, indices) == ProductOf(Basis(i), Members \ {i}) % Q
Lagrange(i, indices) == ProductOf(Basis(i), indices \ {i}) % Q
Reconstruct(shares, indices) == SumOf([i \in indices |-> Lagrange(i, indices) * shares[i]], indices) % Q

-------------------------------------------------------------------------------
(* DKGParticipant                                                             *)

Idle == [signers |-> {}]
NoGroup == [key |-> -1]
ThInit ==
    /\ dkg = [m \in Members |-> [state |-> "initialized", poly |-> << >>, key |-> 0, share |-> 0]]
    /\ group = NoGroup
    /\ session = Idle
    /\ signedTokens = << >>

Coefficients == {poly \in [1 .. Need -> Secrets \cup Slopes] :
                     poly[1] \in Secrets /\ \A k \in 2 .. Need : poly[k] \in Slopes}
RoundOne(m) ==
    /\ dkg[m].state = "initialized"
    /\ \E poly \in Coefficients : dkg' = [dkg EXCEPT ![m].state = "committed", ![m].poly = poly]
    /\ UNCHANGED <<group, session, signedTokens>>

Committed(m) == dkg[m].state # "initialized"
RoundTwo(m) ==
    /\ dkg[m].state = "committed"
    /\ \A j \in Members : Committed(j)
    /\ \E garbled \in BOOLEAN : dkg' = [dkg EXCEPT ![m].state = IF garbled THEN "failed" ELSE "shares_sent"]
    /\ UNCHANGED <<group, session, signedTokens>>

\* round3: the shares of the others are added to the own one, the t values of
\* all make the group's key.
SentShares(m) == dkg[m].state \in {"shares_sent", "complete"}
PublicValue(m) == (Matrix * dkg[m].poly[1]) % Q
RoundThree(m) ==
    /\ dkg[m].state = "shares_sent"
    /\ \A j \in Members : SentShares(j)
    /\ \E lost \in BOOLEAN :
           dkg' = IF lost THEN [dkg EXCEPT ![m].state = "failed"]
                  ELSE [dkg EXCEPT ![m].state = "complete",
                            ![m].share = SumOf([j \in Members |-> ShareOf(dkg[j].poly, m)], Members) % Q,
                            ![m].key = SumOf([j \in Members |-> PublicValue(j)], Members) % Q]
    /\ UNCHANGED <<group, session, signedTokens>>

\* create_threshold_group: a result of every member, all with the same key.
CreateThresholdGroup ==
    /\ group = NoGroup
    /\ \A m \in Members : dkg[m].state = "complete"
    /\ Cardinality({dkg[m].key : m \in Members}) = 1
    /\ group' = [key |-> dkg[1].key]
    /\ UNCHANGED <<dkg, session, signedTokens>>

-------------------------------------------------------------------------------
(* ThresholdSigner and ThresholdCoordinator                                   *)

\* hash_to_challenge: some function of the message and of the sum of all w.
Challenge(number, w) == (number + w) % Q
Openings(s) == (Matrix * SumOf(s.mask, s.signers)) % Q
ChallengeOf(s) == Challenge(Len(signedTokens) + 1, Openings(s))

\* create_threshold_signed_token and attenuate_token_threshold: the token to be
\* signed; the constructors of the signers refuse fewer than Need.
RootToken(verbs, depth) == [verbs |-> verbs, depth |-> depth, parent |-> 0]
Narrower(parent, verbs) == [verbs |-> verbs, depth |-> signedTokens[parent].depth - 1, parent |-> parent]
StartSigning(signers, job) ==
    /\ group # NoGroup /\ session = Idle /\ Len(signedTokens) < MaxSigned
    /\ Cardinality(signers) >= Need
    /\ session' = [signers |-> signers, job |-> job, attempt |-> 1,
                   state |-> [i \in signers |-> "initialized"],
                   mask |-> [i \in signers |-> 0], answer |-> [i \in signers |-> 0]]
    /\ UNCHANGED <<dkg, group, signedTokens>>
CreateThresholdToken(signers, verbs, depth) == StartSigning(signers, RootToken(verbs, depth))
AttenuateTokenThreshold(signers, parent, verbs) ==
    /\ parent \in DOMAIN signedTokens
    /\ signedTokens[parent].depth > 0
    /\ verbs \subseteq signedTokens[parent].verbs
    /\ StartSigning(signers, Narrower(parent, verbs))

AllIn(state) == \A i \in session.signers : session.state[i] \in state
SignerCommit(i) ==
    /\ i \in session.signers /\ session.state[i] = "initialized"
    /\ \E y \in Masks : session' = [session EXCEPT !.state[i] = "committed", !.mask[i] = y]
    /\ UNCHANGED <<dkg, group, signedTokens>>
SignerOpen(i) ==
    /\ i \in session.signers /\ session.state[i] = "committed"
    /\ AllIn({"committed", "opened"})
    /\ session' = [session EXCEPT !.state[i] = "opened"]
    /\ UNCHANGED <<dkg, group, signedTokens>>
SignerRespond(i) ==
    /\ i \in session.signers /\ session.state[i] = "opened"
    /\ AllIn({"opened", "responded"})
    /\ session' = [session EXCEPT !.state[i] = "responded",
           !.answer[i] = (session.mask[i] + ChallengeOf(session) * Lagrange(i, session.signers) * dkg[i].share) % Q]
    /\ UNCHANGED <<dkg, group, signedTokens>>

\* combine, and what becomes of it in threshold_sign_with_retry: a signature, or
\* None because the sum is too large; then all start over, MaxAttempts times.
\* The token function fails on the None of the last attempt.
SignatureOf(s) == [c |-> ChallengeOf(s), z |-> SumOf(s.answer, s.signers) % Q]
Combine ==
    /\ session # Idle /\ AllIn({"responded"})
    /\ LET job == session.job
       IN  signedTokens' = Append(signedTokens, [verbs |-> job.verbs, depth |-> job.depth, parent |-> job.parent,
                                                 signature |-> SignatureOf(session)])
    /\ session' = Idle
    /\ UNCHANGED <<dkg, group>>
CombineRejects ==
    /\ session # Idle /\ AllIn({"responded"})
    /\ session' = IF session.attempt = MaxAttempts THEN Idle
                  ELSE [session EXCEPT !.attempt = @ + 1, !.state = [i \in session.signers |-> "initialized"]]
    /\ UNCHANGED <<dkg, group, signedTokens>>

ThNext ==
    \/ \E m \in Members : RoundOne(m) \/ RoundTwo(m) \/ RoundThree(m)
    \/ CreateThresholdGroup
    \/ \E signers \in SUBSET Members :
           \/ \E depth \in 0 .. GroupDepth : CreateThresholdToken(signers, GroupVerbs, depth)
           \/ \E parent \in DOMAIN signedTokens, verbs \in SUBSET GroupVerbs : AttenuateTokenThreshold(signers, parent, verbs)
    \/ \E i \in Members : SignerCommit(i) \/ SignerOpen(i) \/ SignerRespond(i)
    \/ Combine \/ CombineRejects
ThSpec == ThInit /\ [][ThNext]_thvars

-------------------------------------------------------------------------------
(* Properties                                                                 *)

\* Verification under the group's key: w is recovered from z and t.
SignatureVerifies(number, signature) ==
    signature.c = Challenge(number, (Matrix * signature.z - signature.c * group.key) % Q)

\* The members that complete agree on the key; any Need of them hold the secret
\* that belongs to it, and no signature of any set of signers, at any attempt,
\* fails to verify under it.
ThresholdSigns ==
    LET done == {m \in Members : dkg[m].state = "complete"}
    IN  /\ \A m, n \in done : dkg[m].key = dkg[n].key
        /\ \A signers \in SUBSET done : Cardinality(signers) >= Need =>
               (Matrix * Reconstruct([m \in Members |-> dkg[m].share], signers)) % Q
                   = dkg[CHOOSE m \in signers : TRUE].key
        /\ \A k \in DOMAIN signedTokens : SignatureVerifies(k, signedTokens[k].signature)
===============================================================================
