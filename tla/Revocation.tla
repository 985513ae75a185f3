------------------------------ MODULE Revocation ------------------------------
(* The revocation list and the status responder                               *)
(* (src/src/qasp/protocol/revocation.py and ocsp.py). The list takes a token  *)
(* with every descendant it knows; the responder answers from a cache; a      *)
(* client may keep an answer and present it later (stapling). Every method    *)
(* of the list and of the responder holds its object's lock from start to     *)
(* end, so each is one step.                                                  *)
EXTENDS Integers

CONSTANTS Ids,          \* token ids
          Asked,        \* the ids some client asks the responder about
          ParentOf,     \* [Ids -> Ids \cup {Root}]: the token a token was attenuated from
          Root,
          NotAfter,     \* [Ids -> Nat]: the expiry of each token
          Grace,        \* NORMAL_GRACE_PERIOD_SECONDS
          Validity,     \* DEFAULT_RESPONSE_VALIDITY_SECONDS
          MaxAge,       \* the argument of cleanup_expired
          Horizon

ASSUME LifetimeAssumption ==
    /\ NotAfter \in [Ids -> Nat]
    /\ \A t \in Ids : NotAfter[t] <= MaxAge
    /\ {MaxAge, Grace, Validity} \subseteq Nat

ASSUME AskedAssumption == Asked \subseteq Ids

Nothing == [kind |-> "none"]
Urgencies == {"critical", "normal", "planned"}

VARIABLES known,        \* ids in _token_hash_to_id, and so in _children
          children,     \* the pairs <<parent, child>> of _children
          entries,      \* [Ids -> entry or Nothing]: _entries
          cache,        \* [Ids -> status or Nothing]: the responder's _cache
          staple,       \* the last answer a client keeps for each id
          seconds

rvars == <<known, children, entries, cache, staple, seconds>>

Revoked(t, at) == entries[t] # Nothing /\ at >= entries[t].effective
IsRevoked(t) == Revoked(t, seconds)
Listed(t) == entries[t] # Nothing

RInit ==
    /\ known = {}
    /\ children = {}
    /\ entries = [t \in Ids |-> Nothing]
    /\ cache = [t \in Ids |-> Nothing]
    /\ staple = [t \in Ids |-> Nothing]
    /\ seconds = 0

\* register_token links a child only if its parent's hash is known by then.
RegisterToken(t) ==
    /\ known' = known \cup {t}
    /\ children' = children \cup ((known' \cap {ParentOf[t]}) \X {t})
    /\ UNCHANGED <<entries, cache, staple, seconds>>

\* The breadth-first walk from t: what is in every set with t that is closed
\* under the children on no list. It goes on below a child only if it made the
\* child's entry itself, so descendants of a child that was revoked before,
\* registered since, stay off the list.
Cascade(t) ==
    {u \in Ids : \A visited \in SUBSET Ids :
        /\ t \in visited
        /\ \A p \in visited, c \in Ids : <<p, c>> \in children /\ ~ Listed(c) => c \in visited
        => u \in visited}

EffectiveTime(urgency, scheduled) ==
    CASE urgency = "critical" -> seconds
      [] urgency = "planned"  -> scheduled
      [] OTHER                -> seconds + Grace

\* revoke, refused for a token that has an entry.
Revoke(t, urgency, scheduled) ==
    /\ ~ Listed(t)
    /\ entries' = [u \in Ids |->
           IF u \in Cascade(t)
           THEN [kind |-> "revoked", time |-> seconds, effective |-> EffectiveTime(urgency, scheduled)]
           ELSE entries[u]]
    /\ UNCHANGED <<known, children, cache, staple, seconds>>

\* process_revocation_message signs with the key pair it is given, raises when
\* the pair is none, and revokes: the direct call of revoke does the same.
ProcessRevocationMessage(t, urgency, scheduled) == Revoke(t, urgency, scheduled)

\* cleanup_expired of the list: by the age of the entry, not of the token.
EffectiveTooOld(e) == e # Nothing /\ e.effective <= seconds
TooOld(e) == e # Nothing /\ e.time < seconds - MaxAge
CleanupEntries ==
    /\ \E t \in Ids : TooOld(entries[t])
    /\ entries' = [t \in Ids |-> IF TooOld(entries[t]) THEN Nothing ELSE entries[t]]
    /\ UNCHANGED <<known, children, cache, staple, seconds>>

-------------------------------------------------------------------------------
(* The responder                                                              *)

\* _determine_status: any entry counts, also one that is not effective yet.
DetermineStatus(t) ==
    [kind |-> IF Listed(t) THEN "revoked" ELSE IF t \in known THEN "good" ELSE "unknown",
     next |-> seconds + Validity]

Stale(c) == c = Nothing \/ seconds >= c.next
Answer(t) == IF Stale(cache[t]) THEN DetermineStatus(t) ELSE cache[t]

\* handle_request; the client verifies the answer and may keep it.
HandleRequest(t) ==
    /\ cache' = [cache EXCEPT ![t] = Answer(t)]
    /\ staple' = [staple EXCEPT ![t] = Answer(t)]
    /\ UNCHANGED <<known, children, entries, seconds>>

Invalidate(t) ==
    /\ cache[t] # Nothing
    /\ cache' = [cache EXCEPT ![t] = Nothing]
    /\ UNCHANGED <<known, children, entries, staple, seconds>>

ClearCache ==
    /\ cache' = [t \in Ids |-> Nothing]
    /\ UNCHANGED <<known, children, entries, staple, seconds>>

CleanupCache ==
    /\ cache' = [t \in Ids |-> IF cache[t] # Nothing /\ cache[t].next < seconds THEN Nothing ELSE cache[t]]
    /\ UNCHANGED <<known, children, entries, staple, seconds>>

RTick == seconds < Horizon /\ seconds' = seconds + 1 /\ UNCHANGED <<known, children, entries, cache, staple>>

RNext ==
    \/ \E t \in Ids : RegisterToken(t)
    \/ \E t \in Ids, u \in Urgencies : ProcessRevocationMessage(t, u, seconds + Grace + 1)
    \/ CleanupEntries
    \/ \E t \in Asked : HandleRequest(t)
    \/ \E t \in Asked : Invalidate(t)
    \/ ClearCache
    \/ CleanupCache
    \/ RTick

RSpec == RInit /\ [][RNext]_rvars

-------------------------------------------------------------------------------
(* verify_token with the list, as far as time and revocation go.              *)
Accepted(t) == ~ IsRevoked(t) /\ seconds < NotAfter[t]

\* verify_stapled_response and verify_ocsp_response: an answer stands up to
\* and including its next_update.
StapleStands(t) == staple[t] # Nothing /\ seconds <= staple[t].next

\* A token whose revocation took effect is refused from then on, although
\* cleanup forgets entries by their age: the entry outlives the token, as long
\* as the age given to cleanup_expired is no less than a token's lifetime.
StaysRefused == [][\A t \in Ids : IsRevoked(t) => ~ Accepted(t)']_rvars

\* A revocation is hidden for at most the validity of one answer: neither the
\* responder, from its cache, nor a client, from the answer it kept, goes on
\* saying "good" for a token that has been on the list longer than that. It
\* matters for the descendants, whose cached status a revocation leaves alone.
GoodBounded ==
    \A t \in Ids : Listed(t) =>
        /\ Answer(t).kind = "good" => seconds < entries[t].time + Validity
        /\ StapleStands(t) /\ staple[t].kind = "good" => seconds <= entries[t].time + Validity

\* A revocation takes effect in bounded time and for good.
RevocationHolds == []GoodBounded /\ StaysRefused
===============================================================================
