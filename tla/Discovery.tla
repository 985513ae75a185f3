-------------------------------- MODULE Discovery --------------------------------
(* The agent registry (src/src/qasp/transport/registry.py), the discovery     *)
(* server of a peer and the discovery client of an agent (discover.py): the   *)
(* client learns endpoints from its own announcements, from mDNS and from the *)
(* registry, and advertisements from the well-known page of the peer.         *)
EXTENDS Integers, Sequences, FiniteSetsExt, Functions

CONSTANTS Me, Peer,         \* the DIDs of the client and of the server
          Offers,           \* what entries may say: [did, where, caps, verbs, trust, ttl]
          AdTtl,            \* DEFAULT_AD_TTL
          MaxResults, MaxAuthored, MaxNow, MaxQueue

ASSUME DiscoveryAssumption ==
    /\ \A offer \in Offers : offer.trust \in Nat /\ offer.ttl \in Int
    /\ AdTtl \in Nat /\ MaxResults \in Nat

VARIABLES now,
          authored,         \* registry entries agents created and signed
          registry,     \* AgentRegistry._entries
          server,       \* DiscoveryServer._advertisement, or NoAd
          page,         \* the well-known page on its way to the client, or NoAd
          ads,          \* DiscoveryClient._advertisements
          known,        \* _known_endpoints, in the order of its keys
          queue,        \* _mdns_discovered
          found,        \* history: what the last discover returned, and when
          linked        \* history: the endpoint discover_and_connect reached

dvars == <<now, authored, registry, server, page, ads, known, queue, found, linked>>

NoAd == [did |-> "nobody", at |-> 0]
NoEndpoint == [did |-> "nobody"]

DInit ==
    /\ now = 0 /\ authored = {} /\ registry = << >>
    /\ server = NoAd /\ page = NoAd /\ ads = << >>
    /\ known = << >> /\ queue = << >>
    /\ found = [at |-> 0, results |-> << >>] /\ linked = NoEndpoint

Lapsed(at, ttl) == at + ttl < now
Drop(f, keys) == Restrict(f, DOMAIN f \ keys)
Enter(f, key, value) == [k \in {key} \cup DOMAIN f |-> IF k = key THEN value ELSE f[k]]

-------------------------------------------------------------------------------
(* The agent registry                                                         *)

CreateRegistryEntry(offer) ==
    /\ Cardinality(authored) < MaxAuthored
    /\ authored' = authored \cup {[offer |-> offer, at |-> now]}
    /\ UNCHANGED <<now, registry, server, page, ads, known, queue, found, linked>>

\* register: a signed entry that has not expired replaces the one of its agent,
\* whichever of them is older.
EntryExpired(entry) == Lapsed(entry.at, entry.offer.ttl)
RegisterEntry(entry) ==
    /\ entry \in authored
    /\ ~ EntryExpired(entry)
    /\ registry' = Enter(registry, entry.offer.did, entry)
    /\ UNCHANGED <<now, authored, server, page, ads, known, queue, found, linked>>

Deregister(did) ==
    /\ did \in DOMAIN registry
    /\ registry' = Drop(registry, {did})
    /\ UNCHANGED <<now, authored, server, page, ads, known, queue, found, linked>>

CleanupExpired ==
    /\ registry' = Drop(registry, {did \in DOMAIN registry : EntryExpired(registry[did])})
    /\ UNCHANGED <<now, authored, server, page, ads, known, queue, found, linked>>

\* query: what is live and matches, the most trusted first.
AskedFor(offer, capability, verbs, trust) ==
    /\ offer.trust >= trust
    /\ capability # "" => capability \in offer.caps
    /\ verbs \subseteq offer.verbs
Matching(capability, verbs, trust) ==
    {did \in DOMAIN registry : /\ ~ EntryExpired(registry[did])
                               /\ AskedFor(registry[did].offer, capability, verbs, trust)}
TrustOf(did) == registry[did].offer.trust
Ranked(dids) ==
    CHOOSE q \in [1 .. Cardinality(dids) -> dids] :
        /\ IsInjective(q) /\ Range(q) = dids
        /\ \A i, j \in DOMAIN q : i < j => TrustOf(q[i]) >= TrustOf(q[j])
QueryRegistry(capability, verbs, trust) ==
    LET ranked == Ranked(Matching(capability, verbs, trust))
    IN  SubSeq(ranked, 1, Min({MaxResults, Len(ranked)}))

-------------------------------------------------------------------------------
(* The discovery server and the well-known page                               *)

\* start, refresh_advertisement: a new advertisement. The mDNS service the start
\* registers is heard at some time (MdnsAdded).
Advertise ==
    /\ server' = [did |-> Peer, at |-> now]
    /\ UNCHANGED <<now, authored, registry, page, ads, known, queue, found, linked>>
StopServer ==
    /\ server # NoAd
    /\ server' = NoAd
    /\ UNCHANGED <<now, authored, registry, page, ads, known, queue, found, linked>>

\* fetch_well_known: the page is read here and arrives later; the advertisement
\* is verified, expiry included, when it has arrived. An error leaves no trace.
AdExpired(ad) == Lapsed(ad.at, AdTtl)
ServePage ==
    /\ page = NoAd /\ server # NoAd
    /\ page' = server
    /\ UNCHANGED <<now, authored, registry, server, ads, known, queue, found, linked>>
FetchWellKnown ==
    /\ page # NoAd
    /\ page' = NoAd
    /\ ads' = IF AdExpired(page) THEN ads ELSE Enter(ads, page.did, page)
    /\ UNCHANGED <<now, authored, registry, server, known, queue, found, linked>>

-------------------------------------------------------------------------------
(* The discovery client                                                       *)

Endpoint(did, where, caps, trust, by) == [did |-> did, where |-> where, caps |-> caps, trust |-> trust, by |-> by]
NoTrust == 99        \* trust_score None passes every minimum

\* _known_endpoints[did] = endpoint: a key keeps its place.
Know(endpoints, endpoint) ==
    IF \E i \in DOMAIN endpoints : endpoints[i].did = endpoint.did
    THEN [i \in DOMAIN endpoints |-> IF endpoints[i].did = endpoint.did THEN endpoint ELSE endpoints[i]]
    ELSE Append(endpoints, endpoint)

Announce(where, caps) ==
    /\ ads' = Enter(ads, Me, [did |-> Me, at |-> now])
    /\ known' = Know(known, Endpoint(Me, where, caps, 10, "announce"))
    /\ UNCHANGED <<now, authored, registry, server, page, queue, found, linked>>

\* _on_mdns_state_change, on the thread of zeroconf: what is heard waits in the
\* queue for the next discover.
MdnsAdded(did, where, caps) ==
    /\ Len(queue) < MaxQueue
    /\ queue' = Append(queue, Endpoint(did, where, caps, NoTrust, "mdns"))
    /\ UNCHANGED <<now, authored, registry, server, page, ads, known, found, linked>>

\* discover: what the expired advertisements stand for is forgotten, the queue
\* drained, the filter applied, the registry asked for whatever is missing.
ExpiredAds == {did \in DOMAIN ads : AdExpired(ads[did])}
Only(endpoints, wanted) ==
    LET kept[i \in 0 .. Len(endpoints)] ==
            IF i = 0 THEN << >>
            ELSE IF endpoints[i] \in wanted THEN Append(kept[i - 1], endpoints[i])
            ELSE kept[i - 1]
    IN  kept[Len(endpoints)]
AfterQueue(endpoints) ==
    LET heard[i \in 0 .. Len(queue)] == IF i = 0 THEN endpoints ELSE Know(heard[i - 1], queue[i])
    IN  heard[Len(queue)]
KeepEvicted == AfterQueue(known)
Known == AfterQueue(Only(known, {ep \in Range(known) : ep.did \notin ExpiredAds}))
FromRegistry(capability, trust) ==
    LET dids == QueryRegistry(capability, {}, trust)
    IN  [i \in DOMAIN dids |-> LET offer == registry[dids[i]].offer
                               IN  Endpoint(offer.did, offer.where, offer.caps, offer.trust, "registry")]
Discovered(capability, trust) ==
    LET local == Only(Known, {ep \in Range(Known) : /\ capability # "" => capability \in ep.caps
                                                    /\ ep.trust >= trust})
        more == FromRegistry(capability, trust)
        seen == {local[i].did : i \in DOMAIN local}
    IN  local \o Only(more, {ep \in Range(more) : ep.did \notin seen})
Forget == /\ ads' = Drop(ads, ExpiredAds)
          /\ known' = Known
          /\ queue' = << >>
Discover(capability, trust) ==
    /\ Forget
    /\ found' = [at |-> now, results |-> Discovered(capability, trust)]
    /\ UNCHANGED <<now, authored, registry, server, page, linked>>

\* discover_and_connect: the first result, if the connection to it succeeds.
DiscoverAndConnect(capability) ==
    /\ Forget
    /\ found' = [at |-> now, results |-> Discovered(capability, 0)]
    /\ linked' \in {NoEndpoint} \cup (IF found'.results = << >> THEN {} ELSE {Head(found'.results)})
    /\ UNCHANGED <<now, authored, registry, server, page>>

DTick == now < MaxNow /\ now' = now + 1 /\ UNCHANGED <<authored, registry, server, page, ads, known, queue, found, linked>>

DNext ==
    \/ \E offer \in Offers : CreateRegistryEntry(offer)
    \/ \E entry \in authored : RegisterEntry(entry)
    \/ \E did \in {Me, Peer} : Deregister(did)
    \/ CleanupExpired
    \/ Advertise \/ StopServer \/ ServePage \/ FetchWellKnown
    \/ \E offer \in Offers : \/ offer.did = Me /\ Announce(offer.where, offer.caps)
                             \/ offer.did = Peer /\ MdnsAdded(Peer, offer.where, offer.caps)
    \/ \E capability \in {""} \cup UNION {o.caps : o \in Offers} :
           Discover(capability, 0) \/ Discover(capability, 5) \/ DiscoverAndConnect(capability)
    \/ DTick

DSpec == DInit /\ [][DNext]_dvars

-------------------------------------------------------------------------------
(* Properties                                                                 *)

\* The best the registry has is what a query finds: nothing that is live and
\* asked for is left out for something trusted less.
QueryIsBest ==
    \A capability \in {""} \cup UNION {o.caps : o \in Offers} :
        LET answer == QueryRegistry(capability, {}, 0)
        IN  \A did \in Matching(capability, {}, 0), i \in DOMAIN answer :
                did \notin {answer[j] : j \in DOMAIN answer} => TrustOf(did) <= TrustOf(answer[i])

\* At the time of a discover, with the clock still where it was, no agent is
\* listed twice, what the registry answered is what an agent signed and has not
\* expired, and the client's own endpoint is not listed longer than its
\* announcement lasts.
ListedOnce == IsInjective([i \in DOMAIN found.results |-> found.results[i].did])
FoundIsCurrent ==
    found.at = now =>
        \A i \in DOMAIN found.results :
            /\ found.results[i].by = "announce" => Me \in DOMAIN ads /\ ~ AdExpired(ads[Me])
            /\ found.results[i].by = "registry" =>
                   \E entry \in authored : /\ entry.offer.did = found.results[i].did
                                            /\ entry.offer.where = found.results[i].where
                                            /\ ~ EntryExpired(entry)

\* What an agent discovers is the best of what is signed and lasts, each once.
DiscoveryIsCurrent == QueryIsBest /\ ListedOnce /\ FoundIsCurrent
===============================================================================
