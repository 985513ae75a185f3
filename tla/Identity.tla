--------------------------------- MODULE Identity ---------------------------------
(* The document of a DID and its keys (src/src/qasp/identity/did.py,          *)
(* rotation.py), the resolver network that publishes and finds it             *)
(* (resolver.py), and the bindings of agents to their owner (binding.py).     *)
(* Certificates of the same keys are a part of their own.                     *)
(* One owner changes the document; other threads resolve it at any time. A    *)
(* key is its number in the order the owner made them; a signature is the     *)
(* number of the key that made it.                                            *)
EXTENDS Certificates

CONSTANTS Keys,            \* 1 .. the number of keys
          CacheTtl,        \* cache_ttl
          Resolvers,       \* threads in resolve_document
          Permissions,     \* permission strings besides "*"
          RootBindings,    \* owner bindings: [agent, permissions, expiry, depth]
          MaxVersions, MaxEntries, MaxHours

All == "*"
ASSUME IdentityAssumption ==
    /\ CacheTtl \in Nat /\ MaxHours \in Nat
    /\ RootBindings \subseteq [agent : Nat, permissions : SUBSET (Permissions \cup {All}),
                             expiry : Int, depth : Nat]

VARIABLES hour,
          documents,     \* DIDRegistry: a set of at most one document
          backend,      \* the DHT backend: a set of at most one entry
          resolverCache, \* _ResolverCache: a set of at most one entry
          proofs,       \* rotation proofs the owner made
          entries,      \* DHT entries the owner signed for publish_entry
          fetched,      \* [Resolvers -> what a resolver is about to put in the cache]
          replaced,     \* history: [document, when it last left a store]
          chain         \* a binding chain its agents built

ivars == <<hour, documents, backend, resolverCache, proofs, entries, fetched, replaced, chain>>

Nothing == [at |-> "none"]

IInit ==
    /\ hour = 0
    /\ documents = {} /\ backend = {} /\ resolverCache = {}
    /\ proofs = {} /\ entries = {} /\ replaced = {}
    /\ fetched = [r \in Resolvers |-> Nothing]
    /\ chain = << >>

\* What a store gives up is remembered with the time.
Replace(gone) == {r \in replaced : r.document \notin gone} \cup [document : gone, until : {hour}]
DocumentsOf(store) == {e.document : e \in store}

-------------------------------------------------------------------------------
(* The document and its keys                                                  *)

CreateDid(key) == [key |-> key, version |-> 1, next |-> 0]
RegisterDocument(document) ==
    /\ documents' = {document}
    /\ replaced' = Replace(documents \ {document})
    /\ UNCHANGED <<hour, backend, resolverCache, proofs, entries, fetched, chain>>

Create == documents = {} /\ RegisterDocument(CreateDid(1))

CommitNextKey(key) ==
    \E document \in documents : /\ document.next = 0 /\ key > document.key
                               /\ RegisterDocument([document EXCEPT !.next = key])

\* create_rotation_proof: both keys sign.
CreateRotationProof ==
    \E document \in documents :
        /\ document.next # 0
        /\ proofs' = proofs \cup {[key |-> document.next, from |-> document.version, to |-> document.version + 1,
                                   signed |-> {document.key, document.next}]}
        /\ UNCHANGED <<hour, documents, backend, resolverCache, entries, fetched, replaced, chain>>

\* verify_rotation_proof
RotationVerifies(proof, document) ==
    /\ proof.key = document.next
    /\ proof.to = document.version + 1
    /\ {document.key, proof.key} \subseteq proof.signed
RotateKey ==
    \E proof \in proofs, document \in documents :
        /\ RotationVerifies(proof, document)
        /\ RegisterDocument([key |-> proof.key, version |-> proof.to, next |-> 0])

RemoveDocument ==
    /\ documents # {}
    /\ documents' = {}
    /\ replaced' = Replace(documents)
    /\ UNCHANGED <<hour, backend, resolverCache, proofs, entries, fetched, chain>>

-------------------------------------------------------------------------------
(* The resolver network                                                       *)

DhtEntry(document, version) == [document |-> document, version |-> version, signed |-> document.key]
DhtEntryVerifies(entry) == entry.signed = entry.document.key
NextVersion == IF backend = {} THEN 1 ELSE (CHOOSE e \in backend : TRUE).version + 1

\* store: the version must go up, or StaleEntryError.
Newer(entry) == \A e \in backend : entry.version > e.version
Cached(document) == {[document |-> document, at |-> hour]}
Store(entry) ==
    /\ Newer(entry)
    /\ backend' = {entry}
    /\ replaced' = Replace(DocumentsOf(backend) \ {entry.document})
    /\ UNCHANGED <<hour, documents, proofs, fetched, chain>>

Publish ==
    /\ NextVersion <= MaxVersions
    /\ \E document \in documents :
           /\ Store(DhtEntry(document, NextVersion))
           /\ resolverCache' = Cached(document)
    /\ UNCHANGED entries

\* create_dht_entry, and publish_entry later.
CreateDhtEntry(version) ==
    /\ Cardinality(entries) < MaxEntries
    /\ \E document \in documents : entries' = entries \cup {DhtEntry(document, version)}
    /\ UNCHANGED <<hour, documents, backend, resolverCache, proofs, fetched, replaced, chain>>
PublishEntry(entry) ==
    /\ entry \in entries
    /\ DhtEntryVerifies(entry)
    /\ Store(entry)
    /\ resolverCache' = Cached(entry.document)
    /\ entries' = entries \ {entry}

Unpublish ==
    /\ backend # {}
    /\ backend' = {}
    /\ replaced' = Replace(DocumentsOf(backend))
    /\ UNCHANGED <<hour, documents, resolverCache, proofs, entries, fetched, chain>>

\* resolve_document: a resolverCache entry that is not too old, the registry, the
\* backend. Between reading a store and put another thread may run.
FreshForever == resolverCache
FreshEntries == {e \in resolverCache : hour - e.at <= CacheTtl}
Resolved == IF FreshEntries # {} THEN DocumentsOf(FreshEntries) ELSE IF documents # {} THEN documents ELSE DocumentsOf(backend)
Resolve(r) ==
    /\ fetched[r] = Nothing
    /\ Resolved # {}
    /\ \/ /\ FreshEntries # {}
          /\ UNCHANGED <<resolverCache, fetched>>
       \/ /\ FreshEntries = {}
          /\ resolverCache' = {}
          /\ fetched' = [fetched EXCEPT ![r] = [at |-> "put", document |-> CHOOSE d \in Resolved : TRUE]]
    /\ UNCHANGED <<hour, documents, backend, proofs, entries, replaced, chain>>
PutInCache(r) ==
    /\ fetched[r].at = "put"
    /\ resolverCache' = Cached(fetched[r].document)
    /\ fetched' = [fetched EXCEPT ![r] = Nothing]
    /\ UNCHANGED <<hour, documents, backend, proofs, entries, replaced, chain>>
InvalidateCache ==
    /\ resolverCache' = {}
    /\ UNCHANGED <<hour, documents, backend, proofs, entries, fetched, replaced, chain>>

-------------------------------------------------------------------------------
(* Owner bindings                                                             *)

HasPermission(binding, permission) == All \in binding.permissions \/ permission \in binding.permissions
BindingExpired(binding) == hour >= binding.expiry
WithinPermissions(reduced, parent) == All \in parent.permissions \/ reduced \subseteq parent.permissions

CreateOwnerBinding(root) ==
    /\ chain = << >>
    /\ chain' = <<root>>
    /\ UNCHANGED <<hour, documents, backend, resolverCache, proofs, entries, fetched, replaced>>

\* attenuate_binding
Attenuated(parent, reduced, validity) ==
    [agent |-> parent.agent + 1, permissions |-> reduced, expiry |-> hour + validity, depth |-> parent.depth - 1]
AttenuateBinding(reduced, validity) ==
    /\ chain # << >>
    /\ LET parent == Last(chain)
       IN  /\ ~ BindingExpired(parent)
           /\ parent.depth > 0
           /\ WithinPermissions(reduced, parent)
           /\ validity <= parent.expiry - hour
           /\ chain' = Append(chain, Attenuated(parent, reduced, validity))
    /\ UNCHANGED <<hour, documents, backend, resolverCache, proofs, entries, fetched, replaced>>
DropChain ==
    /\ chain # << >>
    /\ chain' = << >>
    /\ UNCHANGED <<hour, documents, backend, resolverCache, proofs, entries, fetched, replaced>>

\* verify_binding_chain with check_expiry.
BindingsVerify(bindings) ==
    /\ bindings # << >>
    /\ \A i \in DOMAIN bindings : ~ BindingExpired(bindings[i])
    /\ \A i \in 2 .. Len(bindings) :
           /\ bindings[i].agent = bindings[i - 1].agent + 1
           /\ bindings[i].depth = bindings[i - 1].depth - 1
           /\ WithinPermissions(bindings[i].permissions, bindings[i - 1])
           /\ bindings[i].expiry <= bindings[i - 1].expiry

\* A resolution takes no time on this clock.
ITick ==
    /\ hour < MaxHours
    /\ \A r \in Resolvers : fetched[r] = Nothing
    /\ hour' = hour + 1
    /\ UNCHANGED <<documents, backend, resolverCache, proofs, entries, fetched, replaced, chain>>

DocumentNext ==
    \/ Create \/ CreateRotationProof \/ RotateKey \/ RemoveDocument
    \/ \E key \in Keys : CommitNextKey(key)
    \/ Publish \/ Unpublish \/ InvalidateCache
    \/ \E version \in 1 .. MaxVersions : CreateDhtEntry(version)
    \/ \E entry \in entries : PublishEntry(entry)
    \/ \E r \in Resolvers : Resolve(r) \/ PutInCache(r)
    \/ ITick
BindingNext ==
    \/ \E root \in RootBindings : CreateOwnerBinding(root)
    \/ \E reduced \in SUBSET (Permissions \cup {All}), validity \in 0 .. MaxHours : AttenuateBinding(reduced, validity)
    \/ DropChain
    \/ ITick
ISpec ==
    /\ IInit /\ CertInit
    /\ [][\/ (DocumentNext \/ BindingNext) /\ UNCHANGED certvars
          \/ CertNext /\ UNCHANGED ivars]_<<ivars, certvars>>

-------------------------------------------------------------------------------
(* Properties                                                                 *)

\* Whatever the resolvers interleave with, what one of them resolves is in a
\* store now or left it no longer ago than a cache entry lives: a rotated
\* key is not accepted after that.
ResolvedIsRecent ==
    \A document \in Resolved :
        \/ document \in documents \cup DocumentsOf(backend)
        \/ \E r \in replaced : r.document = document /\ hour - r.until <= CacheTtl

\* A chain built by attenuate_binding verifies as long as its last binding
\* lasts, and nobody in it may do what one before may not, or for longer.
ChainNarrows ==
    chain # << >> =>
        /\ BindingsVerify(chain) <=> ~ BindingExpired(Last(chain))
        /\ Len(chain) <= chain[1].depth + 1
        /\ \A i, j \in DOMAIN chain : i < j =>
               /\ \A p \in Permissions \cup {All} : HasPermission(chain[j], p) => HasPermission(chain[i], p)
               /\ chain[j].expiry <= chain[i].expiry

\* What stands for an identity, be it a key, a binding or a certificate, is one it
\* has, or lately had.
IdentityHolds == ResolvedIsRecent /\ ChainNarrows /\ CertificatesHold
===============================================================================
